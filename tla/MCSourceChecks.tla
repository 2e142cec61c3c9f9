--------------------------- MODULE MCSourceChecks ---------------------------
(* Small instances of SourceChecks.  TLC cannot read records from a .cfg:   *)
(* the kinds of DNS packets and UDP datagrams are chosen here.              *)
EXTENDS SourceChecks, TLC

\* A query of a new flow, alone and with a large response of an old one
DnsQuery == {[response |-> FALSE, large |-> FALSE, old |-> FALSE]}
DnsKinds == {[response |-> FALSE, large |-> FALSE, old |-> FALSE],
             [response |-> TRUE,  large |-> TRUE,  old |-> TRUE]}

\* A datagram of a new flow, and an oversized one of an old flow
UdpKinds == {[old |-> FALSE, oversize |-> FALSE],
             [old |-> TRUE,  oversize |-> TRUE]}

Symmetry ==
  Permutations(CPU) \cup Permutations(Elem) \cup Permutations(Recorder)
=============================================================================
