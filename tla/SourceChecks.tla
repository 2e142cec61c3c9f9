---------------------------- MODULE SourceChecks ----------------------------
(***************************************************************************)
(* The five per-source checks of the XDP program, the flow table and the   *)
(* record of attacks side by side.  Each keeps its own maps and a packet   *)
(* meets a check only once; what a check asks the flow table is an input   *)
(* of it, and that a flood datagram is recorded changes no verdict.  So    *)
(* they do not interact: a behaviour of this module is a behaviour of one  *)
(* of them, and one instance checks all of them.                           *)
(***************************************************************************)
EXTENDS SynFlood, DnsAmp, UdpFlood, FragTrack, IcmpBucket, FlowTable, AttackLog

CONSTANT Check \* the checks that are looked at

ASSUME SourceChecksAssumption ==
  Check \subseteq {"syn", "dns", "udp", "frag", "icmp", "flow", "log"}

VARIABLE check \* the one this behaviour is about

allVars == <<vars, logVars, check>>

Init ==
  /\ check \in Check
  /\ LogInit
  /\ \/ check = "syn"  /\ SynInit
     \/ check = "dns"  /\ DnsInit
     \/ check = "udp"  /\ UdpInit
     \/ check = "frag" /\ FragInit
     \/ check = "icmp" /\ IcmpInit
     \/ check = "flow" /\ FlowInit
     \/ check = "log"  /\ InitWith([last |-> 0])

Next ==
  /\ \/ /\ \/ check = "syn"  /\ SynNext
           \/ check = "dns"  /\ DnsNext
           \/ check = "udp"  /\ UdpNext
           \/ check = "frag" /\ FragNext
           \/ check = "icmp" /\ IcmpNext
           \/ check = "flow" /\ FlowNext
        /\ UNCHANGED logVars
     \/ /\ check = "log"
        /\ LogNext
        /\ UNCHANGED vars
  /\ UNCHANGED check

Spec == Init /\ [][Next]_allVars

-----------------------------------------------------------------------------

\* Whichever the check, every variable keeps its type: no CPU follows a null
\* pointer, no rate is computed over a time of zero (line 347), and no bucket
\* holds more than the rate even when the elapsed time wraps (lines 630-639),
\* and the count and every index stay within the array of attacks (lines
\* 217-246).
TypeOK ==
  /\ check \in Check
  /\ check = "syn"  => SynTypeOK
  /\ check = "dns"  => DnsTypeOK
  /\ check = "udp"  => UdpTypeOK
  /\ check = "frag" => FragTypeOK
  /\ check = "icmp" => IcmpTypeOK
  /\ check = "flow" => FlowTypeOK
  /\ LogTypeOK

(* Properties of the interleavings of several CPUs. *)

\* No SYN is dropped before more than syn_flood_rate SYNs have been counted, of
\* the source or of others that its element was handed out to (lines 567-583).
SynDropsNeedRate == check = "syn" => SynDropNeedsRate

\* No SYN is dropped unless a segment, of the source or of another that its
\* element was handed out to, was let through less than a second before (lines
\* 563-569, 587).
SynNotShutOut == check = "syn" => SynNeverShutOut

\* No DNS packet is dropped for its rate unless one, of the source or of another
\* that its element was handed out to, was let through less than a second before
\* (lines 406-417, 448).
DnsNotShutOut == check = "dns" => DnsNeverShutOut

\* Nothing is dropped early, whatever the CPUs lose or misplace: no datagram as
\* a flood before more than UDP_FLOOD_BURST of them (lines 327-338, 361), no
\* fragment for the count before more than max_frags of them (lines 477-484),
\* and no ICMP packet before a whole bucket is spent (lines 623, 637-644), what
\* other sources count in a shared element included.
DropsNeedBurst ==
  /\ check = "udp"  => UdpDropNeedsBurst
  /\ check = "frag" => FragDropNeedsMany
  /\ check = "icmp" => IcmpDropNeedsBurst

\* A flow never shows more packets than were received, its own and those that
\* others have counted in an element it shared with them (lines 849-875).
FlowCountsAtMost == check = "flow" => FlowNotOvercounted

(* Properties of the packets of a source that one CPU handles, one after the *)
(* other, and that no other source interferes with.                          *)

\* Every drop has its reason.  A SYN is dropped only in a second in which more
\* than syn_flood_rate SYNs arrived (lines 569-583); a DNS packet is dropped for
\* its rate only in a second in which the source sent more than the threshold
\* of its flow (lines 417-441); a fragment is dropped for the count exactly when
\* its run is too long (lines 468-485).
DropsJustified ==
  /\ check = "syn"  => SynDropJustified
  /\ check = "dns"  => DnsDropJustified
  /\ check = "frag" => FragDropExact

\* The limits limit.  No second lets more than twice the rate of a plain SYN
\* flood through (lines 545-598), nor more than twice the rate of new DNS flows
\* and two large responses (lines 426-451).
RatesCapped ==
  /\ check = "syn" => SynFloodCapped
  /\ check = "dns" => DnsRateCapped /\ DnsLargeResponsesCapped

\* What passes between any two dates is at most a full bucket, what is earned
\* meanwhile and the free first packet (lines 616-644); and a packet is dropped
\* only if one was let through less than the time a token takes to be earned
\* before, or so long before that the refill overflows (lines 631-645).
IcmpConforms == check = "icmp" => IcmpConformance /\ IcmpNoStarvation

\* A flow shows the packets that have passed, and is established exactly when
\* it is more than five seconds old (lines 295-302, 820-875).
FlowExact == check = "flow" => FlowKeptExactly

(* What the comments say and the code does not do. *)

\* The SYN counters are safe under concurrent access (comment at line 570).
SynWindowSafe == check = "syn" => SynWindowIsAtomic

=============================================================================
