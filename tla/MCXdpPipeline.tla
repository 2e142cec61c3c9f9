---------------------------- MODULE MCXdpPipeline ----------------------------
(* Small instances of XdpPipeline.  The packets are records, which TLC does *)
(* not read from a .cfg.                                                    *)
EXTENDS XdpPipeline, TLC

CONSTANTS a, b, tcp

\* One between two ports, and one of a protocol without rules
Packets ==
  {[src |-> a, dst |-> b, sport |-> 1, dport |-> 1, proto |-> tcp],
   [src |-> a, dst |-> b, sport |-> 0, dport |-> 0, proto |-> OtherProto]}

Rule(ip, port, action) ==
  [ip |-> ip, port |-> port, proto |-> tcp, action |-> action]

\* For either end, a rule for the port and one for any port; the port of the
\* last but one does not fit in 16 bits, and the last has no valid address
Requests ==
  {Rule(a, 1, "drop"), Rule(a, 1, "pass"), Rule(a, 0, "drop"),
   Rule(b, 0, "pass"), Rule(b, U16, "drop"), Rule(Nowhere, 1, "drop")}

Symmetry == Permutations(CPU) \cup Permutations(Elem)
=============================================================================
