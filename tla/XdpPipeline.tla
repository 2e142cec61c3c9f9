---------------------------- MODULE XdpPipeline ----------------------------
(***************************************************************************)
(* What xdp_prog decides about a packet once the per-source checks have    *)
(* answered (ebpf/xdp_prog.c:502-543, 702-803), while the rules API        *)
(* (src/api/rules.c) changes the rules and monitor_thread                  *)
(* (src/main.c:70-120) reads the counters.                                 *)
(*                                                                         *)
(* rules is a preallocated BPF hash map.  Updating a key links a new       *)
(* element in place of the old one; an element that was unlinked may be    *)
(* handed out again at once, even if a CPU still holds the pointer that    *)
(* its lookup returned.  The HTTP server handles one request at a time.    *)
(*                                                                         *)
(* The verdicts of handle_fragment, check_geoip, early_filter and of the   *)
(* checks of each protocol depend on other maps: any verdict is possible   *)
(* here.  Flow accounting follows the decision and does not change it.     *)
(***************************************************************************)
EXTENDS Integers, FiniteSets

CONSTANTS
  CPU,        \* CPUs that receive packets
  Address,    \* addresses that packets and rules give
  Nowhere,    \* 0.0.0.0, which a rule without a valid address gets
  Proto,      \* TCP, UDP and ICMP
  OtherProto, \* any other protocol number, 0 included
  U16,        \* modulus of a port
  Elem,       \* elements of the map of rules
  NoElem,     \* the NULL pointer
  Request,    \* rules that clients post
  Packet,     \* packets that are received
  NoPacket,   \* what an idle CPU runs
  U32,        \* modulus of the reported rate
  MaxPackets, \* bound: packets of a run
  MaxRequests,\* bound: rules changes of a run
  MaxReports  \* bound: reports of a run

Port == 0 .. U16 - 1
Key  == [ip : Address \cup {Nowhere}, port : Port,
         proto : Proto \cup {OtherProto}]

ASSUME XdpPipelineAssumption ==
  /\ IsFiniteSet(CPU)
  /\ Nowhere \notin Address
  /\ OtherProto \notin Proto
  /\ NoElem \notin Elem
  /\ NoPacket \notin Packet
  /\ U16 \in Nat \ {0}
  /\ U32 \in Nat \ {0}
  /\ Packet \subseteq [src : Address, dst : Address, sport : Port,
                       dport : Port, proto : Proto \cup {OtherProto}]
  /\ Request \subseteq [ip : Address \cup {Nowhere}, port : Int,
                        proto : Proto \cup {OtherProto},
                        action : {"drop", "pass"}]
  /\ {MaxPackets, MaxRequests, MaxReports} \subseteq Nat

VARIABLES
  slot,     \* what the elements hold: a key and an action
  linked,   \* elements that are in the map
  cpu,      \* label, packet and pointer of each CPU
  count,    \* global_stats: packets counted by each CPU
  sent,     \* packets received so far
  requests, \* rules changes so far
  monitor,  \* label of monitor_thread, CPUs it has not read yet, its sum
  prev,     \* prev_packets
  reports,  \* reports so far
  settled,  \* history: CPUs whose packet has met no change of its rules
  since     \* history: packets received when the last reading began, and
            \* when this one began

rulesVars   == <<slot, linked, requests>>
packetVars  == <<cpu, count, sent>>
monitorVars == <<monitor, prev, reports, since>>
vars == <<rulesVars, packetVars, monitorVars, settled>>

Label == {"idle", "screen", "srcExact", "srcWild", "srcAct", "dstExact",
          "dstWild", "dstAct", "denied", "allowed"}

Idle == [at |-> "idle", pkt |-> NoPacket, elem |-> NoElem]

At(c, label)   == cpu[c].at = label
Goto(c, label) == cpu' = [cpu EXCEPT ![c].at = label]
Return(c)      == cpu' = [cpu EXCEPT ![c] = Idle]

Init ==
  /\ slot \in [Elem -> {[key |-> [ip |-> Nowhere, port |-> 0,
                                  proto |-> OtherProto],
                         action |-> "pass"]}]
  /\ linked = {}
  /\ cpu = [c \in CPU |-> Idle]
  /\ count = [c \in CPU |-> 0]
  /\ sent = 0
  /\ requests = 0
  /\ monitor = [at |-> "sleep", left |-> {}, sum |-> 0, ok |-> TRUE]
  /\ prev = 0
  /\ reports = 0
  /\ settled = CPU
  /\ since = [last |-> 0, this |-> 0]

-----------------------------------------------------------------------------
(* The rules API *)

\* The elements that the map holds for a key.
Found(key) == {e \in linked : slot[e].key = key}

Exact(ip, port, proto) == [ip |-> ip, port |-> port, proto |-> proto]
Wild(ip, proto)        == Exact(ip, 0, proto)

\* The keys that are looked up for a packet.
KeysOf(p) ==
  {Exact(p.src, p.sport, p.proto), Wild(p.src, p.proto),
   Exact(p.dst, p.dport, p.proto), Wild(p.dst, p.proto)}

\* The packets under way whose rules do not change with this key.
Unaffected(key) ==
  {c \in settled : At(c, "idle") \/ key \notin KeysOf(cpu[c].pkt)}

\* Mutation: the port is not cut to 16 bits.
RuleKeyWide(ip, port, proto) == Exact(ip, port, proto)

\* The key of a new rule: htons(port) keeps 16 bits, and what is missing or
\* does not parse stays 0.
RuleKey(ip, port, proto) == Exact(ip, port % U16, proto)

\* api_rules_create; nothing changes if the request is not JSON or if the map
\* has no element left.
PostRule(key, action) ==
  /\ requests < MaxRequests
  /\ requests' = requests + 1
  /\ \E e \in Elem \ linked :
       /\ slot' = [slot EXCEPT ![e] = [key |-> key, action |-> action]]
       /\ linked' = (linked \ Found(key)) \cup {e}
  /\ settled' = Unaffected(key)
  /\ UNCHANGED <<packetVars, monitorVars>>

\* api_rules_delete.  The fields of an id that does not parse are not
\* initialised: then any key may be the one that is deleted.
DeleteRule(key) ==
  /\ requests < MaxRequests
  /\ requests' = requests + 1
  /\ Found(key) # {}
  /\ linked' = linked \ Found(key)
  /\ settled' = Unaffected(key)
  /\ UNCHANGED <<slot, packetVars, monitorVars>>

Api ==
  \/ \E r \in Request : PostRule(RuleKey(r.ip, r.port, r.proto), r.action)
  \/ \E e \in linked : DeleteRule(slot[e].key)

-----------------------------------------------------------------------------
(* xdp_prog *)

\* A packet arrives and is counted, whatever becomes of it.
Receive(c, p) ==
  /\ At(c, "idle")
  /\ sent < MaxPackets
  /\ sent' = sent + 1
  /\ count' = [count EXCEPT ![c] = @ + 1]
  /\ cpu' = [cpu EXCEPT ![c] = [at |-> "screen", pkt |-> p, elem |-> NoElem]]
  /\ settled' = settled \cup {c}
  /\ UNCHANGED <<rulesVars, monitorVars>>

\* A check drops the packet; it is too short, or its protocol is another: it
\* passes, and no rule is looked at.
Screen(c) ==
  /\ At(c, "screen")
  /\ Return(c)
  /\ UNCHANGED <<rulesVars, count, sent, monitorVars, settled>>

\* The checks let the packet pass.
Admit(c) ==
  /\ At(c, "screen")
  /\ cpu[c].pkt.proto # OtherProto
  /\ Goto(c, "srcExact")
  /\ UNCHANGED <<rulesVars, count, sent, monitorVars, settled>>

\* bpf_map_lookup_elem(&rules, &key)
Lookup(c, label, key, found, missing) ==
  /\ At(c, label)
  /\ \/ /\ Found(key) = {}
        /\ Goto(c, missing)
     \/ \E e \in Found(key) :
          cpu' = [cpu EXCEPT ![c].at = found, ![c].elem = e]
  /\ UNCHANGED <<rulesVars, count, sent, monitorVars, settled>>

\* Mutation: the rule for any port comes before the one for the port.
FirstLookupWild(c) ==
  LET p == cpu[c].pkt
  IN  \/ At(c, "srcExact")
           /\ Lookup(c, "srcExact", Wild(p.src, p.proto), "srcAct", "srcWild")
      \/ At(c, "dstExact")
           /\ Lookup(c, "dstExact", Wild(p.dst, p.proto), "dstAct", "dstWild")

\* The rule for the address and its port: source, then destination.
FirstLookup(c) ==
  LET p == cpu[c].pkt
  IN  \/ At(c, "srcExact")
           /\ Lookup(c, "srcExact", Exact(p.src, p.sport, p.proto),
                     "srcAct", "srcWild")
      \/ At(c, "dstExact")
           /\ Lookup(c, "dstExact", Exact(p.dst, p.dport, p.proto),
                     "dstAct", "dstWild")

\* The rule for the address and any port.
SecondLookup(c) ==
  LET p == cpu[c].pkt
  IN  \/ At(c, "srcWild")
           /\ Lookup(c, "srcWild", Wild(p.src, p.proto), "srcAct", "dstExact")
      \/ At(c, "dstWild")
           /\ Lookup(c, "dstWild", Wild(p.dst, p.proto), "dstAct", "allowed")

\* rule->action, read from what the element holds by now.  A rule that lets the
\* source pass does not spare the packet the rules of its destination.
Act(c) ==
  /\ cpu[c].at \in {"srcAct", "dstAct"}
  /\ Goto(c, IF slot[cpu[c].elem].action = "drop" THEN "denied"
             ELSE IF At(c, "srcAct") THEN "dstExact" ELSE "allowed")
  /\ UNCHANGED <<rulesVars, count, sent, monitorVars, settled>>

\* XDP_DROP, or XDP_PASS after the flow has been accounted for.
Answer(c) ==
  /\ cpu[c].at \in {"denied", "allowed"}
  /\ Return(c)
  /\ UNCHANGED <<rulesVars, count, sent, monitorVars, settled>>

Handle(c) ==
  \/ \E p \in Packet : Receive(c, p)
  \/ Screen(c)
  \/ Admit(c)
  \/ FirstLookup(c)
  \/ SecondLookup(c)
  \/ Act(c)
  \/ Answer(c)

-----------------------------------------------------------------------------
(* monitor_thread *)

\* Mutation: the totals are not reset before each reading.
BeginOn ==
  /\ monitor.at = "sleep"
  /\ reports < MaxReports
  /\ monitor' = [monitor EXCEPT !.at = "read", !.left = CPU, !.ok = TRUE]
  /\ since' = [last |-> since.this, this |-> sent]
  /\ UNCHANGED <<rulesVars, packetVars, prev, reports, settled>>

\* A reading begins.
Begin ==
  /\ monitor.at = "sleep"
  /\ reports < MaxReports
  /\ monitor' = [at |-> "read", left |-> CPU, sum |-> 0, ok |-> TRUE]
  /\ since' = [last |-> since.this, this |-> sent]
  /\ UNCHANGED <<rulesVars, packetVars, prev, reports, settled>>

\* bpf_map_lookup_elem copies the counters one CPU after the other, while the
\* CPUs go on counting.
Copy(c) ==
  /\ monitor.at = "read"
  /\ c \in monitor.left
  /\ monitor' = [monitor EXCEPT !.left = @ \ {c}, !.sum = @ + count[c]]
  /\ UNCHANGED <<rulesVars, packetVars, prev, reports, since, settled>>

\* The lookup fails: the totals stay 0.
Fail ==
  /\ monitor.at = "read"
  /\ monitor.left = CPU
  /\ monitor' = [monitor EXCEPT !.left = {}, !.ok = FALSE]
  /\ UNCHANGED <<rulesVars, packetVars, prev, reports, since, settled>>

\* The rate of the last second; none is known as long as no packet was seen.
Pps == IF prev > 0 THEN (monitor.sum - prev) % U32 ELSE 0

\* The rate is broadcast and the total kept for the next one.
Report ==
  /\ monitor.at = "read"
  /\ monitor.left = {}
  /\ reports' = reports + 1
  /\ prev' = monitor.sum
  /\ monitor' = [monitor EXCEPT !.at = "sleep"]
  /\ UNCHANGED <<rulesVars, packetVars, since, settled>>

Monitor ==
  \/ Begin
  \/ \E c \in CPU : Copy(c)
  \/ Fail
  \/ Report

\* The bounds on packets and reports are reached, and nothing is under way.
Finished ==
  /\ sent = MaxPackets /\ \A c \in CPU : At(c, "idle")
  /\ reports = MaxReports
  /\ UNCHANGED vars

Next ==
  \/ Api
  \/ \E c \in CPU : Handle(c)
  \/ Monitor
  \/ Finished

Spec == Init /\ [][Next]_vars

-----------------------------------------------------------------------------
(* Properties *)

\* Every variable keeps its type; the map holds one rule for a key, and a CPU
\* that reads an action holds a pointer.
TypeOK ==
  /\ slot \in [Elem -> [key : Key, action : {"drop", "pass"}]]
  /\ linked \subseteq Elem
  /\ \A d, e \in linked : slot[d].key = slot[e].key => d = e
  /\ cpu \in [CPU -> [at : Label, pkt : Packet \cup {NoPacket},
                      elem : Elem \cup {NoElem}]]
  /\ \A c \in CPU : At(c, "idle") <=> cpu[c].pkt = NoPacket
  /\ \A c \in CPU : cpu[c].at \in {"srcAct", "dstAct"} => cpu[c].elem # NoElem
  /\ count \in [CPU -> Nat]
  /\ sent \in 0 .. MaxPackets
  /\ requests \in 0 .. MaxRequests
  /\ monitor \in [at : {"sleep", "read"}, left : SUBSET CPU, sum : Nat,
                  ok : BOOLEAN]
  /\ prev \in Nat
  /\ reports \in 0 .. MaxReports
  /\ monitor.at = "read" => reports < MaxReports
  /\ settled \subseteq CPU
  /\ since \in [last : 0 .. sent, this : 0 .. sent]

\* The most specific rule for one end of a packet, if there is any.
Decisive(ip, port, proto) ==
  IF Found(Exact(ip, port, proto)) # {} THEN Found(Exact(ip, port, proto))
  ELSE Found(Wild(ip, proto))

Denies(ip, port, proto) ==
  \E e \in Decisive(ip, port, proto) : slot[e].action = "drop"

Denied(p) == \/ Denies(p.src, p.sport, p.proto)
             \/ Denies(p.dst, p.dport, p.proto)

\* A packet that gets as far as the rules is dropped exactly if the rules deny
\* one of its ends, although they are looked up one by one: whatever happens
\* to the other rules meanwhile, the elements they leave and take included
\* (lines 502-543, 798-803).
RulesDecide ==
  \A c \in settled : /\ At(c, "denied")  => Denied(cpu[c].pkt)
                     /\ At(c, "allowed") => ~ Denied(cpu[c].pkt)

\* The rate that monitor_thread broadcasts never exceeds the packets received
\* since its last reading began, although the CPUs count while it reads, unless
\* the lookup has failed (src/main.c:87-103).
RateIsReal ==
  monitor.at = "read" /\ monitor.left = {} /\ monitor.ok =>
    Pps <= sent - since.last

=============================================================================
