----------------------------- MODULE FlowTable -----------------------------
(***************************************************************************)
(* The entry of one flow in active_traffic: the accounting at the end of   *)
(* xdp_prog (ebpf/xdp_prog.c:806-878) and is_established_flow (282-305),   *)
(* which the checks of UDP ask for the age of the flow before the packet   *)
(* is accounted for.  The packets here are datagrams that get as far as    *)
(* the accounting; a segment goes there without asking.                    *)
(*                                                                         *)
(* Of the counters only packets is kept: the others are read and stored in *)
(* the same way.                                                           *)
(***************************************************************************)
EXTENDS LruEntry

CONSTANT FlowGrace \* ticks in five seconds

ASSUME FlowTableAssumption == FlowGrace \in Nat /\ NoPacket # "datagram"

FlowPacket == {"datagram"}

FlowLabel == {"idle", "ask", "age", "answered", "lookup", "insert", "load",
              "store", "relink"}

\* Mutation: the packet that creates the flow is counted again.
FlowCountersTwice(now) == [start |-> now, count |-> 2]

FlowCounters(now) == [start |-> now, count |-> 1]

\* Mutation: five seconds are enough.
FlowOldSoon(now, start) == Elapsed(now, start) >= FlowGrace

\* The flow is more than five seconds old.
FlowOld(now, start) == Elapsed(now, start) > FlowGrace

FlowInit == InitWith([start |-> 0, count |-> 0])

FlowArrive(c, p) == BeginWithClock(c, p, "ask")

\* is_established_flow looks the flow up ...
FlowAsk(c) ==
  /\ At(c, "ask")
  /\ ThenLookup(c, "age", "answered")

\* ... and computes its age from the clock that the check has read.
FlowAge(c) ==
  /\ At(c, "age")
  /\ GotoWith(c, "answered",
              IF FlowOld(cpu[c].now, mem[cpu[c].elem].start) THEN 1 ELSE 0)
  /\ UNCHANGED <<clock, entry, mem, sent, evicted, others, history>>

\* The check lets the packet pass; the accounting reads the clock again.
FlowClock(c) ==
  /\ At(c, "answered")
  /\ cpu' = [cpu EXCEPT ![c].now = clock, ![c].at = "lookup"]
  /\ UNCHANGED <<clock, entry, mem, sent, evicted, others, history>>

FlowLookup(c) ==
  /\ At(c, "lookup")
  /\ ThenLookup(c, "load", "insert")

FlowPass(c) ==
  /\ passed' = Append(passed, Stamped(c))
  /\ Return(c)

FlowInsert(c) ==
  /\ At(c, "insert")
  /\ Link(FlowCounters(cpu[c].now))
  /\ opened' = opened \cup {cpu[c].now}
  /\ FlowPass(c)
  /\ UNCHANGED <<clock, sent, evicted, others, received>>

\* info->packets++ is a load and a store.
FlowLoad(c) ==
  /\ At(c, "load")
  /\ GotoWith(c, "store", mem[cpu[c].elem].count)
  /\ UNCHANGED <<clock, entry, mem, sent, evicted, others, history>>

FlowStore(c) ==
  /\ At(c, "store")
  /\ mem' = [mem EXCEPT ![cpu[c].elem].count = cpu[c].arg + 1]
  /\ Goto(c, "relink")
  /\ UNCHANGED <<clock, entry, sent, evicted, others, history>>

\* bpf_map_update_elem(&active_traffic, &key, info, BPF_ANY): whatever the
\* element holds by now is copied into a new one, even if it was evicted
\* meanwhile and counts the packets of another flow.
FlowRelink(c) ==
  /\ At(c, "relink")
  /\ Link(mem[cpu[c].elem])
  /\ FlowPass(c)
  /\ UNCHANGED <<clock, sent, evicted, others, received, opened>>

FlowHandle(c) ==
  \/ \E p \in FlowPacket : FlowArrive(c, p)
  \/ FlowAsk(c)
  \/ FlowAge(c)
  \/ FlowClock(c)
  \/ FlowLookup(c)
  \/ FlowInsert(c)
  \/ FlowLoad(c)
  \/ FlowStore(c)
  \/ FlowRelink(c)

\* Packets of other flows store in an element of this one.
FlowIntrude ==
  \E e \in Elem, t \in 0 .. clock, n \in Foreign :
    Intrude(e, [start |-> t, count |-> n], t, Gain(n, mem[e].count))

FlowOwn ==
  \/ \E c \in CPU : FlowHandle(c)
  \/ Evict
  \/ Tick
  \/ Finished

FlowNext == FlowOwn \/ FlowIntrude

-----------------------------------------------------------------------------

\* Every variable keeps its type, and a CPU that reads or stores holds an
\* element.
FlowTypeOK ==
  /\ TypesOK(FlowPacket, [start : Time, count : Nat], FlowLabel)
  /\ \A c \in CPU : ~ At(c, "idle") => cpu[c].pkt \in FlowPacket
  /\ \A c \in CPU : cpu[c].at \in {"age", "load", "store", "relink"}
                      => cpu[c].elem \in Elem

\* Several CPUs may lose packets of a flow, or link an element again after it
\* was evicted and handed out to another flow, but the flow never shows more
\* packets than it has received and those that other flows have counted in an
\* element it shared with them (lines 849-875).
FlowNotOvercounted ==
  entry # NoElem => mem[entry].count <= Len(received) + others.gain

\* With one CPU and an entry that it keeps for itself the flow shows exactly
\* the packets that have passed, and it counts as established exactly when the
\* first of them did so more than five seconds before (lines 295-302, 820-875).
FlowKeptExactly ==
  ~ evicted /\ Unshared => \A c \in CPU :
    /\ At(c, "idle") /\ passed # <<>> => mem[entry].count = Len(passed)
    /\ At(c, "answered") =>
         (cpu[c].arg = 1
            <=> passed # <<>> /\ cpu[c].now > passed[1].t + FlowGrace)

=============================================================================
