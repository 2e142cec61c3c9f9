------------------------------ MODULE SynFlood ------------------------------
(***************************************************************************)
(* check_syn_flood of the XDP program (ebpf/xdp_prog.c:545-598), for the   *)
(* segments of one source that carry the SYN flag, run by several CPUs.    *)
(*                                                                         *)
(* The counters are incremented atomically; every other load and store of  *)
(* the shared element is a step of its own, in the order of the code.      *)
(***************************************************************************)
EXTENDS LruEntry

CONSTANTS
  SynFloodRate, \* cfg.syn_flood_rate
  AckFactor     \* 10 in the code

\* Segments with the SYN flag, without and with the ACK flag
SynPacket == {"syn", "synack"}

ASSUME SynFloodAssumption ==
  /\ NoPacket \notin SynPacket
  /\ SynFloodRate \in 0 .. U32 - 1
  /\ AckFactor \in Nat

SynLabel == {"idle", "stamp", "insert", "age", "count", "rate", "acks",
             "drop", "reopen", "own", "other"}

\* Mutation: an element created by a SYN-ACK starts as if by a SYN.
SynOpeningAsSyn(pkt, now) == [last |-> now, syn |-> 1, synack |-> 0]

\* What the element of a segment that opens a window holds.
SynOpening(pkt, now) ==
  [last   |-> now,
   syn    |-> IF pkt = "syn" THEN 1 ELSE 0,
   synack |-> IF pkt = "synack" THEN 1 ELSE 0]

\* Mutation: a window never ends.
SynFreshForever(now, last) == now >= last

\* The segment falls in the window of the element.
SynFresh(now, last) == Elapsed(now, last) < Window

\* Mutation: the comparison is off by one.
SynOverRatePlusOne(m) == m.syn > SynFloodRate + 1

\* The two comparisons that make a flood of the counters m.
SynOverRate(m)   == m.syn > SynFloodRate
SynUnanswered(m) == m.syn > (AckFactor * m.synack) % U32

\* Only SYNs are ever judged, so only their passing is recorded.
SynPass(c) ==
  /\ passed' = IF cpu[c].pkt = "syn" THEN Append(passed, Stamped(c))
               ELSE passed
  /\ Return(c)

SynInit == InitWith([last |-> 0, syn |-> 0, synack |-> 0])

SynArrive(c, p) == BeginWithLookup(c, p, "stamp")

\* Mutation: the result of the lookup is not tested for NULL.
SynStampUnchecked(c) ==
  /\ At(c, "stamp")
  /\ ThenClock(c, "age")

\* Both branches of the lookup then read the clock.
SynStamp(c) ==
  /\ At(c, "stamp")
  /\ ThenClock(c, IF cpu[c].elem = NoElem THEN "insert" ELSE "age")

\* The source was unknown: link a new element, over one that another CPU may
\* have linked meanwhile.
SynInsert(c) ==
  /\ At(c, "insert")
  /\ Link(SynOpening(cpu[c].pkt, cpu[c].now))
  /\ opened' = opened \cup {cpu[c].now}
  /\ SynPass(c)
  /\ UNCHANGED <<clock, sent, evicted, others, received>>

\* Read last_update and decide whether the segment falls in its window.
SynAge(c) ==
  /\ At(c, "age")
  /\ Goto(c, IF SynFresh(cpu[c].now, mem[cpu[c].elem].last) THEN "count"
             ELSE "reopen")
  /\ UNCHANGED <<clock, entry, mem, sent, evicted, others, history>>

SynCountSynAck(c) ==
  /\ At(c, "count")
  /\ cpu[c].pkt = "synack"
  /\ mem' = [mem EXCEPT ![cpu[c].elem].synack = @ + 1]
  /\ SynPass(c)
  /\ UNCHANGED <<clock, entry, sent, evicted, others, received, opened>>

SynCountSyn(c) ==
  /\ At(c, "count")
  /\ cpu[c].pkt = "syn"
  /\ mem' = [mem EXCEPT ![cpu[c].elem].syn = @ + 1]
  /\ Goto(c, "rate")
  /\ UNCHANGED <<clock, entry, sent, evicted, others, history>>

\* The counter is read again after the increment, once for each comparison.
SynJudgeRate(c) ==
  /\ At(c, "rate")
  /\ \/ /\ SynOverRate(mem[cpu[c].elem])
        /\ Goto(c, "acks")
        /\ UNCHANGED passed
     \/ /\ ~ SynOverRate(mem[cpu[c].elem])
        /\ SynPass(c)
  /\ UNCHANGED <<clock, entry, mem, sent, evicted, others, received, opened>>

SynJudgeAcks(c) ==
  /\ At(c, "acks")
  /\ \/ /\ SynUnanswered(mem[cpu[c].elem])
        /\ Goto(c, "drop")
        /\ UNCHANGED passed
     \/ /\ ~ SynUnanswered(mem[cpu[c].elem])
        /\ SynPass(c)
  /\ UNCHANGED <<clock, entry, mem, sent, evicted, others, received, opened>>

\* return XDP_DROP
SynDrop(c) ==
  /\ At(c, "drop")
  /\ Return(c)
  /\ UNCHANGED <<clock, entry, mem, sent, evicted, others, history>>

\* The window is over: last_update is stored first, then the counter of the
\* segment's own kind, then the other one.
SynReopen(c) ==
  /\ At(c, "reopen")
  /\ mem' = [mem EXCEPT ![cpu[c].elem].last = cpu[c].now]
  /\ opened' = opened \cup {cpu[c].now}
  /\ Goto(c, "own")
  /\ UNCHANGED <<clock, entry, sent, evicted, others, received, passed>>

SynResetOwn(c) ==
  /\ At(c, "own")
  /\ mem' = IF cpu[c].pkt = "syn" THEN [mem EXCEPT ![cpu[c].elem].syn = 1]
            ELSE [mem EXCEPT ![cpu[c].elem].synack = 1]
  /\ Goto(c, "other")
  /\ UNCHANGED <<clock, entry, sent, evicted, others, history>>

SynResetOther(c) ==
  /\ At(c, "other")
  /\ mem' = IF cpu[c].pkt = "syn" THEN [mem EXCEPT ![cpu[c].elem].synack = 0]
            ELSE [mem EXCEPT ![cpu[c].elem].syn = 0]
  /\ SynPass(c)
  /\ UNCHANGED <<clock, entry, sent, evicted, others, received, opened>>

SynHandle(c) ==
  \/ \E p \in SynPacket : SynArrive(c, p)
  \/ SynStamp(c)
  \/ SynInsert(c)
  \/ SynAge(c)
  \/ SynCountSynAck(c)
  \/ SynCountSyn(c)
  \/ SynJudgeRate(c)
  \/ SynJudgeAcks(c)
  \/ SynDrop(c)
  \/ SynReopen(c)
  \/ SynResetOwn(c)
  \/ SynResetOther(c)

\* Packets of other sources store in an element of this one.
SynIntrude ==
  \E e \in Elem, t \in 0 .. clock, n, m \in Foreign :
    Intrude(e, [last |-> t, syn |-> n, synack |-> m], t, Gain(n, mem[e].syn))

SynOwn ==
  \/ \E c \in CPU : SynHandle(c)
  \/ Evict
  \/ Tick
  \/ Finished

SynNext == SynOwn \/ SynIntrude

SynSpec == SynInit /\ [][SynNext]_vars

-----------------------------------------------------------------------------

SynCounters == [last : Time, syn : Nat, synack : Nat]

\* Every variable keeps its type, and a CPU past the branch of the failed
\* lookup holds an element.
SynTypeOK ==
  /\ TypesOK(SynPacket, SynCounters, SynLabel)
  /\ \A c \in CPU : ~ At(c, "idle") => cpu[c].pkt \in SynPacket
  /\ \A c \in CPU : cpu[c].at \notin {"idle", "stamp", "insert"}
                      => cpu[c].elem \in Elem

\* The SYNs of a history, and how many of them fall in the second ending at t.
SynsOf(log)    == {i \in DOMAIN log : log[i].pkt = "syn"}
SynsBy(log, t) == Cardinality(SynsOf(log) \cap Within(log, t, Window))

\* Nothing but SYNs has arrived, and the map has kept the entry as it is.
SynPlainFlood ==
  ~ evicted /\ Unshared /\ SynsOf(received) = DOMAIN received

\* However the CPUs interleave, a SYN is dropped only when the source has
\* sent more than syn_flood_rate SYNs, those included that other sources have
\* counted in an element it shared with them: no counter ever overstates what
\* was received (lines 567-583).
SynDropNeedsRate ==
  \A c \in CPU : At(c, "drop") =>
    Cardinality(SynsOf(received)) + others.gain > SynFloodRate

\* A source is never shut out: whenever one of its SYNs is dropped, a segment
\* was let through less than a second before, the one that opened the window
\* the dropped SYN was judged in, be it of this source or of another that the
\* element was handed out to (lines 563-569, 587).
SynNeverShutOut ==
  \A c \in CPU : At(c, "drop") =>
    \E t \in opened : cpu[c].now \in t .. (t + Window - 1)

\* As long as no other source interferes, a SYN is dropped only when it falls
\* in some second within which more than syn_flood_rate SYNs of the source
\* arrived (lines 569-583).
SynDropJustified ==
  Unshared => \A c \in CPU : At(c, "drop") =>
    \E t \in cpu[c].now .. (cpu[c].now + Window - 1) :
      SynsBy(received, t) > SynFloodRate

\* The counters are kept "for concurrent access" (comment at line 570): with
\* several CPUs too, and even without evictions or SYN-ACKs to complicate
\* things, a drop is justified.
SynWindowIsAtomic == SynPlainFlood => SynDropJustified

\* The limit limits: while the source sends no SYN-ACK and keeps its entry for
\* itself, no second lets more than twice the rate through (a second can
\* overlap two windows, and the first SYN of a window always passes).
SynFloodCapped ==
  LET cap == IF SynFloodRate = 0 THEN 1 ELSE SynFloodRate
  IN  SynPlainFlood => \A t \in Time : SynsBy(passed, t) <= 2 * cap

=============================================================================
