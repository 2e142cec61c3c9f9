------------------------------- MODULE DnsAmp -------------------------------
(***************************************************************************)
(* check_dns_amplification of the XDP program (ebpf/xdp_prog.c:391-454),   *)
(* for the DNS packets (either port 53) of one source, run by several      *)
(* CPUs.  A packet is a response or not, large (over 512 bytes) or not,    *)
(* and belongs to an established flow or not: is_established_flow looks    *)
(* the age of the packet's own flow up in another map, and one source has  *)
(* flows of any age, so the answer is an input here.                       *)
(*                                                                         *)
(* total_size is written and never read: it is left out.                   *)
(***************************************************************************)
EXTENDS LruEntry

CONSTANTS
  DnsPacket,  \* kinds of DNS packets the source sends
  DnsAmpRate, \* cfg.dns_amp_rate
  DnsLeniency \* 5 in the code

ASSUME DnsAmpAssumption ==
  /\ DnsPacket \subseteq [response : BOOLEAN, large : BOOLEAN, old : BOOLEAN]
  /\ NoPacket \notin DnsPacket
  /\ DnsAmpRate \in 0 .. U32 - 1
  /\ DnsLeniency \in Nat \ {0}

DnsLabel == {"idle", "stamp", "insert", "age", "count", "rate", "size",
             "drop", "large", "reopen", "reset"}

\* Mutation: a window never ends.
DnsFreshForever(now, last) == now >= last

\* The packet falls in the window of the element.
DnsFresh(now, last) == Elapsed(now, last) < Window

\* Flows older than five seconds get five times the rate, in 32 bits: for large
\* rates that may be less than the rate.
DnsThreshold(pkt) ==
  IF pkt.old THEN (DnsAmpRate * DnsLeniency) % U32 ELSE DnsAmpRate

DnsOversize(pkt) == pkt.response /\ pkt.large

DnsPass(c) ==
  /\ passed' = Append(passed, Stamped(c))
  /\ Return(c)

DnsInit == InitWith([last |-> 0, count |-> 0])

DnsArrive(c, p) == BeginWithLookup(c, p, "stamp")

\* Both branches of the lookup then read the clock.
DnsStamp(c) ==
  /\ At(c, "stamp")
  /\ ThenClock(c, IF cpu[c].elem = NoElem THEN "insert" ELSE "age")

DnsInsert(c) ==
  /\ At(c, "insert")
  /\ Link([last |-> cpu[c].now, count |-> 1])
  /\ opened' = opened \cup {cpu[c].now}
  /\ DnsPass(c)
  /\ UNCHANGED <<clock, sent, evicted, others, received>>

DnsAge(c) ==
  /\ At(c, "age")
  /\ Goto(c, IF DnsFresh(cpu[c].now, mem[cpu[c].elem].last) THEN "count"
             ELSE "reopen")
  /\ UNCHANGED <<clock, entry, mem, sent, evicted, others, history>>

DnsCount(c) ==
  /\ At(c, "count")
  /\ mem' = [mem EXCEPT ![cpu[c].elem].count = @ + 1]
  /\ Goto(c, "rate")
  /\ UNCHANGED <<clock, entry, sent, evicted, others, history>>

DnsJudge(c) ==
  /\ At(c, "rate")
  /\ Goto(c, IF mem[cpu[c].elem].count > DnsThreshold(cpu[c].pkt) THEN "drop"
             ELSE "size")
  /\ UNCHANGED <<clock, entry, mem, sent, evicted, others, history>>

\* Within the rate, a response of more than 512 bytes is dropped all the same.
DnsJudgeSize(c) ==
  /\ At(c, "size")
  /\ \/ /\ DnsOversize(cpu[c].pkt)
        /\ Goto(c, "large")
        /\ UNCHANGED passed
     \/ /\ ~ DnsOversize(cpu[c].pkt)
        /\ DnsPass(c)
  /\ UNCHANGED <<clock, entry, mem, sent, evicted, others, received, opened>>

\* The two returns of XDP_DROP
DnsDrop(c) ==
  /\ cpu[c].at \in {"drop", "large"}
  /\ Return(c)
  /\ UNCHANGED <<clock, entry, mem, sent, evicted, others, history>>

\* Mutation: the count of the last window is not cleared.
DnsResetForgotten(c) ==
  /\ At(c, "reset")
  /\ mem' = [mem EXCEPT ![cpu[c].elem].count = @ + 1]
  /\ DnsPass(c)
  /\ UNCHANGED <<clock, entry, sent, evicted, others, received, opened>>

\* The window is over: last_update is stored first, then the counter.
DnsReopen(c) ==
  /\ At(c, "reopen")
  /\ mem' = [mem EXCEPT ![cpu[c].elem].last = cpu[c].now]
  /\ opened' = opened \cup {cpu[c].now}
  /\ Goto(c, "reset")
  /\ UNCHANGED <<clock, entry, sent, evicted, others, received, passed>>

DnsReset(c) ==
  /\ At(c, "reset")
  /\ mem' = [mem EXCEPT ![cpu[c].elem].count = 1]
  /\ DnsPass(c)
  /\ UNCHANGED <<clock, entry, sent, evicted, others, received, opened>>

DnsHandle(c) ==
  \/ \E p \in DnsPacket : DnsArrive(c, p)
  \/ DnsStamp(c)
  \/ DnsInsert(c)
  \/ DnsAge(c)
  \/ DnsCount(c)
  \/ DnsJudge(c)
  \/ DnsJudgeSize(c)
  \/ DnsDrop(c)
  \/ DnsReopen(c)
  \/ DnsReset(c)

\* Packets of other sources store in an element of this one.
DnsIntrude ==
  \E e \in Elem, t \in 0 .. clock, n \in Foreign :
    Intrude(e, [last |-> t, count |-> n], t, Gain(n, mem[e].count))

DnsOwn ==
  \/ \E c \in CPU : DnsHandle(c)
  \/ Evict
  \/ Tick
  \/ Finished

DnsNext == DnsOwn \/ DnsIntrude

DnsSpec == DnsInit /\ [][DnsNext]_vars

-----------------------------------------------------------------------------

\* Every variable keeps its type, and a CPU past the branch of the failed
\* lookup holds an element.
DnsTypeOK ==
  /\ TypesOK(DnsPacket, [last : Time, count : Nat], DnsLabel)
  /\ \A c \in CPU : ~ At(c, "idle") => cpu[c].pkt \in DnsPacket
  /\ \A c \in CPU : cpu[c].at \notin {"idle", "stamp", "insert"}
                      => cpu[c].elem \in Elem

\* How many packets of a history fall in the second that ends at t.
DnsBy(log, t) == Cardinality(Within(log, t, Window))

\* As long as no other source interferes, a packet is dropped for its rate only
\* when it falls in some second within which the source sent more than the
\* threshold of the packet's flow, which is five times the rate for established
\* flows whenever that fits into 32 bits (lines 417-441).
DnsDropJustified ==
  Unshared => \A c \in CPU : At(c, "drop") =>
    \E t \in cpu[c].now .. (cpu[c].now + Window - 1) :
      DnsBy(received, t) > DnsThreshold(cpu[c].pkt)

\* The limit limits: while the source keeps its entry for itself, no second
\* lets more packets of flows that are not established through than twice the
\* rate, whatever the established flows of the source do (lines 426-441).
DnsRateCapped ==
  LET cap == IF DnsAmpRate = 0 THEN 1 ELSE DnsAmpRate
      new == {i \in DOMAIN passed : ~ passed[i].pkt.old}
  IN  ~ evicted /\ Unshared => \A t \in Time :
        Cardinality(new \cap Within(passed, t, Window)) <= 2 * cap

\* Large responses get through only as the first packet of a window, so no
\* second lets more than two of them through (lines 443-451).
DnsLargeResponsesCapped ==
  LET large == {i \in DOMAIN passed : passed[i].pkt.response
                                        /\ passed[i].pkt.large}
  IN  ~ evicted /\ Unshared => \A t \in Time :
        Cardinality(large \cap Within(passed, t, Window)) <= 2

\* Also with several CPUs a packet is dropped for its rate only if one was let
\* through less than a second before, the one that opened the window, be it of
\* this source or of another that the element was handed out to (lines 406-417,
\* 448).
DnsNeverShutOut ==
  \A c \in CPU : At(c, "drop") =>
    \E t \in opened : cpu[c].now \in t .. (t + Window - 1)

=============================================================================
