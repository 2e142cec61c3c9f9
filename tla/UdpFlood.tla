------------------------------ MODULE UdpFlood ------------------------------
(***************************************************************************)
(* check_udp_flood of the XDP program (ebpf/xdp_prog.c:307-389), for the   *)
(* datagrams of one source, run by several CPUs.  A datagram belongs to an *)
(* established flow or not (an input, as in DnsAmp), and is oversized or   *)
(* not: a DNS query of more than 512 bytes, or NTP of more than 1024.      *)
(*                                                                         *)
(* The code reads the clock before it looks the source up.  byte_count is  *)
(* written and never read: it is left out.                                 *)
(***************************************************************************)
EXTENDS LruEntry

CONSTANTS
  UdpPacket,    \* kinds of datagrams the source sends
  MinGap,       \* ticks in 100000000 ns
  UdpFloodRate, \* cfg.udp_flood_rate
  UdpBurst,     \* UDP_FLOOD_BURST
  UdpLeniency   \* 10 in the code

ASSUME UdpFloodAssumption ==
  /\ UdpPacket \subseteq [old : BOOLEAN, oversize : BOOLEAN]
  /\ NoPacket \notin UdpPacket
  /\ MinGap \in Nat
  /\ MinGap < Window
  /\ UdpFloodRate \in 0 .. U32 - 1
  /\ UdpBurst \in Nat
  /\ UdpLeniency \in Nat \ {0}

UdpLabel == {"idle", "lookup", "insert", "age", "count", "pps", "burst",
             "drop", "slide", "reset", "reopen"}

UdpFresh(now, last) == Elapsed(now, last) < Window

\* More than 100 ms since the datagram that last_update dates.
UdpLongEnough(diff) == diff > MinGap

\* Flows older than five seconds get ten times the rate, in 32 bits.
UdpThreshold(pkt) ==
  IF pkt.old THEN (UdpFloodRate * UdpLeniency) % U32 ELSE UdpFloodRate

\* The count per second that a count over the time diff amounts to.
UdpPps(count, diff) == (count * Window) \div diff

\* Mutation: the comparison is off by one.
UdpOverBurstEarly(count) == count >= UdpBurst

UdpOverBurst(count) == count > UdpBurst

UdpPass(c) ==
  /\ passed' = Append(passed, Stamped(c))
  /\ Return(c)

UdpInit == InitWith([last |-> 0, count |-> 0])

UdpArrive(c, p) == BeginWithClock(c, p, "lookup")

UdpLookup(c) ==
  /\ At(c, "lookup")
  /\ ThenLookup(c, "age", "insert")

UdpInsert(c) ==
  /\ At(c, "insert")
  /\ Link([last |-> cpu[c].now, count |-> 1])
  /\ opened' = opened \cup {cpu[c].now}
  /\ UdpPass(c)
  /\ UNCHANGED <<clock, sent, evicted, others, received>>

\* time_diff is computed from last_update here, and kept.
UdpAge(c) ==
  LET last == mem[cpu[c].elem].last
  IN  /\ At(c, "age")
      /\ \/ /\ UdpFresh(cpu[c].now, last)
            /\ GotoWith(c, "count", Elapsed(cpu[c].now, last))
         \/ /\ ~ UdpFresh(cpu[c].now, last)
            /\ Goto(c, "reset")
      /\ UNCHANGED <<clock, entry, mem, sent, evicted, others, history>>

UdpCount(c) ==
  /\ At(c, "count")
  /\ mem' = [mem EXCEPT ![cpu[c].elem].count = @ + 1]
  /\ Goto(c, IF UdpLongEnough(cpu[c].arg) THEN "pps" ELSE "slide")
  /\ UNCHANGED <<clock, entry, sent, evicted, others, history>>

\* The counter is read once for the rate and once more for the burst.
UdpJudgeRate(c) ==
  /\ At(c, "pps")
  /\ Goto(c, IF UdpPps(mem[cpu[c].elem].count, cpu[c].arg)
                  > UdpThreshold(cpu[c].pkt)
             THEN "burst" ELSE "slide")
  /\ UNCHANGED <<clock, entry, mem, sent, evicted, others, history>>

UdpJudgeBurst(c) ==
  /\ At(c, "burst")
  /\ Goto(c, IF UdpOverBurst(mem[cpu[c].elem].count) THEN "drop" ELSE "slide")
  /\ UNCHANGED <<clock, entry, mem, sent, evicted, others, history>>

\* The attack is recorded (module AttackLog) and the datagram dropped;
\* last_update stays as it is.
UdpDrop(c) ==
  /\ At(c, "drop")
  /\ Return(c)
  /\ UNCHANGED <<clock, entry, mem, sent, evicted, others, history>>

\* Any other datagram moves last_update, and is dropped if oversized.
UdpSlide(c) ==
  /\ At(c, "slide")
  /\ mem' = [mem EXCEPT ![cpu[c].elem].last = cpu[c].now]
  /\ opened' = opened \cup {cpu[c].now}
  /\ \/ /\ cpu[c].pkt.oversize
        /\ Return(c)
        /\ UNCHANGED passed
     \/ /\ ~ cpu[c].pkt.oversize
        /\ UdpPass(c)
  /\ UNCHANGED <<clock, entry, sent, evicted, others, received>>

\* A second or more since last_update: the counter is reset first, then the
\* date, and the datagram passes whatever its size.
UdpReset(c) ==
  /\ At(c, "reset")
  /\ mem' = [mem EXCEPT ![cpu[c].elem].count = 1]
  /\ Goto(c, "reopen")
  /\ UNCHANGED <<clock, entry, sent, evicted, others, history>>

UdpReopen(c) ==
  /\ At(c, "reopen")
  /\ mem' = [mem EXCEPT ![cpu[c].elem].last = cpu[c].now]
  /\ opened' = opened \cup {cpu[c].now}
  /\ UdpPass(c)
  /\ UNCHANGED <<clock, entry, sent, evicted, others, received>>

UdpHandle(c) ==
  \/ \E p \in UdpPacket : UdpArrive(c, p)
  \/ UdpLookup(c)
  \/ UdpInsert(c)
  \/ UdpAge(c)
  \/ UdpCount(c)
  \/ UdpJudgeRate(c)
  \/ UdpJudgeBurst(c)
  \/ UdpDrop(c)
  \/ UdpSlide(c)
  \/ UdpReset(c)
  \/ UdpReopen(c)

\* Packets of other sources store in an element of this one.
UdpIntrude ==
  \E e \in Elem, t \in 0 .. clock, n \in Foreign :
    Intrude(e, [last |-> t, count |-> n], t, Gain(n, mem[e].count))

UdpOwn ==
  \/ \E c \in CPU : UdpHandle(c)
  \/ Evict
  \/ Tick
  \/ Finished

UdpNext == UdpOwn \/ UdpIntrude

UdpSpec == UdpInit /\ [][UdpNext]_vars

-----------------------------------------------------------------------------

\* Every variable keeps its type, a CPU past the failed lookup holds an
\* element, and a rate is only computed over a positive time: the division at
\* line 347 is never by zero.
UdpTypeOK ==
  /\ TypesOK(UdpPacket, [last : Time, count : Nat], UdpLabel)
  /\ \A c \in CPU : ~ At(c, "idle") => cpu[c].pkt \in UdpPacket
  /\ \A c \in CPU : cpu[c].at \notin {"idle", "lookup", "insert"}
                      => cpu[c].elem \in Elem
  /\ \A c \in CPU : At(c, "pps") => cpu[c].arg > 0

\* However the CPUs interleave, a datagram is dropped as a flood only when the
\* source has sent more than UDP_FLOOD_BURST datagrams, those included that
\* others have counted in an element it shared with them (lines 338, 361).
UdpDropNeedsBurst ==
  \A c \in CPU : At(c, "drop") => Len(received) + others.gain > UdpBurst

=============================================================================
