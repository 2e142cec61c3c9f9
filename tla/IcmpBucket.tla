----------------------------- MODULE IcmpBucket -----------------------------
(***************************************************************************)
(* The token bucket that early_filter of the XDP program keeps for the     *)
(* ICMP packets of one source (ebpf/xdp_prog.c:613-646), run by several    *)
(* CPUs.  The packets have passed the address and TTL tests before it.     *)
(*                                                                         *)
(* A bucket is refilled when a packet is looked at, and both its fields    *)
(* are plain loads and stores: the steps of two CPUs interleave.           *)
(***************************************************************************)
EXTENDS LruEntry

CONSTANT IcmpFloodRate \* cfg.icmp_flood_rate

\* The bucket makes no difference between packets.
IcmpPacket == {"icmp"}

ASSUME IcmpBucketAssumption ==
  /\ NoPacket \notin IcmpPacket
  /\ IcmpFloodRate \in 0 .. U32 - 1

IcmpLabel == {"idle", "stamp", "insert", "elapsed", "tokens", "store", "date",
              "drop"}

IcmpOpening(now) == [last |-> now, tokens |-> IcmpFloodRate]

IcmpClamped(tokens) == IF tokens > IcmpFloodRate THEN IcmpFloodRate ELSE tokens

\* The tokens earned in a time: elapsed * rate / 1000000000 in 64 bits.
IcmpEarned(elapsed) == ((elapsed * IcmpFloodRate) % U64) \div Window

IcmpRefilled(tokens, elapsed) ==
  IcmpClamped((tokens + IcmpEarned(elapsed)) % U32)

\* The time neither overflows the product nor, with a full bucket, the sum.
IcmpFits(elapsed) ==
  /\ elapsed * IcmpFloodRate < U64
  /\ IcmpFloodRate + (elapsed * IcmpFloodRate) \div Window < U32

\* No refill in a run takes tokens away.  A date that another CPU has stored
\* meanwhile may be the later one, and the elapsed time wraps.  It then earns a
\* full bucket as a rule: 2^64 ns are 1266874889 tokens in the 32 bits of the
\* counter, less what the lateness would earn.  At the rate of 100 and with the
\* widths of the code this holds of runs of up to 146 days.
IcmpRefillsAdd ==
  \A tokens \in 0 .. IcmpFloodRate, t \in 0 .. MaxClock :
    /\ IcmpRefilled(tokens, t) >= tokens
    /\ t > 0 => IcmpRefilled(tokens, U64 - t) >= tokens

IcmpPass(c) ==
  /\ passed' = Append(passed, Stamped(c))
  /\ Return(c)

IcmpInit == InitWith([last |-> 0, tokens |-> 0])

IcmpArrive(c, p) == BeginWithLookup(c, p, "stamp")

IcmpStamp(c) ==
  /\ At(c, "stamp")
  /\ ThenClock(c, IF cpu[c].elem = NoElem THEN "insert" ELSE "elapsed")

\* The packet that creates the bucket passes without taking a token.
IcmpInsert(c) ==
  /\ At(c, "insert")
  /\ Link(IcmpOpening(cpu[c].now))
  /\ opened' = opened \cup {cpu[c].now}
  /\ IcmpPass(c)
  /\ UNCHANGED <<clock, sent, evicted, others, received>>

IcmpReadDate(c) ==
  /\ At(c, "elapsed")
  /\ GotoWith(c, "tokens", Elapsed(cpu[c].now, mem[cpu[c].elem].last))
  /\ UNCHANGED <<clock, entry, mem, sent, evicted, others, history>>

IcmpRefill(c) ==
  LET tokens == IcmpRefilled(mem[cpu[c].elem].tokens, cpu[c].arg)
  IN  /\ At(c, "tokens")
      /\ GotoWith(c, IF tokens >= 1 THEN "store" ELSE "drop", tokens)
      /\ UNCHANGED <<clock, entry, mem, sent, evicted, others, history>>

\* Mutation: the counter is stored before the token is taken.
IcmpTakeNothing(c) ==
  /\ At(c, "store")
  /\ mem' = [mem EXCEPT ![cpu[c].elem].tokens = cpu[c].arg]
  /\ Goto(c, "date")
  /\ UNCHANGED <<clock, entry, sent, evicted, others, history>>

IcmpTake(c) ==
  /\ At(c, "store")
  /\ mem' = [mem EXCEPT ![cpu[c].elem].tokens = cpu[c].arg - 1]
  /\ Goto(c, "date")
  /\ UNCHANGED <<clock, entry, sent, evicted, others, history>>

IcmpDate(c) ==
  /\ At(c, "date")
  /\ mem' = [mem EXCEPT ![cpu[c].elem].last = cpu[c].now]
  /\ opened' = opened \cup {cpu[c].now}
  /\ IcmpPass(c)
  /\ UNCHANGED <<clock, entry, sent, evicted, others, received>>

\* return XDP_DROP, with the bucket as it was
IcmpDrop(c) ==
  /\ At(c, "drop")
  /\ Return(c)
  /\ UNCHANGED <<clock, entry, mem, sent, evicted, others, history>>

IcmpHandle(c) ==
  \/ \E p \in IcmpPacket : IcmpArrive(c, p)
  \/ IcmpStamp(c)
  \/ IcmpInsert(c)
  \/ IcmpReadDate(c)
  \/ IcmpRefill(c)
  \/ IcmpTake(c)
  \/ IcmpDate(c)
  \/ IcmpDrop(c)

\* Packets of other sources store in a bucket of this one: what they take from
\* it is their gain.
IcmpIntrude ==
  \E e \in Elem, t \in 0 .. clock, n \in 0 .. IcmpFloodRate :
    Intrude(e, [last |-> t, tokens |-> n], t, Gain(mem[e].tokens, n))

IcmpOwn ==
  \/ \E c \in CPU : IcmpHandle(c)
  \/ Evict
  \/ Tick
  \/ Finished

IcmpNext == IcmpOwn \/ IcmpIntrude

IcmpSpec == IcmpInit /\ [][IcmpNext]_vars

-----------------------------------------------------------------------------

\* Every variable keeps its type.  In particular no bucket ever holds more
\* than the rate, even when two CPUs store dates out of order and the elapsed
\* time wraps around (lines 630-639).
IcmpTypeOK ==
  /\ TypesOK(IcmpPacket, [last : Time, tokens : 0 .. IcmpFloodRate], IcmpLabel)
  /\ \A c \in CPU : ~ At(c, "idle") => cpu[c].pkt \in IcmpPacket
  /\ \A c \in CPU : cpu[c].at \notin {"idle", "stamp", "insert"}
                      => cpu[c].elem \in Elem
  /\ \A c \in CPU : At(c, "store") => cpu[c].arg \in 1 .. IcmpFloodRate

\* However the CPUs interleave, no packet is dropped before the source has
\* spent a whole bucket: the one that created it, as many as the rate, and
\* the dropped one itself have arrived, but for the tokens that other sources
\* have taken from a bucket it shared with them (lines 623, 637-644).
IcmpDropNeedsBurst ==
  IcmpRefillsAdd => \A c \in CPU : At(c, "drop") =>
    Len(received) + others.gain >= IcmpFloodRate + 2

\* The bucket limits: while the source has it for itself, the packets let
\* through between any two dates are at most those of a full bucket, those
\* earned meanwhile, and the first one, which is free (lines 616-644).
IcmpConformance ==
  ~ evicted /\ Unshared => \A i, j \in DOMAIN passed : i <= j =>
    j - i + 1 <= 1 + IcmpFloodRate
                   + ((passed[j].t - passed[i].t) * IcmpFloodRate) \div Window

\* The bucket refills while packets are being dropped: with one CPU a source
\* that keeps sending is never without a token for longer than a token takes
\* to be earned, because a drop does not move last_update (lines 637-645).  It
\* can be when it comes back after so long a silence that what it has earned
\* does not fit into the counter (line 631).
IcmpNoStarvation ==
  Unshared => \A c \in CPU : At(c, "drop") /\ IcmpFloodRate >= 1 =>
    /\ passed # <<>>
    /\ LET silence == cpu[c].now - passed[Len(passed)].t
       IN  silence * IcmpFloodRate < Window \/ ~ IcmpFits(silence)

=============================================================================
