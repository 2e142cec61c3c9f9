----------------------------- MODULE FragTrack -----------------------------
(***************************************************************************)
(* handle_fragment of the XDP program (ebpf/xdp_prog.c:456-500), for the   *)
(* fragments of one source, run by several CPUs.  A fragment is            *)
(* "malformed" when its offset is 1, or when more fragments follow and it  *)
(* carries less than 16 bytes.  The code reads the clock before it looks   *)
(* the source up.                                                          *)
(***************************************************************************)
EXTENDS LruEntry

CONSTANTS
  FragPacket,  \* kinds of fragments the source sends
  FragTimeout, \* FRAG_TIMEOUT, in ticks
  MaxFrags     \* cfg.max_frags

ASSUME FragTrackAssumption ==
  /\ FragPacket \subseteq {"sound", "malformed"}
  /\ NoPacket \notin FragPacket
  /\ FragTimeout \in Nat
  /\ MaxFrags \in Nat
  /\ U64 > MaxClock + FragTimeout + 1

FragLabel == {"idle", "lookup", "insert", "age", "reset", "count", "date",
              "judge", "drop", "shape"}

FragExpired(now, last) == Elapsed(now, last) > FragTimeout

FragTooMany(count) == count > MaxFrags

FragInit == InitWith([last |-> 0, count |-> 0])

FragArrive(c, p) == BeginWithClock(c, p, "lookup")

FragLookup(c) ==
  /\ At(c, "lookup")
  /\ ThenLookup(c, "age", "insert")

\* The first fragment of a source is counted and not judged.
FragInsert(c) ==
  /\ At(c, "insert")
  /\ Link([last |-> cpu[c].now, count |-> 1])
  /\ opened' = opened \cup {cpu[c].now}
  /\ Goto(c, "shape")
  /\ UNCHANGED <<clock, sent, evicted, others, received, passed>>

FragAge(c) ==
  /\ At(c, "age")
  /\ Goto(c, IF FragExpired(cpu[c].now, mem[cpu[c].elem].last) THEN "reset"
             ELSE "count")
  /\ UNCHANGED <<clock, entry, mem, sent, evicted, others, history>>

FragReset(c) ==
  /\ At(c, "reset")
  /\ mem' = [mem EXCEPT ![cpu[c].elem].count = 1]
  /\ Goto(c, "date")
  /\ UNCHANGED <<clock, entry, sent, evicted, others, history>>

FragCount(c) ==
  /\ At(c, "count")
  /\ mem' = [mem EXCEPT ![cpu[c].elem].count = @ + 1]
  /\ Goto(c, "date")
  /\ UNCHANGED <<clock, entry, sent, evicted, others, history>>

\* Every fragment moves last_update, the dropped ones too.
FragDate(c) ==
  /\ At(c, "date")
  /\ mem' = [mem EXCEPT ![cpu[c].elem].last = cpu[c].now]
  /\ opened' = opened \cup {cpu[c].now}
  /\ Goto(c, "judge")
  /\ UNCHANGED <<clock, entry, sent, evicted, others, received, passed>>

FragJudge(c) ==
  /\ At(c, "judge")
  /\ Goto(c, IF FragTooMany(mem[cpu[c].elem].count) THEN "drop" ELSE "shape")
  /\ UNCHANGED <<clock, entry, mem, sent, evicted, others, history>>

\* return XDP_DROP: too many fragments
FragDrop(c) ==
  /\ At(c, "drop")
  /\ Return(c)
  /\ UNCHANGED <<clock, entry, mem, sent, evicted, others, history>>

\* Malformed fragments are dropped, whatever the count.
FragJudgeShape(c) ==
  /\ At(c, "shape")
  /\ passed' = IF cpu[c].pkt = "sound" THEN Append(passed, Stamped(c))
               ELSE passed
  /\ Return(c)
  /\ UNCHANGED <<clock, entry, mem, sent, evicted, others, received, opened>>

FragHandle(c) ==
  \/ \E p \in FragPacket : FragArrive(c, p)
  \/ FragLookup(c)
  \/ FragInsert(c)
  \/ FragAge(c)
  \/ FragReset(c)
  \/ FragCount(c)
  \/ FragDate(c)
  \/ FragJudge(c)
  \/ FragDrop(c)
  \/ FragJudgeShape(c)

\* Packets of other sources store in an element of this one.
FragIntrude ==
  \E e \in Elem, t \in 0 .. clock, n \in Foreign :
    Intrude(e, [last |-> t, count |-> n], t, Gain(n, mem[e].count))

FragOwn ==
  \/ \E c \in CPU : FragHandle(c)
  \/ Evict
  \/ Tick
  \/ Finished

FragNext == FragOwn \/ FragIntrude

FragSpec == FragInit /\ [][FragNext]_vars

-----------------------------------------------------------------------------

\* Every variable keeps its type, and a CPU past the failed lookup holds an
\* element until it has judged the count.
FragTypeOK ==
  /\ TypesOK(FragPacket, [last : Time, count : Nat], FragLabel)
  /\ \A c \in CPU : ~ At(c, "idle") => cpu[c].pkt \in FragPacket
  /\ \A c \in CPU : cpu[c].at \notin {"idle", "lookup", "insert", "shape"}
                      => cpu[c].elem \in Elem

\* The fragments of the run the last one received belongs to: those after the
\* last silence longer than the timeout.
FragRun == {i \in DOMAIN received :
              \A j \in i .. Len(received) - 1 :
                received[j + 1].t - received[j].t <= FragTimeout}

\* With one CPU the count is exactly the length of the run: the nth fragment
\* of a run is dropped for the count if and only if n exceeds both max_frags
\* and one, so a source over the limit stays blocked until it has been silent
\* for the timeout (lines 468-485).
FragDropExact ==
  ~ evicted /\ Unshared => \A c \in CPU :
    /\ At(c, "drop") => Cardinality(FragRun) > MaxFrags
    /\ At(c, "shape") => \/ Cardinality(FragRun) <= MaxFrags
                         \/ Cardinality(FragRun) = 1

\* However the CPUs interleave, a fragment is dropped for the count only when
\* the source has sent more than max_frags fragments, those included that other
\* sources have counted in an element it shared with them (lines 477-484).
FragDropNeedsMany ==
  \A c \in CPU : At(c, "drop") => Len(received) + others.gain > MaxFrags

=============================================================================
