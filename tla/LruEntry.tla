------------------------------ MODULE LruEntry ------------------------------
(***************************************************************************)
(* What the per-source checks of the XDP program have in common: the entry *)
(* of one source address in a BPF_MAP_TYPE_LRU_HASH map, shared by all the *)
(* CPUs, and the clock that dates it.                                      *)
(*                                                                         *)
(* A lookup returns a pointer to the element linked for the key.  Updating *)
(* the key links a fresh element in place of the old one (BPF_ANY), and    *)
(* the kernel may evict the element whenever the map is full.  A CPU that  *)
(* still holds a pointer to an unlinked element goes on using it, and the  *)
(* element may be handed out again meanwhile: to the same source, or at    *)
(* once to any other, whose packets then store in it too, and go on to do  *)
(* so through stale pointers of their own when it has come back.           *)
(*                                                                         *)
(* Each CPU runs one packet at a time; cpu[c] is its program counter and   *)
(* its local variables.  Time is counted in ticks.                         *)
(***************************************************************************)
EXTENDS Integers, Sequences, FiniteSets

CONSTANTS
  CPU,       \* CPUs that receive packets of the source
  NoPacket,  \* what an idle CPU runs
  Elem,      \* elements the map may use for the source
  NoElem,    \* the NULL pointer
  U32,       \* modulus of the 32-bit arithmetic
  U64,       \* modulus of the 64-bit clock arithmetic
  Foreign,   \* counts that packets of other sources may store
  Window,    \* ticks in 1000000000 ns
  MaxClock,  \* bound: last tick of a run
  MaxPackets, \* bound: packets of a run
  MaxShared  \* bound: stores by packets of other sources in a run

ASSUME LruEntryAssumption ==
  /\ IsFiniteSet(CPU)
  /\ NoElem \notin Elem
  /\ MaxClock \in Nat
  /\ MaxPackets \in Nat
  /\ MaxShared \in Nat
  /\ Foreign \subseteq Nat
  /\ U32 \in Nat \ {0}
  /\ U64 \in Nat
  /\ U64 > MaxClock + Window
  /\ Window \in Nat \ {0}

VARIABLES
  clock,    \* bpf_ktime_get_ns(), in ticks
  entry,    \* element linked for the source, or NoElem
  mem,      \* contents of the elements
  cpu,      \* program counter and local variables of each CPU
  sent,     \* packets received so far
  evicted,  \* history: the kernel has evicted the entry
  others,   \* history: how often packets of other sources have stored in an
            \* element in use, and what they have added to its counter
  received, \* history: packets received, dated by the CPU that runs them
  passed,   \* history: packets the check has let through
  opened    \* history: dates that packets let through, of this source or of
            \* another, stored in last_update

history == <<received, passed, opened>>
vars    == <<clock, entry, mem, cpu, sent, evicted, others, history>>

Time == 0 .. MaxClock

\* A CPU that runs no packet.  The fields are the label of the next statement,
\* the packet, the pointer the lookup returned, the clock reading and the
\* result the check has computed so far.
Idle == [at |-> "idle", pkt |-> NoPacket, elem |-> NoElem, now |-> 0,
         arg |-> 0]

At(c, label)   == cpu[c].at = label
Goto(c, label) == cpu' = [cpu EXCEPT ![c].at = label]
Return(c)      == cpu' = [cpu EXCEPT ![c] = Idle]

\* The same, with a result kept for the statements that follow.
GotoWith(c, label, result) ==
  cpu' = [cpu EXCEPT ![c].at = label, ![c].arg = result]

\* The packet that CPU c runs, for the histories.
Stamped(c) == [t |-> cpu[c].now, pkt |-> cpu[c].pkt]

\* The unsigned difference of two readings of the clock.
Elapsed(now, last) == (now - last) % U64

InitWith(counters) ==
  /\ clock = 0
  /\ entry = NoElem
  /\ mem = [e \in Elem |-> counters]
  /\ cpu = [c \in CPU |-> Idle]
  /\ sent = 0
  /\ evicted = FALSE
  /\ others = [times |-> 0, gain |-> 0]
  /\ received = <<>>
  /\ passed = <<>>
  /\ opened = {}

\* A packet p arrives at CPU c, and the check begins by looking the source up.
BeginWithLookup(c, p, label) ==
  /\ At(c, "idle")
  /\ sent < MaxPackets
  /\ sent' = sent + 1
  /\ cpu' = [cpu EXCEPT ![c] =
               [at |-> label, pkt |-> p, elem |-> entry, now |-> 0,
                arg |-> 0]]
  /\ UNCHANGED <<clock, entry, mem, evicted, others, history>>

\* A packet p arrives at CPU c, and the check begins by reading the clock.
BeginWithClock(c, p, label) ==
  /\ At(c, "idle")
  /\ sent < MaxPackets
  /\ sent' = sent + 1
  /\ cpu' = [cpu EXCEPT ![c] =
               [at |-> label, pkt |-> p, elem |-> NoElem, now |-> clock,
                arg |-> 0]]
  /\ received' = Append(received, [t |-> clock, pkt |-> p])
  /\ UNCHANGED <<clock, entry, mem, evicted, others, passed, opened>>

\* The other of the two, as the second step.
ThenClock(c, label) ==
  /\ cpu' = [cpu EXCEPT ![c].now = clock, ![c].at = label]
  /\ received' = Append(received, [t |-> clock, pkt |-> cpu[c].pkt])
  /\ UNCHANGED <<clock, entry, mem, sent, evicted, others, passed, opened>>

ThenLookup(c, found, missing) ==
  /\ cpu' = [cpu EXCEPT ![c].elem = entry,
                        ![c].at = IF entry = NoElem THEN missing ELSE found]
  /\ UNCHANGED <<clock, entry, mem, sent, evicted, others, history>>

\* bpf_map_update_elem(map, &src_ip, &new_info, BPF_ANY)
Link(counters) ==
  \E e \in Elem \ {entry} :
    /\ entry' = e
    /\ mem' = [mem EXCEPT ![e] = counters]

\* The kernel recycles the entry for another source.
Evict ==
  /\ entry # NoElem
  /\ entry' = NoElem
  /\ evicted' = TRUE
  /\ UNCHANGED <<clock, mem, cpu, sent, others, history>>

\* The source or a CPU that runs a packet of it depends on what e holds.
InUse(e) == e = entry \/ \E c \in CPU : cpu[c].elem = e

\* What a store adds to a counter.
Gain(new, old) == IF new > old THEN new - old ELSE 0

\* The packets of another source that e was, or is, handed out to have left
\* the given contents in it, with a date, and have added gain to its counter.
\* An element that is not in use is overwritten before it is.
Intrude(e, counters, date, gain) ==
  /\ InUse(e)
  /\ others.times < MaxShared
  /\ others' = [times |-> others.times + 1, gain |-> others.gain + gain]
  /\ mem' = [mem EXCEPT ![e] = counters]
  /\ opened' = opened \cup {date}
  /\ UNCHANGED <<clock, entry, cpu, sent, evicted, received, passed>>

\* No other source has interfered.
Unshared == others.times = 0

Tick ==
  /\ clock < MaxClock
  /\ clock' = clock + 1
  /\ UNCHANGED <<entry, mem, cpu, sent, evicted, others, history>>

\* The bound on packets is reached and every packet has been answered.
Finished ==
  /\ sent = MaxPackets
  /\ \A c \in CPU : At(c, "idle")
  /\ UNCHANGED vars

\* The packets of a history whose dates fall in the length ticks that end
\* at t.
Within(log, t, length) ==
  {i \in DOMAIN log : log[i].t \in (t - length + 1) .. t}

-----------------------------------------------------------------------------
(* Types of the variables, when the source sends packets of Packet, its      *)
(* elements hold values of Counters and the labels are those of Label.       *)

Dated(Packet) == [t : Time, pkt : Packet]

CpuStates(Packet, Label) ==
  [at : Label, pkt : Packet \cup {NoPacket}, elem : Elem \cup {NoElem},
   now : Time, arg : Nat]

TypesOK(Packet, Counters, Label) ==
  /\ clock \in Time
  /\ entry \in Elem \cup {NoElem}
  /\ mem \in [Elem -> Counters]
  /\ cpu \in [CPU -> CpuStates(Packet, Label)]
  /\ sent \in 0 .. MaxPackets
  /\ evicted \in BOOLEAN
  /\ others \in [times : 0 .. MaxShared, gain : Nat]
  /\ received \in Seq(Dated(Packet))
  /\ passed \in Seq(Dated(Packet))
  /\ opened \subseteq Time

=============================================================================
