------------------------- MODULE SourceChecksProofs -------------------------
(***************************************************************************)
(* What is proved of the SYN check and of the record of attacks, carried   *)
(* over to the module that the runs check: a behaviour of Spec about a     *)
(* check is one of that check.  Then the proofs for the other checks and   *)
(* for the flow table, which are entries of the same kind: elements that   *)
(* packets of other sources store in too (Intrude).  At the end comes what *)
(* holds of each of them when one CPU handles all packets of a source      *)
(* (OneCpu) and no other source interferes (Unshared), where what the      *)
(* check has counted can be told from what has been received and let       *)
(* through.                                                                *)
(***************************************************************************)
EXTENDS SourceChecks, SynFloodProofs, AttackLogProofs

LEMMA CheckKept == [Next]_allVars => UNCHANGED check
  BY DEF Next, allVars

LEMMA SynSteps ==
  check = "syn" /\ [Next]_allVars => [SynNext]_vars
  BY DEF Next, allVars

\* No SYN is dropped unless a segment, of the source or of another that its
\* element was handed out to, was let through less than a second before,
\* whatever the CPUs interleave, the map evicts and other sources store
\* (xdp_prog.c:563-569, 587).
THEOREM SynNotShutOutAlways == Spec => []SynNotShutOut
  <1> DEFINE Inv == check = "syn" => Windows
  <1>1. Init => Inv
    BY WindowsInit DEF Init
  <1>2. Inv /\ [Next]_allVars => Inv'
    BY WindowsStep, CheckKept, SynSteps
  <1>3. Inv => SynNotShutOut
    BY WindowsSuffice DEF SynNotShutOut
  <1> QED
    BY <1>1, <1>2, <1>3, PTL DEF Spec

\* No SYN is dropped before more than syn_flood_rate SYNs have been counted, of
\* the source or of others that its element was handed out to: no lost or
\* misplaced reset overstates a counter (xdp_prog.c:567-583).
THEOREM SynDropsNeedRateAlways == Spec => []SynDropsNeedRate
  <1> DEFINE Inv == check = "syn" => Counted
  <1>1. Init => Inv
    BY CountedInit DEF Init
  <1>2. Inv /\ [Next]_allVars => Inv'
    BY CountedStep, CheckKept, SynSteps
  <1>3. Inv => SynDropsNeedRate
    BY CountedSuffices DEF SynDropsNeedRate
  <1> QED
    BY <1>1, <1>2, <1>3, PTL DEF Spec

-----------------------------------------------------------------------------
(* The record of attacks *)

LEMMA LogSteps == [Next]_allVars => [LogNext]_logVars
  BY DEF Next, allVars

\* The used elements of the array come first, whatever the CPUs overwrite of
\* each other, and the count does not exceed them (xdp_prog.c:217-246).
THEOREM NoHolesAlways == Spec => []NoHoles
  <1>1. Init => Filled
    BY FilledInit DEF Init
  <1>2. Filled /\ [Next]_allVars => Filled'
    BY FilledStep, LogSteps
  <1>3. Filled => NoHoles
    BY DEF Filled
  <1> QED
    BY <1>1, <1>2, <1>3, PTL DEF Spec

\* A walk that ends has found at least as many attacks as any before, although
\* the count may go back (attack_info.c:63-83).
THEOREM ReportNeverShrinksEver == Spec => ReportNeverShrinks
  <1>1. Init => Reported
    BY ReportedInit DEF Init
  <1>2. Reported /\ [Next]_allVars => Reported'
    BY ReportedStep, LogSteps
  <1>3. Reported /\ [Next]_allVars
          => [key # -1 /\ key' = -1 => Len(report') >= longest]_logVars
    BY ReportGrows, LogSteps
  <1> QED
    BY <1>1, <1>2, <1>3, PTL DEF Spec, ReportNeverShrinks

\* A report mixes no two of its attacks and names none that was not detected,
\* while elements change under the walk and under the copy of one; and as long
\* as no two updates overlap only its last record can be torn, after the array
\* has filled up (attack_info.c:62-83).
THEOREM ReportIsGenuineAlways == Spec => []ReportIsGenuine
  <1> DEFINE Inv == Genuine /\ Filled /\ Serial
  <1>1. Init => Inv
    BY GenuineInit, FilledInit, SerialInit DEF Init
  <1>2. Inv /\ [Next]_allVars => Inv'
    BY GenuineStep, FilledStep, SerialStep, LogSteps
  <1>3. Inv => ReportIsGenuine
    BY SerialSuffices
  <1> QED
    BY <1>1, <1>2, <1>3, PTL DEF Spec

\* Attacks are lost to a full array and to overlapping updates only, and no
\* more than one to each update that began while another was in progress
\* (xdp_prog.c:217-246).
THEOREM OnlyOverlapsLoseAlways == Spec => []OnlyOverlapsLose
  <1> DEFINE Inv == Filled /\ Lossless
  <1>1. Init => Inv
    BY FilledInit, LogTypesInit, LosslessInit DEF Init
  <1>2. Inv /\ [Next]_allVars => Inv'
    BY FilledStep, LosslessStep, LogSteps DEF Filled
  <1>3. Inv => OnlyOverlapsLose
    BY LosslessSuffices
  <1> QED
    BY <1>1, <1>2, <1>3, PTL DEF Spec

-----------------------------------------------------------------------------
(* Types, whatever the check: packets of P, elements that hold values of C,  *)
(* labels of L, and those of E where no element is held.                     *)

Typed(P, C, L, E) ==
  /\ TypesOK(P, C, L)
  /\ \A c \in CPU : ~ At(c, "idle") => cpu[c].pkt \in P
  /\ \A c \in CPU : cpu[c].at \notin E => cpu[c].elem \in Elem

\* Sizes and labels of an instance.
Fits(P, L, E) == NoPacket \notin P /\ E \subseteq L /\ "idle" \in E

LEMMA Bounds ==
  /\ 0 \in Time /\ Time \subseteq Nat
  /\ 0 \in 0 .. MaxPackets
  /\ NoElem \notin Elem
  BY LruEntryAssumption DEF Time

LEMMA Appended ==
  ASSUME NEW S, NEW log \in Seq(S), NEW x \in S
  PROVE  Append(log, x) \in Seq(S)
  OBVIOUS

\* What a CPU goes on with.
LEMMA CpuFields ==
  ASSUME NEW P, NEW C, NEW L, NEW E, Typed(P, C, L, E), NEW c \in CPU
  PROVE  /\ cpu[c].now \in Time /\ cpu[c].arg \in Nat
         /\ cpu[c].elem \in Elem \cup {NoElem} /\ cpu[c].pkt \in P \cup {NoPacket}
         /\ ~ At(c, "idle") => Stamped(c) \in Dated(P)
  BY DEF Typed, TypesOK, CpuStates, Stamped, Dated

\* Any step of CPU c, which goes on as s says.
LEMMA StepTyped ==
  ASSUME NEW P, NEW C, NEW L, NEW E, Fits(P, L, E), Typed(P, C, L, E),
         NEW c \in CPU, NEW s \in CpuStates(P, L),
         cpu' = [cpu EXCEPT ![c] = s],
         s.at # "idle" => s.pkt \in P, s.at \notin E => s.elem \in Elem,
         clock' \in Time, entry' \in Elem \cup {NoElem}, mem' \in [Elem -> C],
         sent' \in 0 .. MaxPackets, evicted' \in BOOLEAN,
         others' \in [times : 0 .. MaxShared, gain : Nat],
         received' \in Seq(Dated(P)), passed' \in Seq(Dated(P)),
         opened' \subseteq Time
  PROVE  Typed(P, C, L, E)'
  <1>1. cpu' \in [CPU -> CpuStates(P, L)]
    BY DEF Typed, TypesOK
  <1>2. \A d \in CPU : cpu'[d] = IF d = c THEN s ELSE cpu[d]
    BY DEF Typed, TypesOK
  <1>3. TypesOK(P, C, L)'
    BY <1>1 DEF TypesOK
  <1> QED
    BY <1>2, <1>3 DEF Typed, At

\* A packet arrives.
LEMMA ArriveTyped ==
  ASSUME NEW P, NEW C, NEW L, NEW E, Fits(P, L, E), Typed(P, C, L, E),
         NEW c \in CPU, NEW p \in P, NEW label \in E,
         BeginWithLookup(c, p, label) \/ BeginWithClock(c, p, label)
  PROVE  Typed(P, C, L, E)'
  <1> USE DEF BeginWithLookup, BeginWithClock, history
  <1>1. PICK e \in Elem \cup {NoElem}, t \in Time :
          cpu' = [cpu EXCEPT ![c] = [at |-> label, pkt |-> p, elem |-> e,
                                     now |-> t, arg |-> 0]]
    BY Bounds DEF Typed, TypesOK
  <1>2. [at |-> label, pkt |-> p, elem |-> e, now |-> t, arg |-> 0]
          \in CpuStates(P, L)
    BY DEF CpuStates, Fits
  <1>3. sent' \in 0 .. MaxPackets
    BY LruEntryAssumption DEF Typed, TypesOK
  <1>4. received' \in Seq(Dated(P))
    <2>1. [t |-> clock, pkt |-> p] \in Dated(P) /\ received \in Seq(Dated(P))
      BY DEF Dated, Typed, TypesOK
    <2>2. received' \in {received, Append(received, [t |-> clock, pkt |-> p])}
      OBVIOUS
    <2> QED
      BY <2>1, <2>2, Appended
  <1>5. UNCHANGED <<clock, entry, mem, evicted, others, passed, opened>>
    OBVIOUS
  <1> DEFINE s == [at |-> label, pkt |-> p, elem |-> e, now |-> t, arg |-> 0]
  <1>6. s.pkt \in P /\ s.at \in E
    OBVIOUS
  <1> HIDE DEF s
  <1>7. cpu' = [cpu EXCEPT ![c] = s] /\ s \in CpuStates(P, L)
    BY <1>1, <1>2 DEF s
  <1> QED
    BY <1>3, <1>4, <1>5, <1>6, <1>7, StepTyped DEF Typed, TypesOK

\* The clock is read, or the source looked up, as the second step.
LEMMA SecondTyped ==
  ASSUME NEW P, NEW C, NEW L, NEW E, Fits(P, L, E), Typed(P, C, L, E),
         NEW c \in CPU, ~ At(c, "idle"), NEW held \in L, NEW missing \in E,
         \/ ThenClock(c, IF cpu[c].elem = NoElem THEN missing ELSE held)
         \/ ThenLookup(c, held, missing)
  PROVE  Typed(P, C, L, E)'
  <1> USE DEF ThenClock, ThenLookup, history
  <1>1. CASE ThenClock(c, IF cpu[c].elem = NoElem THEN missing ELSE held)
    <2> DEFINE s == [cpu[c] EXCEPT !.now = clock,
                       !.at = IF cpu[c].elem = NoElem THEN missing ELSE held]
    <2>1. cpu' = [cpu EXCEPT ![c] = s]
      BY <1>1 DEF Typed, TypesOK
    <2>2. s \in CpuStates(P, L) /\ s.pkt = cpu[c].pkt /\ s.elem = cpu[c].elem
      BY DEF Typed, TypesOK, CpuStates, Fits
    <2>3. s.pkt \in P /\ (s.at \notin E => s.elem \in Elem)
      BY <2>2, CpuFields DEF Typed, TypesOK, CpuStates
    <2>4. received' \in Seq(Dated(P))
      <3>1. [t |-> clock, pkt |-> cpu[c].pkt] \in Dated(P)
        BY DEF Dated, Typed, TypesOK
      <3> QED
        BY <1>1, <3>1 DEF Typed, TypesOK
    <2>5. UNCHANGED <<clock, entry, mem, sent, evicted, others, passed, opened>>
      BY <1>1
    <2> HIDE DEF s
    <2> QED
      BY <2>1, <2>2, <2>3, <2>4, <2>5, StepTyped DEF Typed, TypesOK
  <1>2. CASE ThenLookup(c, held, missing)
    <2> DEFINE s == [cpu[c] EXCEPT !.elem = entry,
                       !.at = IF entry = NoElem THEN missing ELSE held]
    <2>1. cpu' = [cpu EXCEPT ![c] = s]
      BY <1>2 DEF Typed, TypesOK
    <2>2. s \in CpuStates(P, L) /\ s.pkt = cpu[c].pkt /\ s.elem = entry
      <3>1. /\ cpu[c] \in CpuStates(P, L) /\ entry \in Elem \cup {NoElem}
            /\ held \in L /\ missing \in L
        BY DEF Typed, TypesOK, Fits
      <3> QED
        BY <3>1 DEF CpuStates
    <2>3. s.pkt \in P /\ (s.at \notin E => s.elem \in Elem)
      BY <2>2 DEF Typed, TypesOK, CpuStates
    <2>4. UNCHANGED <<clock, entry, mem, sent, evicted, others, received, passed,
                      opened>>
      BY <1>2
    <2> HIDE DEF s
    <2> QED
      BY <2>1, <2>2, <2>3, <2>4, StepTyped DEF Typed, TypesOK
  <1> QED
    BY <1>1, <1>2

\* CPU c goes on, perhaps with a result or a new reading of the clock, and
\* changes the map and the histories as checks do.
Effect(C, c) ==
  /\ UNCHANGED <<clock, sent, evicted, others, received>>
  /\ entry' \in Elem \cup {NoElem}
  /\ mem' \in [Elem -> C]
  /\ passed' \in {passed, Append(passed, Stamped(c))}
  /\ opened' \in {opened, opened \cup {cpu[c].now}}

LEMMA EffectTypes ==
  ASSUME NEW P, NEW C, NEW L, NEW E, Typed(P, C, L, E), NEW c \in CPU,
         ~ At(c, "idle"), Effect(C, c)
  PROVE  /\ clock' \in Time /\ entry' \in Elem \cup {NoElem}
         /\ mem' \in [Elem -> C]
         /\ sent' \in 0 .. MaxPackets /\ evicted' \in BOOLEAN
         /\ others' \in [times : 0 .. MaxShared, gain : Nat]
         /\ received' \in Seq(Dated(P)) /\ passed' \in Seq(Dated(P))
         /\ opened' \subseteq Time
  <1>1. Stamped(c) \in Dated(P) /\ cpu[c].now \in Time
    BY CpuFields
  <1>2. passed' \in Seq(Dated(P))
    <2>1. passed \in Seq(Dated(P))
      BY DEF Typed, TypesOK
    <2>2. passed' \in {passed, Append(passed, Stamped(c))}
      BY DEF Effect
    <2> QED
      BY <1>1, <2>1, <2>2, Appended
  <1>3. opened' \subseteq Time
    BY <1>1 DEF Effect, Typed, TypesOK
  <1> QED
    BY <1>2, <1>3 DEF Effect, Typed, TypesOK

LEMMA OnwardTyped ==
  ASSUME NEW P, NEW C, NEW L, NEW E, Fits(P, L, E), Typed(P, C, L, E),
         NEW c \in CPU, ~ At(c, "idle"), NEW label \in L,
         cpu[c].at \notin E \/ label \in E, Effect(C, c),
         \/ Goto(c, label)
         \/ \E n \in Nat : GotoWith(c, label, n)
         \/ cpu' = [cpu EXCEPT ![c].now = clock, ![c].at = label]
  PROVE  Typed(P, C, L, E)'
  <1>1. PICK t \in Time, n \in Nat :
          cpu' = [cpu EXCEPT ![c] = [cpu[c] EXCEPT !.at = label, !.arg = n, !.now = t]]
    <2>1. CASE Goto(c, label)
      <3>1. cpu' = [cpu EXCEPT ![c] = [cpu[c] EXCEPT !.at = label,
                                         !.arg = cpu[c].arg, !.now = cpu[c].now]]
        BY <2>1 DEF Goto, Typed, TypesOK, CpuStates
      <3> QED
        BY <3>1, CpuFields
    <2>2. ASSUME NEW n \in Nat, GotoWith(c, label, n)
          PROVE  \E t \in Time, m \in Nat :
                   cpu' = [cpu EXCEPT ![c] = [cpu[c] EXCEPT !.at = label, !.arg = m,
                                                !.now = t]]
      <3>1. cpu' = [cpu EXCEPT ![c] = [cpu[c] EXCEPT !.at = label,
                                         !.arg = n, !.now = cpu[c].now]]
        BY <2>2 DEF GotoWith, Typed, TypesOK, CpuStates
      <3> QED
        BY <3>1, CpuFields
    <2>3. CASE cpu' = [cpu EXCEPT ![c].now = clock, ![c].at = label]
      <3>1. cpu' = [cpu EXCEPT ![c] = [cpu[c] EXCEPT !.at = label,
                                         !.arg = cpu[c].arg, !.now = clock]]
        BY <2>3 DEF Typed, TypesOK, CpuStates
      <3> QED
        BY <3>1, CpuFields DEF Typed, TypesOK
    <2> QED
      BY <2>1, <2>2, <2>3
  <1> DEFINE s == [cpu[c] EXCEPT !.at = label, !.arg = n, !.now = t]
  <1>2. /\ s \in CpuStates(P, L) /\ s.pkt = cpu[c].pkt /\ s.elem = cpu[c].elem
        /\ s.at = label
    BY DEF Typed, TypesOK, CpuStates
  <1>3. s.pkt \in P /\ (s.at \notin E => s.elem \in Elem)
    BY <1>2 DEF Typed
  <1>4. cpu' = [cpu EXCEPT ![c] = s]
    BY <1>1
  <1> HIDE DEF s
  <1> QED
    BY <1>2, <1>3, <1>4, EffectTypes, StepTyped

LEMMA ReturnTyped ==
  ASSUME NEW P, NEW C, NEW L, NEW E, Fits(P, L, E), Typed(P, C, L, E),
         NEW c \in CPU, ~ At(c, "idle"), Effect(C, c), Return(c)
  PROVE  Typed(P, C, L, E)'
  <1>1. Idle \in CpuStates(P, L) /\ Idle.at = "idle" /\ Idle.at \in E
    BY Bounds DEF Idle, CpuStates, Fits
  <1> QED
    BY <1>1, EffectTypes, StepTyped DEF Return

\* What no CPU does.
LEMMA OutsideTyped ==
  ASSUME NEW P, NEW C, NEW L, NEW E, Typed(P, C, L, E),
         Evict \/ Tick \/ Finished \/ UNCHANGED vars
  PROVE  Typed(P, C, L, E)'
  <1> USE DEF Typed, TypesOK, At, vars, history
  <1>1. CASE Evict
    BY <1>1 DEF Evict
  <1>2. CASE Tick
    BY <1>2, LruEntryAssumption DEF Tick, Time
  <1>3. CASE Finished \/ UNCHANGED vars
    BY <1>3 DEF Finished
  <1> QED
    BY <1>1, <1>2, <1>3

\* What packets of other sources do.
LEMMA IntrudeTyped ==
  ASSUME NEW P, NEW C, NEW L, NEW E, Typed(P, C, L, E),
         NEW e \in Elem, NEW m \in C, NEW t \in Time, NEW gain \in Nat,
         Intrude(e, m, t, gain)
  PROVE  Typed(P, C, L, E)'
  <1>1. others' \in [times : 0 .. MaxShared, gain : Nat]
    <2>1. /\ others \in [times : 0 .. MaxShared, gain : Nat]
          /\ others.times < MaxShared
          /\ others' = [times |-> others.times + 1, gain |-> others.gain + gain]
      BY DEF Typed, TypesOK, Intrude
    <2> QED
      BY <2>1, LruEntryAssumption
  <1>2. mem' \in [Elem -> C] /\ opened' \subseteq Time
    BY DEF Typed, TypesOK, Intrude
  <1>3. UNCHANGED <<clock, entry, cpu, sent, evicted, received, passed>>
    BY DEF Intrude
  <1> QED
    BY <1>1, <1>2, <1>3 DEF Typed, TypesOK, At

\* A gain is a number, and bounds the new count.
LEMMA GainIs ==
  ASSUME NEW new \in Nat, NEW old \in Nat
  PROVE  Gain(new, old) \in Nat /\ new <= old + Gain(new, old)
  BY DEF Gain

LEMMA InitTyped ==
  ASSUME NEW P, NEW C, NEW L, NEW E, Fits(P, L, E), NEW m \in C, InitWith(m)
  PROVE  Typed(P, C, L, E)
  <1>1. Idle \in CpuStates(P, L) /\ Idle.at = "idle" /\ Idle.at \in E
    BY Bounds DEF Idle, CpuStates, Fits
  <1>2. cpu \in [CPU -> CpuStates(P, L)] /\ \A c \in CPU : cpu[c] = Idle
    BY <1>1 DEF InitWith
  <1>3. <<>> \in Seq(Dated(P)) /\ mem \in [Elem -> C]
    BY DEF InitWith
  <1>4. TypesOK(P, C, L)
    <2>1. others \in [times : 0 .. MaxShared, gain : Nat]
      BY LruEntryAssumption DEF InitWith
    <2> QED
      BY <1>2, <1>3, <2>1, Bounds DEF InitWith, TypesOK
  <1> QED
    BY <1>1, <1>2, <1>4 DEF Typed, At

-----------------------------------------------------------------------------
(* What several checks have in common: counters dated by last_update. *)

DatedCounts == [last : Time, count : Nat]

\* What an assignment to a field of mem[e] leaves well-typed.
LEMMA CountsUpdate ==
  ASSUME mem \in [Elem -> DatedCounts], NEW e \in Elem
  PROVE  /\ mem[e].last \in Time /\ mem[e].count \in Nat
         /\ [mem EXCEPT ![e].count = @ + 1] \in [Elem -> DatedCounts]
         /\ \A n \in Nat : [mem EXCEPT ![e].count = n] \in [Elem -> DatedCounts]
         /\ \A t \in Time : [mem EXCEPT ![e].last = t] \in [Elem -> DatedCounts]
  BY DEF DatedCounts

LEMMA LinkTyped ==
  ASSUME NEW C, mem \in [Elem -> C], NEW m \in C, Link(m)
  PROVE  /\ entry' \in Elem \cup {NoElem}
         /\ mem' \in [Elem -> C]
  BY DEF Link

\* What packets of other sources leave in an element of these checks.
LEMMA ForeignCounts ==
  ASSUME NEW e \in Elem, NEW t \in 0 .. clock, NEW n \in Foreign, clock \in Time,
         mem \in [Elem -> DatedCounts]
  PROVE  /\ [last |-> t, count |-> n] \in DatedCounts /\ t \in Time
         /\ mem[e].count \in Nat /\ n \in Nat
         /\ Gain(n, mem[e].count) \in Nat
  <1>1. mem[e].count \in Nat /\ n \in Nat /\ t \in Time
    BY LruEntryAssumption DEF DatedCounts, Time
  <1> QED
    BY <1>1, GainIs DEF DatedCounts

\* The same checks branch on nothing before the source has been looked up.
Early  == {"idle", "stamp", "insert"}
Before == {"idle", "lookup", "insert"}

-----------------------------------------------------------------------------
(* DNS *)

DnsTyped == Typed(DnsPacket, DatedCounts, DnsLabel, Early)

LEMMA DnsTypesAre == DnsTypeOK <=> DnsTyped
  BY DEF DnsTypeOK, DnsTyped, Typed, DatedCounts, Early

LEMMA DnsFits == Fits(DnsPacket, DnsLabel, Early)
  BY DnsAmpAssumption DEF Fits, DnsLabel, Early

LEMMA DnsTypesInit == DnsInit => DnsTyped
  <1>1. [last |-> 0, count |-> 0] \in DatedCounts
    BY Bounds DEF DatedCounts
  <1> QED
    BY <1>1, DnsFits, InitTyped DEF DnsInit, DnsTyped

LEMMA DnsTypesStep == DnsTyped /\ [DnsNext]_vars => DnsTyped'
  <1> SUFFICES ASSUME DnsTyped, [DnsNext]_vars PROVE DnsTyped'
    OBVIOUS
  <1> USE DnsFits DEF DnsTyped
  <1>1. mem \in [Elem -> DatedCounts] /\ entry \in Elem \cup {NoElem}
    BY DEF Typed, TypesOK
  <1>2. ASSUME NEW c \in CPU, NEW p \in DnsPacket, DnsArrive(c, p) PROVE DnsTyped'
    BY <1>2, ArriveTyped DEF DnsArrive, Early
  <1>3. ASSUME NEW c \in CPU, DnsStamp(c) PROVE DnsTyped'
    <2>1. ~ At(c, "idle") /\ "insert" \in Early /\ "age" \in DnsLabel
      BY <1>3 DEF DnsStamp, At, Early, DnsLabel
    <2> QED
      BY <1>3, <2>1, SecondTyped DEF DnsStamp
  <1>4. ASSUME NEW c \in CPU, DnsInsert(c) PROVE DnsTyped'
    <2>1. [last |-> cpu[c].now, count |-> 1] \in DatedCounts
      BY CpuFields DEF DatedCounts
    <2>2. Effect(DatedCounts, c) /\ Return(c) /\ ~ At(c, "idle")
      BY <1>1, <1>4, <2>1, LinkTyped DEF DnsInsert, DnsPass, Effect, At
    <2> QED
      BY <2>2, ReturnTyped
  <1>5. ASSUME NEW c \in CPU, cpu[c].at \notin Early, DnsHandle(c) PROVE DnsTyped'
    <2>1. cpu[c].elem \in Elem /\ cpu[c].now \in Time /\ ~ At(c, "idle")
      BY <1>5, CpuFields DEF Typed, Early, At
    <2>2. Effect(DatedCounts, c)
      <3> USE <1>1, <2>1, CountsUpdate DEF Effect, history
      <3>1. CASE DnsAge(c) \/ DnsJudge(c) \/ DnsJudgeSize(c) \/ DnsDrop(c)
        BY <3>1 DEF DnsAge, DnsJudge, DnsJudgeSize, DnsPass, DnsDrop
      <3>2. CASE DnsCount(c)
        BY <3>2 DEF DnsCount
      <3>3. CASE DnsReopen(c)
        BY <3>3 DEF DnsReopen
      <3>4. CASE DnsReset(c)
        BY <3>4 DEF DnsReset, DnsPass
      <3>5. ~ DnsStamp(c) /\ ~ DnsInsert(c) /\ \A p \in DnsPacket : ~ DnsArrive(c, p)
        BY <1>5 DEF DnsStamp, DnsInsert, DnsArrive, BeginWithLookup, At, Early
      <3> QED
        BY <1>5, <3>1, <3>2, <3>3, <3>4, <3>5 DEF DnsHandle
    <2>3. Return(c) \/ \E label \in DnsLabel : Goto(c, label)
      BY <1>5
         DEF DnsHandle, DnsArrive, BeginWithLookup, DnsStamp, DnsInsert, DnsAge,
             DnsCount, DnsJudge, DnsJudgeSize, DnsDrop, DnsReopen, DnsReset,
             DnsPass, At, Early, DnsLabel
    <2> QED
      BY <1>5, <2>1, <2>2, <2>3, ReturnTyped, OnwardTyped
  <1>6. CASE Evict \/ Tick \/ Finished \/ UNCHANGED vars
    BY <1>6, OutsideTyped
  <1>7. ASSUME NEW c \in CPU, cpu[c].at \in Early, DnsHandle(c)
        PROVE  DnsStamp(c) \/ DnsInsert(c) \/ \E p \in DnsPacket : DnsArrive(c, p)
    BY <1>7
       DEF DnsHandle, DnsAge, DnsCount, DnsJudge, DnsJudgeSize, DnsDrop,
           DnsReopen, DnsReset, At, Early
  <1>8. CASE DnsIntrude
    <2>1. PICK e \in Elem, t \in 0 .. clock, n \in Foreign :
            Intrude(e, [last |-> t, count |-> n], t, Gain(n, mem[e].count))
      BY <1>8 DEF DnsIntrude
    <2>2. clock \in Time
      BY DEF Typed, TypesOK
    <2> QED
      BY <1>1, <2>1, <2>2, ForeignCounts, IntrudeTyped
  <1> QED
    BY <1>2, <1>3, <1>4, <1>5, <1>6, <1>7, <1>8 DEF DnsNext, DnsOwn

-----------------------------------------------------------------------------
(* UDP *)

LEMMA ElapsedIsNat ==
  ASSUME NEW now \in Time, NEW last \in Time
  PROVE  Elapsed(now, last) \in Nat
  BY LruEntryAssumption DEF Elapsed, Time

UdpTyped == Typed(UdpPacket, DatedCounts, UdpLabel, Before)

LEMMA UdpFits == Fits(UdpPacket, UdpLabel, Before)
  BY UdpFloodAssumption DEF Fits, UdpLabel, Before

LEMMA UdpTypesInit == UdpInit => UdpTyped
  <1>1. [last |-> 0, count |-> 0] \in DatedCounts
    BY Bounds DEF DatedCounts
  <1> QED
    BY <1>1, UdpFits, InitTyped DEF UdpInit, UdpTyped

LEMMA UdpTypesStep == UdpTyped /\ [UdpNext]_vars => UdpTyped'
  <1> SUFFICES ASSUME UdpTyped, [UdpNext]_vars PROVE UdpTyped'
    OBVIOUS
  <1> USE UdpFits DEF UdpTyped
  <1>1. mem \in [Elem -> DatedCounts] /\ entry \in Elem \cup {NoElem}
    BY DEF Typed, TypesOK
  <1>2. ASSUME NEW c \in CPU, NEW p \in UdpPacket, UdpArrive(c, p) PROVE UdpTyped'
    BY <1>2, ArriveTyped DEF UdpArrive, Before
  <1>3. ASSUME NEW c \in CPU, UdpLookup(c) PROVE UdpTyped'
    <2>1. ~ At(c, "idle") /\ "insert" \in Before /\ "age" \in UdpLabel
      BY <1>3 DEF UdpLookup, At, Before, UdpLabel
    <2> QED
      BY <1>3, <2>1, SecondTyped DEF UdpLookup
  <1>4. ASSUME NEW c \in CPU, UdpInsert(c) PROVE UdpTyped'
    <2>1. [last |-> cpu[c].now, count |-> 1] \in DatedCounts
      BY CpuFields DEF DatedCounts
    <2>2. Effect(DatedCounts, c) /\ Return(c) /\ ~ At(c, "idle")
      BY <1>1, <1>4, <2>1, LinkTyped DEF UdpInsert, UdpPass, Effect, At
    <2> QED
      BY <2>2, ReturnTyped
  <1>5. ASSUME NEW c \in CPU, cpu[c].at \notin Before, UdpHandle(c) PROVE UdpTyped'
    <2>1. cpu[c].elem \in Elem /\ cpu[c].now \in Time /\ ~ At(c, "idle")
      BY <1>5, CpuFields DEF Typed, Before, At
    <2>2. Effect(DatedCounts, c)
      <3> USE <1>1, <2>1, CountsUpdate DEF Effect, history
      <3>1. CASE UdpAge(c) \/ UdpJudgeRate(c) \/ UdpJudgeBurst(c) \/ UdpDrop(c)
        BY <3>1 DEF UdpAge, UdpJudgeRate, UdpJudgeBurst, UdpDrop
      <3>2. CASE UdpCount(c) \/ UdpReset(c)
        <4>1. CASE UdpCount(c)
          BY <4>1 DEF UdpCount
        <4>2. CASE UdpReset(c)
          BY <4>2 DEF UdpReset
        <4> QED
          BY <3>2, <4>1, <4>2
      <3>3. CASE UdpSlide(c)
        <4>1. /\ mem' \in [Elem -> DatedCounts]
              /\ UNCHANGED <<clock, entry, sent, evicted, others, received>>
          BY <3>3 DEF UdpSlide
        <4>2. passed' \in {passed, Append(passed, Stamped(c))}
          BY <3>3 DEF UdpSlide, UdpPass
        <4>3. opened' = opened \cup {cpu[c].now}
          BY <3>3 DEF UdpSlide
        <4> QED
          BY <4>1, <4>2, <4>3
      <3>5. CASE UdpReopen(c)
        BY <3>5 DEF UdpReopen, UdpPass
      <3>4. ~ UdpLookup(c) /\ ~ UdpInsert(c) /\ \A p \in UdpPacket : ~ UdpArrive(c, p)
        BY <1>5 DEF UdpLookup, UdpInsert, UdpArrive, BeginWithClock, At, Before
      <3> QED
        BY <1>5, <3>1, <3>2, <3>3, <3>4, <3>5 DEF UdpHandle
    <2>3. \/ Return(c) \/ \E label \in UdpLabel : Goto(c, label)
          \/ GotoWith(c, "count", Elapsed(cpu[c].now, mem[cpu[c].elem].last))
      BY <1>5
         DEF UdpHandle, UdpArrive, BeginWithClock, UdpLookup, UdpInsert, UdpAge,
             UdpCount, UdpJudgeRate, UdpJudgeBurst, UdpDrop, UdpSlide, UdpReset,
             UdpReopen, UdpPass, At, Before, UdpLabel
    <2>4. /\ Elapsed(cpu[c].now, mem[cpu[c].elem].last) \in Nat
          /\ "count" \in UdpLabel
      BY <1>1, <2>1, CountsUpdate, ElapsedIsNat DEF UdpLabel
    <2> QED
      BY <1>5, <2>1, <2>2, <2>3, <2>4, ReturnTyped, OnwardTyped
  <1>6. CASE Evict \/ Tick \/ Finished \/ UNCHANGED vars
    BY <1>6, OutsideTyped
  <1>7. ASSUME NEW c \in CPU, cpu[c].at \in Before, UdpHandle(c)
        PROVE  UdpLookup(c) \/ UdpInsert(c) \/ \E p \in UdpPacket : UdpArrive(c, p)
    BY <1>7
       DEF UdpHandle, UdpAge, UdpCount, UdpJudgeRate, UdpJudgeBurst, UdpDrop,
           UdpSlide, UdpReset, UdpReopen, At, Before
  <1>8. CASE UdpIntrude
    <2>1. PICK e \in Elem, t \in 0 .. clock, n \in Foreign :
            Intrude(e, [last |-> t, count |-> n], t, Gain(n, mem[e].count))
      BY <1>8 DEF UdpIntrude
    <2>2. clock \in Time
      BY DEF Typed, TypesOK
    <2> QED
      BY <1>1, <2>1, <2>2, ForeignCounts, IntrudeTyped
  <1> QED
    BY <1>2, <1>3, <1>4, <1>5, <1>6, <1>7, <1>8 DEF UdpNext, UdpOwn

-----------------------------------------------------------------------------
(* Fragments *)

FragBefore == Before \cup {"shape"}

FragTyped == Typed(FragPacket, DatedCounts, FragLabel, FragBefore)

LEMMA FragTypesAre == FragTypeOK <=> FragTyped
  BY DEF FragTypeOK, FragTyped, Typed, DatedCounts, FragBefore, Before

LEMMA FragFits == Fits(FragPacket, FragLabel, FragBefore)
  BY FragTrackAssumption DEF Fits, FragLabel, FragBefore, Before

LEMMA FragTypesInit == FragInit => FragTyped
  <1>1. [last |-> 0, count |-> 0] \in DatedCounts
    BY Bounds DEF DatedCounts
  <1> QED
    BY <1>1, FragFits, InitTyped DEF FragInit, FragTyped

LEMMA FragTypesStep == FragTyped /\ [FragNext]_vars => FragTyped'
  <1> SUFFICES ASSUME FragTyped, [FragNext]_vars PROVE FragTyped'
    OBVIOUS
  <1> USE FragFits DEF FragTyped
  <1>1. mem \in [Elem -> DatedCounts] /\ entry \in Elem \cup {NoElem}
    BY DEF Typed, TypesOK
  <1>2. ASSUME NEW c \in CPU, NEW p \in FragPacket, FragArrive(c, p)
        PROVE  FragTyped'
    BY <1>2, ArriveTyped DEF FragArrive, FragBefore, Before
  <1>3. ASSUME NEW c \in CPU, FragLookup(c) PROVE FragTyped'
    <2>1. ~ At(c, "idle") /\ "insert" \in FragBefore /\ "age" \in FragLabel
      BY <1>3 DEF FragLookup, At, FragBefore, Before, FragLabel
    <2> QED
      BY <1>3, <2>1, SecondTyped DEF FragLookup
  <1>4. ASSUME NEW c \in CPU, FragInsert(c) PROVE FragTyped'
    <2>1. [last |-> cpu[c].now, count |-> 1] \in DatedCounts
      BY CpuFields DEF DatedCounts
    <2>2. /\ Effect(DatedCounts, c) /\ Goto(c, "shape") /\ ~ At(c, "idle")
          /\ "shape" \in FragBefore /\ "shape" \in FragLabel
      BY <1>1, <1>4, <2>1, LinkTyped
         DEF FragInsert, Effect, At, FragBefore, FragLabel
    <2> QED
      BY <2>2, OnwardTyped
  <1>5. ASSUME NEW c \in CPU, FragJudgeShape(c) PROVE FragTyped'
    <2>1. Effect(DatedCounts, c) /\ Return(c) /\ ~ At(c, "idle")
      BY <1>1, <1>5 DEF FragJudgeShape, Effect, At, history
    <2> QED
      BY <2>1, ReturnTyped
  <1>6. ASSUME NEW c \in CPU, cpu[c].at \notin FragBefore, FragHandle(c)
        PROVE  FragTyped'
    <2>1. cpu[c].elem \in Elem /\ cpu[c].now \in Time /\ ~ At(c, "idle")
      BY <1>6, CpuFields DEF Typed, FragBefore, Before, At
    <2>2. Effect(DatedCounts, c)
      <3> USE <1>1, <2>1, CountsUpdate DEF Effect, history
      <3>1. CASE FragAge(c) \/ FragJudge(c) \/ FragDrop(c)
        BY <3>1 DEF FragAge, FragJudge, FragDrop
      <3>2. CASE FragCount(c) \/ FragReset(c)
        BY <3>2 DEF FragCount, FragReset
      <3>3. CASE FragDate(c)
        BY <3>3 DEF FragDate
      <3>4. /\ ~ FragLookup(c) /\ ~ FragInsert(c) /\ ~ FragJudgeShape(c)
            /\ \A p \in FragPacket : ~ FragArrive(c, p)
        BY <1>6
           DEF FragLookup, FragInsert, FragJudgeShape, FragArrive,
               BeginWithClock, At, FragBefore, Before
      <3> QED
        BY <1>6, <3>1, <3>2, <3>3, <3>4 DEF FragHandle
    <2>3. Return(c) \/ \E label \in FragLabel : Goto(c, label)
      BY <1>6
         DEF FragHandle, FragArrive, BeginWithClock, FragLookup, FragInsert,
             FragAge, FragReset, FragCount, FragDate, FragJudge, FragDrop,
             FragJudgeShape, At, FragBefore, Before, FragLabel
    <2> QED
      BY <1>6, <2>1, <2>2, <2>3, ReturnTyped, OnwardTyped
  <1>7. CASE Evict \/ Tick \/ Finished \/ UNCHANGED vars
    BY <1>7, OutsideTyped
  <1>8. ASSUME NEW c \in CPU, cpu[c].at \in FragBefore, FragHandle(c)
        PROVE  \/ FragLookup(c) \/ FragInsert(c) \/ FragJudgeShape(c)
               \/ \E p \in FragPacket : FragArrive(c, p)
    BY <1>8
       DEF FragHandle, FragAge, FragReset, FragCount, FragDate, FragJudge,
           FragDrop, At, FragBefore, Before
  <1>9. CASE FragIntrude
    <2>1. PICK e \in Elem, t \in 0 .. clock, n \in Foreign :
            Intrude(e, [last |-> t, count |-> n], t, Gain(n, mem[e].count))
      BY <1>9 DEF FragIntrude
    <2>2. clock \in Time
      BY DEF Typed, TypesOK
    <2> QED
      BY <1>1, <2>1, <2>2, ForeignCounts, IntrudeTyped
  <1> QED
    BY <1>2, <1>3, <1>4, <1>5, <1>6, <1>7, <1>8, <1>9 DEF FragNext, FragOwn

-----------------------------------------------------------------------------
(* ICMP *)

Buckets == [last : Time, tokens : 0 .. IcmpFloodRate]

\* A token is only taken from a bucket that has one.
IcmpTyped ==
  /\ Typed(IcmpPacket, Buckets, IcmpLabel, Early)
  /\ \A c \in CPU : At(c, "store") => cpu[c].arg \in 1 .. IcmpFloodRate

LEMMA IcmpTypesAre == IcmpTypeOK <=> IcmpTyped
  BY DEF IcmpTypeOK, IcmpTyped, Typed, Buckets, Early

LEMMA IcmpOutfits == Fits(IcmpPacket, IcmpLabel, Early)
  BY IcmpBucketAssumption DEF Fits, IcmpLabel, Early

LEMMA IcmpTypesInit == IcmpInit => IcmpTyped
  <1> SUFFICES ASSUME IcmpInit PROVE IcmpTyped
    OBVIOUS
  <1>1. [last |-> 0, tokens |-> 0] \in Buckets
    BY Bounds, IcmpBucketAssumption DEF Buckets
  <1>2. \A c \in CPU : ~ At(c, "store")
    BY DEF IcmpInit, InitWith, Idle, At
  <1> QED
    BY <1>1, <1>2, IcmpOutfits, InitTyped DEF IcmpInit, IcmpTyped

\* Whatever the elapsed time, a refilled bucket holds at most the rate.
LEMMA RefilledFits ==
  ASSUME NEW tokens \in Nat, NEW elapsed \in Nat
  PROVE  IcmpRefilled(tokens, elapsed) \in 0 .. IcmpFloodRate
  <1> USE LruEntryAssumption, IcmpBucketAssumption
  <1>1. (elapsed * IcmpFloodRate) \in Int
    OBVIOUS
  <1>2. (elapsed * IcmpFloodRate) % U64 \in Nat
    BY <1>1
  <1>3. IcmpEarned(elapsed) \in Nat
    BY <1>2 DEF IcmpEarned
  <1>4. (tokens + IcmpEarned(elapsed)) % U32 \in Nat
    BY <1>3
  <1> QED
    BY <1>4 DEF IcmpRefilled, IcmpClamped

LEMMA IcmpTypesStep == IcmpTyped /\ [IcmpNext]_vars => IcmpTyped'
  <1> SUFFICES ASSUME IcmpTyped, [IcmpNext]_vars PROVE IcmpTyped'
    OBVIOUS
  <1> DEFINE T == Typed(IcmpPacket, Buckets, IcmpLabel, Early)
  <1>0. T /\ \A c \in CPU : At(c, "store") => cpu[c].arg \in 1 .. IcmpFloodRate
    BY DEF IcmpTyped
  <1>1. /\ mem \in [Elem -> Buckets] /\ entry \in Elem \cup {NoElem}
        /\ cpu \in [CPU -> CpuStates(IcmpPacket, IcmpLabel)]
    BY <1>0 DEF Typed, TypesOK
  <1>2. ASSUME T', \A c \in CPU : At(c, "store")' =>
                     \/ At(c, "store") /\ cpu'[c].arg = cpu[c].arg
                     \/ cpu'[c].arg \in 1 .. IcmpFloodRate
        PROVE  IcmpTyped'
    BY <1>0, <1>2 DEF IcmpTyped
  <1>3. ASSUME NEW c \in CPU, NEW p \in IcmpPacket, IcmpArrive(c, p)
        PROVE  IcmpTyped'
    <2>1. T'
      BY <1>0, <1>3, IcmpOutfits, ArriveTyped DEF IcmpArrive, Early
    <2> QED
      BY <1>1, <1>2, <1>3, <2>1 DEF IcmpArrive, BeginWithLookup, At
  <1>4. ASSUME NEW c \in CPU, IcmpStamp(c) PROVE IcmpTyped'
    <2>1. ~ At(c, "idle") /\ "insert" \in Early /\ "elapsed" \in IcmpLabel
      BY <1>4 DEF IcmpStamp, At, Early, IcmpLabel
    <2>2. T'
      BY <1>0, <1>4, <2>1, IcmpOutfits, SecondTyped DEF IcmpStamp
    <2>3. \A d \in CPU : At(d, "store")' => d # c /\ cpu'[d] = cpu[d]
      BY <1>1, <1>4 DEF IcmpStamp, ThenClock, At, CpuStates
    <2> QED
      BY <1>2, <2>2, <2>3 DEF At
  <1>5. ASSUME NEW c \in CPU, Effect(Buckets, c), ~ At(c, "idle"), Return(c)
        PROVE  IcmpTyped'
    <2>1. T'
      BY <1>0, <1>5, IcmpOutfits, ReturnTyped
    <2> QED
      BY <1>1, <1>2, <1>5, <2>1 DEF Return, Idle, At
  <1>6. ASSUME NEW c \in CPU, NEW label \in IcmpLabel, NEW n \in Nat,
               Effect(Buckets, c), cpu[c].at \notin Early,
               \/ Goto(c, label) /\ label # "store"
               \/ GotoWith(c, label, n) /\ (label = "store" => n \in 1 .. IcmpFloodRate)
        PROVE  IcmpTyped'
    <2>1. ~ At(c, "idle")
      BY <1>6 DEF At, Early
    <2>2. T'
      BY <1>0, <1>6, <2>1, IcmpOutfits, OnwardTyped
    <2>3. /\ \A d \in CPU \ {c} : cpu'[d] = cpu[d]
          /\ cpu'[c].at = label
          /\ GotoWith(c, label, n) => cpu'[c].arg = n
      BY <1>1, <1>6 DEF Goto, GotoWith, CpuStates
    <2> QED
      BY <1>2, <1>6, <2>2, <2>3 DEF At
  <1>7. ASSUME NEW c \in CPU PROVE cpu[c].now \in Time /\ cpu[c].arg \in Nat
    BY <1>1, <1>7 DEF CpuStates
  <1>8. ASSUME NEW c \in CPU, IcmpInsert(c) PROVE IcmpTyped'
    <2>1. IcmpOpening(cpu[c].now) \in Buckets
      BY <1>7, IcmpBucketAssumption DEF IcmpOpening, Buckets
    <2>2. Effect(Buckets, c) /\ Return(c) /\ ~ At(c, "idle")
      BY <1>1, <1>8, <2>1, LinkTyped DEF IcmpInsert, IcmpPass, Effect, At
    <2> QED
      BY <1>5, <2>2
  <1>9. ASSUME NEW c \in CPU, cpu[c].at \notin Early
        PROVE  /\ cpu[c].elem \in Elem
               /\ mem[cpu[c].elem].last \in Time
               /\ mem[cpu[c].elem].tokens \in Nat
               /\ \A n \in 0 .. IcmpFloodRate :
                    [mem EXCEPT ![cpu[c].elem].tokens = n] \in [Elem -> Buckets]
               /\ \A t \in Time :
                    [mem EXCEPT ![cpu[c].elem].last = t] \in [Elem -> Buckets]
    <2>1. cpu[c].elem \in Elem
      BY <1>0, <1>9 DEF Typed
    <2> QED
      BY <1>1, <2>1, IcmpBucketAssumption DEF Buckets
  <1>10. ASSUME NEW c \in CPU, IcmpReadDate(c) PROVE IcmpTyped'
    <2>1. cpu[c].at \notin Early /\ "tokens" \in IcmpLabel
      BY <1>10 DEF IcmpReadDate, At, Early, IcmpLabel
    <2>2. Elapsed(cpu[c].now, mem[cpu[c].elem].last) \in Nat
      BY <1>7, <1>9, <2>1, ElapsedIsNat
    <2>3. Effect(Buckets, c)
      BY <1>1, <1>10 DEF IcmpReadDate, Effect, history
    <2> QED
      BY <1>6, <1>10, <2>1, <2>2, <2>3 DEF IcmpReadDate
  <1>11. ASSUME NEW c \in CPU, IcmpRefill(c) PROVE IcmpTyped'
    <2> DEFINE n == IcmpRefilled(mem[cpu[c].elem].tokens, cpu[c].arg)
               label == IF n >= 1 THEN "store" ELSE "drop"
    <2>1. cpu[c].at \notin Early /\ label \in IcmpLabel
      BY <1>11 DEF IcmpRefill, At, Early, IcmpLabel
    <2>2. n \in 0 .. IcmpFloodRate
      BY <1>7, <1>9, <2>1, RefilledFits
    <2>3. GotoWith(c, label, n) /\ Effect(Buckets, c)
      BY <1>1, <1>11 DEF IcmpRefill, Effect, history
    <2>4. n \in Nat /\ (label = "store" => n \in 1 .. IcmpFloodRate)
      BY <2>2, IcmpBucketAssumption
    <2> HIDE DEF n, label
    <2> QED
      BY <1>6, <2>1, <2>3, <2>4
  <1>12. ASSUME NEW c \in CPU, IcmpTake(c) PROVE IcmpTyped'
    <2>1. cpu[c].at \notin Early /\ "date" \in IcmpLabel /\ Goto(c, "date")
      BY <1>12 DEF IcmpTake, At, Early, IcmpLabel
    <2>2. cpu[c].arg - 1 \in 0 .. IcmpFloodRate
      BY <1>0, <1>12, IcmpBucketAssumption DEF IcmpTake
    <2>3. Effect(Buckets, c)
      BY <1>1, <1>9, <1>12, <2>1, <2>2 DEF IcmpTake, Effect, history
    <2> QED
      BY <1>6, <2>1, <2>3
  <1>13. ASSUME NEW c \in CPU, IcmpDate(c) \/ IcmpDrop(c) PROVE IcmpTyped'
    <2>1. cpu[c].at \notin Early /\ ~ At(c, "idle") /\ Return(c)
      BY <1>13 DEF IcmpDate, IcmpDrop, IcmpPass, At, Early
    <2>2. CASE IcmpDate(c)
      <3>1. mem' \in [Elem -> Buckets]
        BY <1>7, <1>9, <2>1, <2>2 DEF IcmpDate
      <3>2. Effect(Buckets, c)
        BY <1>1, <2>2, <3>1 DEF IcmpDate, IcmpPass, Effect
      <3> QED
        BY <1>5, <2>1, <3>2
    <2>3. CASE IcmpDrop(c)
      <3>1. Effect(Buckets, c)
        BY <1>1, <2>3 DEF IcmpDrop, Effect, history
      <3> QED
        BY <1>5, <2>1, <3>1
    <2> QED
      BY <1>13, <2>2, <2>3
  <1>14. CASE Evict \/ Tick \/ Finished \/ UNCHANGED vars
    <2>1. T' /\ UNCHANGED cpu
      BY <1>0, <1>14, OutsideTyped DEF Evict, Tick, Finished, vars
    <2> QED
      BY <1>2, <2>1 DEF At
  <1>15. CASE IcmpIntrude
    <2>1. PICK e \in Elem, t \in 0 .. clock, n \in 0 .. IcmpFloodRate :
            Intrude(e, [last |-> t, tokens |-> n], t, Gain(mem[e].tokens, n))
      BY <1>15 DEF IcmpIntrude
    <2>2. t \in Time /\ n \in Nat /\ mem[e].tokens \in Nat
      <3>1. clock \in Time
        BY <1>0 DEF Typed, TypesOK
      <3>2. t \in Time
        BY <3>1, LruEntryAssumption DEF Time
      <3>3. n \in Nat
        BY IcmpBucketAssumption
      <3>4. mem[e] \in Buckets
        BY <1>1
      <3> QED
        BY <3>2, <3>3, <3>4, IcmpBucketAssumption DEF Buckets
    <2>3. [last |-> t, tokens |-> n] \in Buckets
      BY <2>2 DEF Buckets
    <2>4. T'
      BY <1>0, <2>1, <2>2, <2>3, GainIs, IntrudeTyped
    <2>5. cpu' = cpu
      BY <2>1 DEF Intrude
    <2> QED
      BY <1>2, <2>4, <2>5 DEF At
  <1> QED
    BY <1>3, <1>4, <1>8, <1>10, <1>11, <1>12, <1>13, <1>14, <1>15
       DEF IcmpNext, IcmpOwn, IcmpHandle

-----------------------------------------------------------------------------
(* Flows *)

FlowCounts == [start : Time, count : Nat]
FlowBefore == {"idle", "ask", "answered", "lookup", "insert"}

FlowTyped == Typed(FlowPacket, FlowCounts, FlowLabel, FlowBefore)

LEMMA FlowTypesAre == FlowTyped => FlowTypeOK
  BY DEF FlowTypeOK, FlowTyped, Typed, FlowCounts, FlowBefore

LEMMA FlowFits == Fits(FlowPacket, FlowLabel, FlowBefore)
  BY FlowTableAssumption DEF Fits, FlowPacket, FlowLabel, FlowBefore

LEMMA FlowTypesInit == FlowInit => FlowTyped
  <1>1. [start |-> 0, count |-> 0] \in FlowCounts
    BY Bounds DEF FlowCounts
  <1> QED
    BY <1>1, FlowFits, InitTyped DEF FlowInit, FlowTyped

LEMMA FlowTypesStep == FlowTyped /\ [FlowNext]_vars => FlowTyped'
  <1> SUFFICES ASSUME FlowTyped, [FlowNext]_vars PROVE FlowTyped'
    OBVIOUS
  <1> USE FlowFits DEF FlowTyped
  <1>1. mem \in [Elem -> FlowCounts] /\ entry \in Elem \cup {NoElem}
    BY DEF Typed, TypesOK
  <1>2. ASSUME NEW c \in CPU, NEW p \in FlowPacket, FlowArrive(c, p)
        PROVE  FlowTyped'
    BY <1>2, ArriveTyped DEF FlowArrive, FlowBefore
  <1>3. ASSUME NEW c \in CPU, FlowAsk(c) \/ FlowLookup(c) PROVE FlowTyped'
    <2>1. /\ ~ At(c, "idle") /\ {"insert", "answered"} \subseteq FlowBefore
          /\ {"age", "load"} \subseteq FlowLabel
      BY <1>3 DEF FlowAsk, FlowLookup, At, FlowBefore, FlowLabel
    <2> QED
      BY <1>3, <2>1, SecondTyped DEF FlowAsk, FlowLookup
  <1>4. ASSUME NEW c \in CPU, FlowClock(c) PROVE FlowTyped'
    <2>1. /\ ~ At(c, "idle") /\ "lookup" \in FlowBefore \cap FlowLabel
          /\ Effect(FlowCounts, c)
          /\ cpu' = [cpu EXCEPT ![c].now = clock, ![c].at = "lookup"]
      BY <1>1, <1>4 DEF FlowClock, At, FlowBefore, FlowLabel, Effect, history
    <2> QED
      BY <2>1, OnwardTyped
  <1>5. ASSUME NEW c \in CPU, FlowInsert(c) PROVE FlowTyped'
    <2>1. FlowCounters(cpu[c].now) \in FlowCounts
      BY CpuFields DEF FlowCounters, FlowCounts
    <2>2. Effect(FlowCounts, c) /\ Return(c) /\ ~ At(c, "idle")
      BY <1>1, <1>5, <2>1, LinkTyped DEF FlowInsert, FlowPass, Effect, At
    <2> QED
      BY <2>2, ReturnTyped
  <1>6. ASSUME NEW c \in CPU,
               FlowAge(c) \/ FlowLoad(c) \/ FlowStore(c) \/ FlowRelink(c)
        PROVE  FlowTyped'
    <2>1. ~ At(c, "idle") /\ cpu[c].at \notin FlowBefore
      BY <1>6 DEF FlowAge, FlowLoad, FlowStore, FlowRelink, At, FlowBefore
    <2>2. /\ cpu[c].elem \in Elem /\ cpu[c].arg \in Nat
          /\ mem[cpu[c].elem] \in FlowCounts
          /\ [mem EXCEPT ![cpu[c].elem].count = cpu[c].arg + 1]
               \in [Elem -> FlowCounts]
      <3>1. cpu[c].elem \in Elem
        BY <2>1 DEF Typed
      <3>2. cpu[c].arg \in Nat
        BY CpuFields
      <3> QED
        BY <1>1, <3>1, <3>2 DEF FlowCounts
    <2>3. Effect(FlowCounts, c)
      <3>1. CASE FlowAge(c) \/ FlowLoad(c)
        BY <1>1, <3>1 DEF FlowAge, FlowLoad, Effect, history
      <3>2. CASE FlowStore(c)
        BY <1>1, <2>2, <3>2 DEF FlowStore, Effect, history
      <3>3. CASE FlowRelink(c)
        BY <1>1, <2>2, <3>3, LinkTyped DEF FlowRelink, FlowPass, Effect
      <3> QED
        BY <1>6, <3>1, <3>2, <3>3
    <2>4. mem[cpu[c].elem].count \in Nat /\ 0 \in Nat /\ 1 \in Nat
      BY <2>2 DEF FlowCounts
    <2>5. \/ Return(c)
          \/ \E label \in FlowLabel : Goto(c, label)
          \/ \E label \in FlowLabel, n \in Nat : GotoWith(c, label, n)
      BY <1>6, <2>4
         DEF FlowAge, FlowLoad, FlowStore, FlowRelink, FlowPass, FlowLabel
    <2> QED
      BY <2>1, <2>3, <2>5, ReturnTyped, OnwardTyped
  <1>7. CASE Evict \/ Tick \/ Finished \/ UNCHANGED vars
    BY <1>7, OutsideTyped
  <1>8. CASE FlowIntrude
    <2>1. PICK e \in Elem, t \in 0 .. clock, n \in Foreign :
            Intrude(e, [start |-> t, count |-> n], t, Gain(n, mem[e].count))
      BY <1>8 DEF FlowIntrude
    <2>2. t \in Time /\ n \in Nat /\ mem[e].count \in Nat
      BY <1>1, LruEntryAssumption DEF Typed, TypesOK, Time, FlowCounts
    <2>3. [start |-> t, count |-> n] \in FlowCounts
      BY <2>2 DEF FlowCounts
    <2> QED
      BY <2>1, <2>2, <2>3, GainIs, IntrudeTyped
  <1> QED
    BY <1>2, <1>3, <1>4, <1>5, <1>6, <1>7, <1>8
       DEF FlowNext, FlowOwn, FlowHandle

-----------------------------------------------------------------------------
(* Windows: the date of every element in use is one of opened *)

\* A step of CPU c keeps this when the dates it stores are opened, and c goes
\* on with the element it had or with the one that is linked.
LEMMA DatesKept ==
  ASSUME DatesOpened, NEW c \in CPU,
         \A d \in CPU \ {c} : cpu'[d] = cpu[d],
         cpu'[c].elem \in {entry, NoElem, cpu[c].elem},
         opened \subseteq opened',
         entry' = entry \/ entry' = NoElem \/ mem'[entry'].last \in opened',
         \A e \in Elem : mem'[e].last = mem[e].last \/ mem'[e].last \in opened'
  PROVE  DatesOpened'
  <1> SUFFICES ASSUME NEW e \in Elem, InUse(e)', mem'[e].last \notin opened'
               PROVE  FALSE
    BY DEF DatesOpened
  <1>1. mem'[e].last = mem[e].last /\ ~ InUse(e)
    BY DEF DatesOpened
  <1>2. entry' # e
    BY <1>1, Bounds DEF InUse
  <1>3. PICK d \in CPU : cpu'[d].elem = e
    BY <1>2 DEF InUse
  <1> QED
    BY <1>1, <1>3, Bounds DEF InUse

\* A CPU that has looked the source up goes on, or returns.
LEMMA DatesMoved ==
  ASSUME NEW P, NEW C, NEW L, NEW E, Typed(P, C, L, E), DatesOpened,
         NEW c \in CPU, NEW label, NEW n,
         Return(c) \/ Goto(c, label) \/ GotoWith(c, label, n),
         opened \subseteq opened',
         entry' = entry \/ entry' = NoElem \/ mem'[entry'].last \in opened',
         \A e \in Elem : mem'[e].last = mem[e].last \/ mem'[e].last \in opened'
  PROVE  DatesOpened'
  <1>1. \A d \in CPU \ {c} : cpu'[d] = cpu[d]
    BY DEF Return, Goto, GotoWith, Typed, TypesOK
  <1>2. cpu'[c].elem \in {NoElem, cpu[c].elem}
    BY DEF Return, Goto, GotoWith, Typed, TypesOK, CpuStates, Idle
  <1> QED
    BY <1>1, <1>2, DatesKept

\* The first two steps, and those of no CPU.
LEMMA DatesBegun ==
  ASSUME NEW P, NEW C, NEW L, NEW E, Typed(P, C, L, E), DatesOpened,
         \/ \E c \in CPU, p \in P, label \in L :
              BeginWithLookup(c, p, label) \/ BeginWithClock(c, p, label)
         \/ \E c \in CPU, held \in L, missing \in L :
              /\ ~ At(c, "idle")
              /\ \/ ThenClock(c, IF cpu[c].elem = NoElem THEN missing ELSE held)
                 \/ ThenLookup(c, held, missing)
         \/ Evict \/ Tick \/ Finished \/ UNCHANGED vars
  PROVE  DatesOpened'
  <1> USE DEF Typed, TypesOK, CpuStates, history
  <1>1. ASSUME NEW c \in CPU, NEW p \in P, NEW label \in L,
               BeginWithLookup(c, p, label) \/ BeginWithClock(c, p, label)
        PROVE  DatesOpened'
    <2>1. /\ \A d \in CPU \ {c} : cpu'[d] = cpu[d]
          /\ cpu'[c].elem \in {entry, NoElem}
          /\ UNCHANGED <<opened, entry, mem>>
      BY <1>1 DEF BeginWithLookup, BeginWithClock
    <2> QED
      BY <2>1, DatesKept
  <1>2. ASSUME NEW c \in CPU, NEW held \in L, NEW missing \in L, ~ At(c, "idle"),
               \/ ThenClock(c, IF cpu[c].elem = NoElem THEN missing ELSE held)
               \/ ThenLookup(c, held, missing)
        PROVE  DatesOpened'
    <2>1. /\ \A d \in CPU \ {c} : cpu'[d] = cpu[d]
          /\ cpu'[c].elem = entry \/ cpu'[c].elem = cpu[c].elem
          /\ UNCHANGED <<opened, entry, mem>>
      BY <1>2 DEF ThenClock, ThenLookup
    <2> QED
      BY <1>2, <2>1, DatesKept
  <1>3. CASE Evict \/ Tick \/ Finished \/ UNCHANGED vars
    <2>1. UNCHANGED <<opened, mem, cpu>> /\ entry' \in {entry, NoElem}
      BY <1>3 DEF Evict, Tick, Finished, vars
    <2> QED
      BY <2>1, Bounds DEF DatesOpened, InUse
  <1> QED
    BY <1>1, <1>2, <1>3

\* Packets of other sources store dates that are opened with them.
LEMMA DatesIntrude ==
  ASSUME NEW C, mem \in [Elem -> C], DatesOpened,
         NEW e \in Elem, NEW m, NEW t, NEW gain, m.last = t, Intrude(e, m, t, gain)
  PROVE  DatesOpened' /\ opened \subseteq opened' /\ cpu' = cpu
  <1>1. /\ mem' = [mem EXCEPT ![e] = m] /\ opened' = opened \cup {t}
        /\ UNCHANGED <<entry, cpu>>
    BY DEF Intrude
  <1>2. \A d \in Elem : mem'[d] = mem[d] \/ mem'[d] = m
    BY <1>1
  <1>3. \A d \in Elem : InUse(d)' <=> InUse(d)
    BY <1>1 DEF InUse
  <1> QED
    BY <1>1, <1>2, <1>3 DEF DatesOpened

LEMMA LinkDated ==
  ASSUME NEW C, mem \in [Elem -> C], NEW m, Link(m), m.last \in opened'
  PROVE  /\ mem'[entry'].last \in opened'
         /\ \A e \in Elem : mem'[e].last = mem[e].last \/ mem'[e].last \in opened'
  BY DEF Link

\* DNS: packets are counted in an open window.

LEMMA DnsFreshIsRecent ==
  ASSUME NEW now \in Time, NEW last \in Time, DnsFresh(now, last)
  PROVE  now \in last .. (last + Window - 1)
  BY FreshIsRecent DEF DnsFresh, SynFresh

\* The strengthening of NeverShutOut that the steps preserve.
DnsWindows == DnsTyped /\ DatesOpened /\ InWindow

LEMMA DnsDatesStep == DnsWindows /\ [DnsNext]_vars => DatesOpened'
  <1> SUFFICES ASSUME DnsWindows, [DnsNext]_vars PROVE DatesOpened'
    OBVIOUS
  <1>1. /\ Typed(DnsPacket, DatedCounts, DnsLabel, Early) /\ DatesOpened
        /\ mem \in [Elem -> DatedCounts]
    BY DEF DnsWindows, DnsTyped, Typed, TypesOK
  <1>2. CASE \/ \E c \in CPU : DnsStamp(c) \/ \E p \in DnsPacket : DnsArrive(c, p)
             \/ Evict \/ Tick \/ Finished \/ UNCHANGED vars
    BY <1>1, <1>2, DatesBegun DEF DnsStamp, DnsArrive, DnsLabel, At
  <1>3. ASSUME NEW c \in CPU, DnsInsert(c) PROVE DatesOpened'
    <2>1. Return(c) /\ opened \subseteq opened'
      BY <1>3 DEF DnsInsert, DnsPass
    <2>2. /\ mem'[entry'].last \in opened'
          /\ \A e \in Elem : mem'[e].last = mem[e].last \/ mem'[e].last \in opened'
      BY <1>1, <1>3, LinkDated DEF DnsInsert
    <2> QED
      BY <1>1, <2>1, <2>2, DatesMoved
  <1>4. ASSUME NEW c \in CPU,
               \/ DnsAge(c) \/ DnsCount(c) \/ DnsJudge(c) \/ DnsJudgeSize(c)
               \/ DnsDrop(c) \/ DnsReopen(c) \/ DnsReset(c)
        PROVE  DatesOpened'
    <2> USE DEF DnsAge, DnsCount, DnsJudge, DnsJudgeSize, DnsDrop, DnsReopen,
                DnsReset
    <2>1. opened \subseteq opened' /\ entry' = entry
      BY <1>4 DEF history
    <2>2. Return(c) \/ \E label \in DnsLabel : Goto(c, label)
      BY <1>4 DEF DnsPass, DnsLabel
    <2>3. \A e \in Elem : mem'[e].last = mem[e].last \/ mem'[e].last \in opened'
      BY <1>1, <1>4 DEF DatedCounts
    <2> QED
      BY <1>1, <2>1, <2>2, <2>3, DatesMoved
  <1>5. CASE DnsIntrude
    <2>1. PICK e \in Elem, t \in 0 .. clock, n \in Foreign :
            Intrude(e, [last |-> t, count |-> n], t, Gain(n, mem[e].count))
      BY <1>5 DEF DnsIntrude
    <2> QED
      BY <1>1, <2>1, DatesIntrude
  <1> QED
    BY <1>2, <1>3, <1>4, <1>5 DEF DnsNext, DnsOwn, DnsHandle

LEMMA DnsWindowStep == DnsWindows /\ [DnsNext]_vars => InWindow'
  <1> SUFFICES ASSUME DnsWindows, [DnsNext]_vars PROVE InWindow'
    OBVIOUS
  <1>1. /\ Typed(DnsPacket, DatedCounts, DnsLabel, Early) /\ DatesOpened
        /\ mem \in [Elem -> DatedCounts] /\ opened \subseteq Time
        /\ cpu \in [CPU -> CpuStates(DnsPacket, DnsLabel)] /\ InWindow
    BY DEF DnsWindows, DnsTyped, Typed, TypesOK
  <1> DEFINE DnsJudged == {"count", "rate", "acks", "drop"}
  <1>2. ASSUME opened \subseteq opened',
               \A c \in CPU : cpu'[c].at \in DnsJudged =>
                 cpu[c].at \in DnsJudged /\ cpu'[c].now = cpu[c].now
        PROVE  InWindow'
    BY <1>1, <1>2 DEF InWindow
  <1>3. ASSUME NEW c \in CPU,
               \/ DnsStamp(c) \/ DnsInsert(c) \/ DnsJudgeSize(c) \/ DnsDrop(c)
               \/ DnsReopen(c) \/ DnsReset(c)
               \/ \E p \in DnsPacket : DnsArrive(c, p)
        PROVE  InWindow'
    <2>1. opened \subseteq opened'
      BY <1>3
         DEF DnsStamp, ThenClock, DnsInsert, DnsJudgeSize, DnsDrop, DnsReopen,
             DnsReset, DnsArrive, BeginWithLookup, history
    <2>2. \A d \in CPU \ {c} : cpu'[d] = cpu[d]
      BY <1>1, <1>3
         DEF DnsStamp, ThenClock, DnsInsert, DnsJudgeSize, DnsDrop, DnsReopen,
             DnsReset, DnsArrive, BeginWithLookup, DnsPass, Return, Goto
    <2>3. cpu'[c].at \notin DnsJudged
      <3>1. CASE DnsInsert(c) \/ DnsJudgeSize(c) \/ DnsDrop(c) \/ DnsReset(c)
        BY <1>1, <3>1
           DEF DnsInsert, DnsJudgeSize, DnsDrop, DnsReset, DnsPass, Return,
               Goto, Idle, CpuStates
      <3>2. CASE DnsStamp(c) \/ DnsReopen(c) \/ \E p \in DnsPacket : DnsArrive(c, p)
        BY <1>1, <3>2
           DEF DnsStamp, ThenClock, DnsReopen, DnsArrive, BeginWithLookup, Goto,
               CpuStates
      <3> QED
        BY <1>3, <3>1, <3>2
    <2> QED
      BY <1>2, <2>1, <2>2, <2>3
  <1>6. CASE Evict \/ Tick \/ Finished \/ UNCHANGED vars
    BY <1>2, <1>6 DEF Evict, Tick, Finished, vars, history
  <1>4. ASSUME NEW c \in CPU, DnsCount(c) \/ DnsJudge(c) PROVE InWindow'
    <2>1. /\ opened' = opened /\ cpu[c].at \in DnsJudged
          /\ cpu'[c].now = cpu[c].now
          /\ \A d \in CPU \ {c} : cpu'[d] = cpu[d]
      BY <1>1, <1>4 DEF DnsCount, DnsJudge, Goto, At, CpuStates, history
    <2> QED
      BY <1>2, <2>1
  <1>5. ASSUME NEW c \in CPU, DnsAge(c) PROVE InWindow'
    <2>1. /\ opened' = opened /\ cpu'[c].now = cpu[c].now
          /\ \A d \in CPU \ {c} : cpu'[d] = cpu[d]
      BY <1>1, <1>5 DEF DnsAge, Goto, CpuStates, history
    <2>2. CASE DnsFresh(cpu[c].now, mem[cpu[c].elem].last)
      <3>1. cpu[c].elem \in Elem /\ InUse(cpu[c].elem) /\ cpu[c].now \in Time
        BY <1>1, <1>5, CpuFields DEF DnsAge, Typed, Early, InUse, At
      <3>2. mem[cpu[c].elem].last \in opened \cap Time
        BY <1>1, <3>1, CountsUpdate DEF DatesOpened
      <3>3. cpu[c].now \in mem[cpu[c].elem].last
                             .. (mem[cpu[c].elem].last + Window - 1)
        BY <2>2, <3>1, <3>2, DnsFreshIsRecent
      <3> QED
        BY <1>1, <2>1, <3>2, <3>3 DEF InWindow
    <2>3. CASE ~ DnsFresh(cpu[c].now, mem[cpu[c].elem].last)
      <3>1. cpu'[c].at = "reopen"
        BY <1>1, <1>5, <2>3 DEF DnsAge, Goto, CpuStates
      <3> QED
        BY <1>2, <2>1, <3>1
    <2> QED
      BY <2>2, <2>3
  <1>7. CASE DnsIntrude
    <2>1. opened \subseteq opened' /\ cpu' = cpu
      BY <1>7 DEF DnsIntrude, Intrude
    <2> QED
      BY <1>2, <2>1
  <1> QED
    BY <1>3, <1>4, <1>5, <1>6, <1>7 DEF DnsNext, DnsOwn, DnsHandle

LEMMA DatesInit ==
  ASSUME NEW m, InitWith(m)
  PROVE  DatesOpened
  BY Bounds DEF InitWith, Idle, DatesOpened, InUse

LEMMA DnsWindowsInit == DnsInit => DnsWindows
  <1>1. DnsInit => InWindow
    BY DEF DnsInit, InitWith, Idle, InWindow
  <1> QED
    BY <1>1, DnsTypesInit, DatesInit DEF DnsWindows, DnsInit

LEMMA DnsWindowsStep == DnsWindows /\ [DnsNext]_vars => DnsWindows'
  BY DnsTypesStep, DnsDatesStep, DnsWindowStep DEF DnsWindows

-----------------------------------------------------------------------------
(* UDP: rates are computed over more than 100 ms, and so never over nothing *)

UdpSound ==
  UdpTyped /\ \A c \in CPU : At(c, "pps") => cpu[c].arg > 0

LEMMA UdpSoundInit == UdpInit => UdpSound
  <1>1. UdpInit => \A c \in CPU : ~ At(c, "pps")
    BY DEF UdpInit, InitWith, Idle, At
  <1> QED
    BY <1>1, UdpTypesInit DEF UdpSound

LEMMA UdpSoundStep == UdpSound /\ [UdpNext]_vars => UdpSound'
  <1> SUFFICES ASSUME UdpSound, [UdpNext]_vars PROVE UdpSound'
    OBVIOUS
  <1>1. /\ UdpTyped /\ UdpTyped' /\ \A c \in CPU : At(c, "pps") => cpu[c].arg > 0
        /\ cpu \in [CPU -> CpuStates(UdpPacket, UdpLabel)]
    BY UdpTypesStep DEF UdpSound, UdpTyped, Typed, TypesOK
  <1>2. ASSUME NEW c \in CPU, \A d \in CPU \ {c} : cpu'[d] = cpu[d],
               At(c, "pps")' => cpu'[c].arg > 0
        PROVE  UdpSound'
    BY <1>1, <1>2 DEF UdpSound, At
  <1>3. ASSUME NEW c \in CPU, UdpCount(c) PROVE UdpSound'
    <2>1. /\ \A d \in CPU \ {c} : cpu'[d] = cpu[d]
          /\ cpu'[c].arg = cpu[c].arg
          /\ At(c, "pps")' => UdpLongEnough(cpu[c].arg)
      BY <1>1, <1>3 DEF UdpCount, Goto, At, CpuStates
    <2>2. cpu[c].arg \in Nat
      BY <1>1 DEF CpuStates
    <2>3. UdpLongEnough(cpu[c].arg) => cpu[c].arg > 0
      BY <2>2, UdpFloodAssumption DEF UdpLongEnough
    <2> QED
      BY <1>2, <2>1, <2>3
  <1>4. ASSUME NEW c \in CPU, NEW p \in UdpPacket, UdpArrive(c, p)
        PROVE  UdpSound'
    BY <1>1, <1>2, <1>4 DEF UdpArrive, BeginWithClock, At
  <1>5. ASSUME NEW c \in CPU, UdpLookup(c) PROVE UdpSound'
    BY <1>1, <1>2, <1>5 DEF UdpLookup, ThenLookup, At, CpuStates
  <1>6. ASSUME NEW c \in CPU, Return(c) PROVE UdpSound'
    BY <1>1, <1>2, <1>6 DEF Return, Idle, At
  <1>7. ASSUME NEW c \in CPU, NEW n,
               NEW label \in {"reset", "count", "burst", "slide", "drop", "reopen"},
               Goto(c, label) \/ GotoWith(c, label, n)
        PROVE  UdpSound'
    BY <1>1, <1>2, <1>7 DEF Goto, GotoWith, At, CpuStates
  <1>8. ASSUME NEW c \in CPU,
               \/ UdpAge(c) \/ UdpJudgeRate(c) \/ UdpJudgeBurst(c)
               \/ UdpReset(c)
        PROVE  UdpSound'
    BY <1>7, <1>8 DEF UdpAge, UdpJudgeRate, UdpJudgeBurst, UdpReset
  <1>9. ASSUME NEW c \in CPU,
               UdpInsert(c) \/ UdpDrop(c) \/ UdpSlide(c) \/ UdpReopen(c)
        PROVE  UdpSound'
    BY <1>6, <1>9 DEF UdpInsert, UdpDrop, UdpSlide, UdpReopen, UdpPass
  <1>10. CASE Evict \/ Tick \/ Finished \/ UNCHANGED vars \/ UdpIntrude
    <2>1. cpu' = cpu
      BY <1>10 DEF Evict, Tick, Finished, vars, UdpIntrude, Intrude
    <2> QED
      BY <1>1, <2>1 DEF UdpSound, At
  <1> QED
    BY <1>3, <1>4, <1>5, <1>8, <1>9, <1>10 DEF UdpNext, UdpOwn, UdpHandle

LEMMA UdpSoundSuffices == UdpSound => UdpTypeOK
  BY DEF UdpSound, UdpTyped, UdpTypeOK, Typed, DatedCounts, Before

(* Counts: none overstates the packets received and what others have added *)

\* Packets of the source add nothing to what the others have added.
LEMMA DnsAddsNothing == DnsOwn \/ UNCHANGED vars => others' = others
  <1>1. ASSUME NEW c \in CPU, DnsHandle(c) PROVE others' = others
    BY <1>1
       DEF DnsHandle, DnsArrive, BeginWithLookup, DnsStamp, ThenClock, DnsInsert,
           DnsAge, DnsCount, DnsJudge, DnsJudgeSize, DnsDrop, DnsReopen,
           DnsReset
  <1> QED
    BY <1>1 DEF DnsOwn, Evict, Tick, Finished, vars

LEMMA UdpAddsNothing == UdpOwn \/ UNCHANGED vars => others' = others
  <1>1. ASSUME NEW c \in CPU, UdpHandle(c) PROVE others' = others
    BY <1>1
       DEF UdpHandle, UdpArrive, BeginWithClock, UdpLookup, ThenLookup,
           UdpInsert, UdpAge, UdpCount, UdpJudgeRate, UdpJudgeBurst, UdpDrop,
           UdpSlide, UdpReset, UdpReopen
  <1> QED
    BY <1>1 DEF UdpOwn, Evict, Tick, Finished, vars

LEMMA FragAddsNothing == FragOwn \/ UNCHANGED vars => others' = others
  <1>1. ASSUME NEW c \in CPU, FragHandle(c) PROVE others' = others
    BY <1>1
       DEF FragHandle, FragArrive, BeginWithClock, FragLookup, ThenLookup,
           FragInsert, FragAge, FragReset, FragCount, FragDate, FragJudge,
           FragDrop, FragJudgeShape
  <1> QED
    BY <1>1 DEF FragOwn, Evict, Tick, Finished, vars

LEMMA IcmpAddsNothing == IcmpOwn \/ UNCHANGED vars => others' = others
  <1>1. ASSUME NEW c \in CPU, IcmpHandle(c) PROVE others' = others
    BY <1>1
       DEF IcmpHandle, IcmpArrive, BeginWithLookup, IcmpStamp, ThenClock,
           IcmpInsert, IcmpReadDate, IcmpRefill, IcmpTake, IcmpDate, IcmpDrop
  <1> QED
    BY <1>1 DEF IcmpOwn, Evict, Tick, Finished, vars

LEMMA FlowAddsNothing == FlowOwn \/ UNCHANGED vars => others' = others
  <1>1. ASSUME NEW c \in CPU, FlowHandle(c) PROVE others' = others
    BY <1>1
       DEF FlowHandle, FlowArrive, BeginWithClock, FlowAsk, FlowAge, FlowClock,
           FlowLookup, ThenLookup, FlowInsert, FlowLoad, FlowStore, FlowRelink
  <1> QED
    BY <1>1 DEF FlowOwn, Evict, Tick, Finished, vars

\* Where a datagram, a fragment or a packet of a flow has been received and no
\* count accounts for it yet.
Uncharged == {"ask", "answered", "lookup", "insert", "age", "count", "reset",
              "load", "store"}

Owed == {c \in CPU : cpu[c].at \in Uncharged}

\* What there is to count: the packets received, and what the others add.
Charge == Len(received) + others.gain

\* No count, with all the packets that may still be added to it, exceeds that.
Charged == \A e \in Elem : mem[e].count + Cardinality(Owed) <= Charge

\* How many are counted when one may come and one may go.
LEMMA OneMoves ==
  ASSUME NEW A, NEW B, NEW c, IsFiniteSet(A), A \ {c} = B \ {c}
  PROVE  /\ Cardinality(A) \in Nat /\ Cardinality(B) \in Nat
         /\ Cardinality(B) = Cardinality(A) + (IF c \in B THEN 1 ELSE 0)
                                           - (IF c \in A THEN 1 ELSE 0)
  <1>1. Cardinality(A) \in Nat
    BY FS_CardinalityType
  <1>2. CASE c \in A <=> c \in B
    <2>1. A = B
      BY <1>2
    <2> QED
      BY <1>1, <2>1
  <1>3. CASE c \in B /\ c \notin A
    <2>1. B = A \cup {c}
      BY <1>3
    <2>2. Cardinality(B) = Cardinality(A) + 1
      BY <1>3, <2>1, FS_AddElement
    <2> QED
      BY <1>1, <1>3, <2>2
  <1>4. CASE c \in A /\ c \notin B
    <2>1. B = A \ {c}
      BY <1>4
    <2>2. Cardinality(B) = Cardinality(A) - 1 /\ IsFiniteSet(B)
      BY <1>4, <2>1, FS_RemoveElement
    <2>3. Cardinality(B) \in Nat
      BY <2>2, FS_CardinalityType
    <2> QED
      BY <1>1, <1>4, <2>2, <2>3
  <1> QED
    BY <1>2, <1>3, <1>4

\* How the owed packets change when CPU c goes on.
LEMMA OwedStep ==
  ASSUME NEW c \in CPU, \A d \in CPU \ {c} : cpu'[d] = cpu[d]
  PROVE  /\ IsFiniteSet(Owed)
         /\ Cardinality(Owed) \in Nat /\ Cardinality(Owed)' \in Nat
         /\ Cardinality(Owed)' =
              Cardinality(Owed)
                + (IF cpu'[c].at \in Uncharged THEN 1 ELSE 0)
                - (IF cpu[c].at \in Uncharged THEN 1 ELSE 0)
  <1>1. IsFiniteSet(Owed)
    BY LruEntryAssumption, FS_Subset DEF Owed
  <1>2. Owed \ {c} = Owed' \ {c}
    BY DEF Owed
  <1>3. /\ c \in Owed <=> cpu[c].at \in Uncharged
        /\ c \in Owed' <=> cpu'[c].at \in Uncharged
    BY DEF Owed
  <1>4. /\ Cardinality(Owed) \in Nat /\ Cardinality(Owed)' \in Nat
        /\ Cardinality(Owed)' = Cardinality(Owed)
                                  + (IF c \in Owed' THEN 1 ELSE 0)
                                  - (IF c \in Owed THEN 1 ELSE 0)
    BY <1>1, <1>2, OneMoves
  <1> QED
    BY <1>1, <1>3, <1>4

\* A step of CPU c keeps the counts below the packets received when it counts
\* at most one packet, and only one that was owed.
LEMMA ChargedStep ==
  ASSUME NEW S, received \in Seq(S), Charged,
         others.gain \in Nat, others' = others,
         \A e \in Elem : mem[e].count \in Nat /\ mem'[e].count \in Nat,
         NEW c \in CPU, \A d \in CPU \ {c} : cpu'[d] = cpu[d],
         \/ /\ received' = received
            /\ cpu'[c].at \in Uncharged => cpu[c].at \in Uncharged
            /\ \A e \in Elem : mem'[e].count <= mem[e].count
         \/ /\ received' = received
            /\ cpu[c].at \in Uncharged /\ cpu'[c].at \notin Uncharged
            /\ \A e \in Elem : mem'[e].count <= mem[e].count + 1
         \/ /\ \E x : received' = Append(received, x)
            /\ mem' = mem
  PROVE  Charged' /\ Charge' >= Charge
  <1>1. /\ Cardinality(Owed) \in Nat
        /\ Cardinality(Owed)' =
             Cardinality(Owed)
               + (IF cpu'[c].at \in Uncharged THEN 1 ELSE 0)
               - (IF cpu[c].at \in Uncharged THEN 1 ELSE 0)
    BY OwedStep
  <1>2. Len(received) \in Nat
    OBVIOUS
  <1>3. CASE received' = received
    <2>1. Charge \in Nat /\ Charge' = Charge
      BY <1>2, <1>3 DEF Charge
    <2>2. \A x : received' # Append(received, x)
      BY <1>2, <1>3
    <2>3. CASE /\ cpu'[c].at \in Uncharged => cpu[c].at \in Uncharged
               /\ \A e \in Elem : mem'[e].count <= mem[e].count
      <3>1. /\ Cardinality(Owed)' \in Int
            /\ Cardinality(Owed)' <= Cardinality(Owed)
        BY <1>1, <2>3
      <3> QED
        BY <1>1, <2>1, <2>3, <3>1 DEF Charged
    <2>4. CASE /\ cpu[c].at \in Uncharged /\ cpu'[c].at \notin Uncharged
               /\ \A e \in Elem : mem'[e].count <= mem[e].count + 1
      <3>1. Cardinality(Owed)' = Cardinality(Owed) - 1
        BY <1>1, <2>4
      <3>2. ASSUME NEW e \in Elem
            PROVE  mem'[e].count + Cardinality(Owed)' <= Charge
        <4>1. /\ mem[e].count \in Nat /\ mem'[e].count \in Nat
              /\ mem'[e].count <= mem[e].count + 1
              /\ mem[e].count + Cardinality(Owed) <= Charge
          BY <2>4 DEF Charged
        <4> QED
          BY <1>1, <2>1, <3>1, <4>1
      <3> QED
        BY <2>1, <3>2 DEF Charged
    <2> QED
      BY <2>2, <2>3, <2>4
  <1>4. ASSUME NEW x, received' = Append(received, x), mem' = mem
        PROVE  Charged' /\ Charge' >= Charge
    <2>1. Len(received') = Len(received) + 1
      BY <1>4
    <2>2. Charge \in Nat /\ Charge' = Charge + 1
      BY <1>2, <2>1 DEF Charge
    <2>3. /\ Cardinality(Owed)' \in Int
          /\ Cardinality(Owed)' <= Cardinality(Owed) + 1
      BY <1>1
    <2>4. Charged'
      BY <1>1, <1>4, <2>2, <2>3 DEF Charged
    <2> QED
      BY <2>2, <2>4
  <1> QED
    BY <1>3, <1>4

\* The steps of no CPU charge nothing.
LEMMA ChargedOutside ==
  ASSUME Charged, Evict \/ Tick \/ Finished \/ UNCHANGED vars
  PROVE  /\ Charged' /\ Charge' = Charge
         /\ received' = received /\ cpu' = cpu
  <1>1. UNCHANGED <<mem, cpu, received, others>>
    BY DEF Evict, Tick, Finished, vars, history
  <1> QED
    BY <1>1 DEF Charged, Charge, Owed

\* What others store is theirs.
LEMMA ChargedIntrude ==
  ASSUME NEW S, received \in Seq(S), Charged, NEW C, mem \in [Elem -> C],
         others.gain \in Nat, \A e \in Elem : mem[e].count \in Nat,
         NEW e \in Elem, NEW m, NEW t, NEW g \in Nat, m.count \in Nat,
         m.count <= mem[e].count + g, Intrude(e, m, t, g)
  PROVE  Charged' /\ Charge' >= Charge /\ Owed' = Owed /\ cpu' = cpu
  <1>1. /\ UNCHANGED <<cpu, received>> /\ others'.gain = others.gain + g
        /\ mem' = [mem EXCEPT ![e] = m]
    BY DEF Intrude
  <1>2. Owed' = Owed
    BY <1>1 DEF Owed
  <1>3. Cardinality(Owed) \in Nat
    BY LruEntryAssumption, FS_Subset, FS_CardinalityType DEF Owed
  <1>4. Charge \in Nat /\ Charge' = Charge + g
    BY <1>1 DEF Charge
  <1>5. \A f \in Elem : mem'[f].count <= mem[f].count + g /\ mem'[f].count \in Nat
    BY <1>1
  <1> QED
    BY <1>1, <1>2, <1>3, <1>4, <1>5 DEF Charged

LEMMA ChargedInit ==
  ASSUME NEW m, m.count = 0, InitWith(m)
  PROVE  Charged
  <1>1. Owed = {} /\ received = <<>>
    BY DEF InitWith, Idle, Owed, Uncharged
  <1>2. Cardinality(Owed) = 0 /\ Len(received) = 0
    BY <1>1, FS_EmptySet
  <1>3. Charge = 0
    BY <1>2 DEF InitWith, Charge
  <1> QED
    BY <1>2, <1>3 DEF InitWith, Charged

LEMMA LinkCharges ==
  ASSUME NEW C, mem \in [Elem -> C], NEW m, Link(m)
  PROVE  \A e \in Elem : mem'[e] = mem[e] \/ mem'[e] = m
  BY DEF Link

\* A datagram that is found over the burst has been preceded by as many.
UdpCharged ==
  /\ UdpTyped /\ Charged
  /\ \A c \in CPU : At(c, "drop") => Charge > UdpBurst

LEMMA UdpChargedOwn == UdpCharged /\ (UdpOwn \/ UNCHANGED vars) => UdpCharged'
  <1> SUFFICES ASSUME UdpCharged, UdpOwn \/ UNCHANGED vars PROVE UdpCharged'
    OBVIOUS
  <1>0. UdpOwn \/ UNCHANGED vars
    OBVIOUS
  <1>1. UdpTyped' /\ UdpTyped
    BY UdpTypesStep DEF UdpCharged, UdpNext
  <1>2. /\ Typed(UdpPacket, DatedCounts, UdpLabel, Before) /\ Charged
        /\ mem \in [Elem -> DatedCounts] /\ mem' \in [Elem -> DatedCounts]
        /\ cpu \in [CPU -> CpuStates(UdpPacket, UdpLabel)]
        /\ received \in Seq(Dated(UdpPacket)) /\ received' \in Seq(Dated(UdpPacket))
        /\ Charge \in Nat /\ Charge' \in Nat
        /\ others' = others /\ others.gain \in Nat
        /\ \A c \in CPU : At(c, "drop") => Charge > UdpBurst
    BY <1>0, <1>1, UdpAddsNothing DEF UdpCharged, UdpTyped, Typed, TypesOK, Charge
  <1>3. \A e \in Elem : mem[e].count \in Nat /\ mem'[e].count \in Nat
    BY <1>2 DEF DatedCounts
  <1>4. ASSUME Charged', Charge' >= Charge,
               NEW c \in CPU, \A d \in CPU \ {c} : cpu'[d] = cpu[d],
               At(c, "drop")' => Charge' > UdpBurst
        PROVE  UdpCharged'
    BY <1>1, <1>2, <1>4, UdpFloodAssumption DEF UdpCharged, At
  <1>5. ASSUME NEW c \in CPU, NEW p \in UdpPacket, UdpArrive(c, p)
        PROVE  UdpCharged'
    <2>1. /\ \A d \in CPU \ {c} : cpu'[d] = cpu[d]
          /\ \E x : received' = Append(received, x)
          /\ mem' = mem /\ ~ At(c, "drop")'
      BY <1>2, <1>5 DEF UdpArrive, BeginWithClock, At
    <2> QED
      BY <1>2, <1>3, <1>4, <2>1, ChargedStep
  <1>6. ASSUME NEW c \in CPU, UdpLookup(c) PROVE UdpCharged'
    <2>1. /\ \A d \in CPU \ {c} : cpu'[d] = cpu[d]
          /\ cpu[c].at \in Uncharged
          /\ received' = received
          /\ mem' = mem /\ ~ At(c, "drop")'
      BY <1>2, <1>6
         DEF UdpLookup, ThenLookup, At, CpuStates, Uncharged, history
    <2>2. \A e \in Elem : mem'[e].count <= mem[e].count
      BY <1>3, <2>1
    <2> QED
      BY <1>2, <1>3, <1>4, <2>1, <2>2, ChargedStep
  <1>7. ASSUME NEW c \in CPU, UdpAge(c) \/ UdpJudgeRate(c) PROVE UdpCharged'
    <2>1. /\ \A d \in CPU \ {c} : cpu'[d] = cpu[d]
          /\ cpu'[c].at \in Uncharged => cpu[c].at \in Uncharged
          /\ ~ At(c, "drop")'
      BY <1>2, <1>7
         DEF UdpAge, UdpJudgeRate, Goto, GotoWith, At, CpuStates, Uncharged
    <2>2. received' = received /\ mem' = mem
      BY <1>7 DEF UdpAge, UdpJudgeRate, history
    <2>3. \A e \in Elem : mem'[e].count <= mem[e].count
      BY <1>3, <2>2
    <2> QED
      BY <1>2, <1>3, <1>4, <2>1, <2>2, <2>3, ChargedStep
  <1>8. ASSUME NEW c \in CPU, UdpJudgeBurst(c) PROVE UdpCharged'
    <2>1. /\ \A d \in CPU \ {c} : cpu'[d] = cpu[d]
          /\ cpu'[c].at \notin Uncharged
          /\ received' = received /\ mem' = mem
          /\ At(c, "drop")' => UdpOverBurst(mem[cpu[c].elem].count)
      BY <1>2, <1>8
         DEF UdpJudgeBurst, Goto, At, CpuStates, Uncharged, history
    <2>2. \A e \in Elem : mem'[e].count <= mem[e].count
      BY <1>3, <2>1
    <2>3. cpu[c].elem \in Elem
      BY <1>2, <1>8 DEF UdpJudgeBurst, Typed, Before, At
    <2>4. mem[cpu[c].elem].count <= Charge
      <3>1. Cardinality(Owed) \in Nat
        BY <2>1, OwedStep
      <3> QED
        BY <1>2, <1>3, <2>3, <3>1 DEF Charged
    <2>5. Charge' = Charge
      BY <1>2, <2>1 DEF Charge
    <2>6. At(c, "drop")' => Charge' > UdpBurst
      BY <1>2, <1>3, <2>1, <2>3, <2>4, <2>5, UdpFloodAssumption DEF UdpOverBurst
    <2> QED
      BY <1>2, <1>3, <1>4, <2>1, <2>2, <2>6, ChargedStep
  <1>9. ASSUME NEW c \in CPU, UdpDrop(c) \/ UdpSlide(c) \/ UdpReopen(c)
        PROVE  UdpCharged'
    <2>1. Return(c)
      BY <1>9 DEF UdpDrop, UdpSlide, UdpReopen, UdpPass
    <2>2. /\ \A d \in CPU \ {c} : cpu'[d] = cpu[d]
          /\ cpu'[c].at \notin Uncharged /\ ~ At(c, "drop")'
      BY <1>2, <2>1 DEF Return, Idle, At, Uncharged
    <2>3. received' = received
      BY <1>9 DEF UdpDrop, UdpSlide, UdpReopen, history
    <2>4. \A e \in Elem : mem'[e].count <= mem[e].count
      <3>1. CASE UdpDrop(c)
        BY <1>3, <3>1 DEF UdpDrop
      <3>2. CASE UdpSlide(c) \/ UdpReopen(c)
        <4>1. mem' = [mem EXCEPT ![cpu[c].elem].last = cpu[c].now]
          BY <3>2 DEF UdpSlide, UdpReopen
        <4> QED
          BY <1>2, <1>3, <4>1 DEF DatedCounts
      <3> QED
        BY <1>9, <3>1, <3>2
    <2> QED
      BY <1>2, <1>3, <1>4, <2>2, <2>3, <2>4, ChargedStep
  <1>10. ASSUME NEW c \in CPU, UdpInsert(c) \/ UdpCount(c) \/ UdpReset(c)
         PROVE  UdpCharged'
    <2>1. \/ Return(c)
          \/ \E label \in {"pps", "slide", "reopen"} : Goto(c, label)
      BY <1>10 DEF UdpInsert, UdpPass, UdpCount, UdpReset
    <2>2. /\ \A d \in CPU \ {c} : cpu'[d] = cpu[d]
          /\ cpu'[c].at \notin Uncharged /\ ~ At(c, "drop")'
      BY <1>2, <2>1 DEF Return, Goto, Idle, At, CpuStates, Uncharged
    <2>3. received' = received /\ cpu[c].at \in Uncharged
      BY <1>10 DEF UdpInsert, UdpCount, UdpReset, Uncharged, At, history
    <2>4. \A e \in Elem : mem'[e].count <= mem[e].count + 1
      <3>1. CASE UdpInsert(c)
        <4>1. \A e \in Elem : \/ mem'[e] = mem[e]
                              \/ mem'[e] = [last |-> cpu[c].now, count |-> 1]
          BY <1>2, <3>1, LinkCharges DEF UdpInsert
        <4>2. [last |-> cpu[c].now, count |-> 1].count = 1
          OBVIOUS
        <4> QED
          BY <1>3, <4>1, <4>2
      <3>2. CASE UdpCount(c)
        BY <1>2, <1>3, <3>2 DEF UdpCount, DatedCounts
      <3>3. CASE UdpReset(c)
        BY <1>2, <1>3, <3>3 DEF UdpReset, DatedCounts
      <3> QED
        BY <1>10, <3>1, <3>2, <3>3
    <2> QED
      BY <1>2, <1>3, <1>4, <2>2, <2>3, <2>4, ChargedStep
  <1>11. CASE Evict \/ Tick \/ Finished \/ UNCHANGED vars
    BY <1>1, <1>2, <1>11, ChargedOutside DEF UdpCharged, At
  <1> QED
    BY <1>5, <1>6, <1>7, <1>8, <1>9, <1>10, <1>11 DEF UdpOwn, UdpHandle

LEMMA UdpChargedStep == UdpCharged /\ [UdpNext]_vars => UdpCharged'
  <1> SUFFICES ASSUME UdpCharged, [UdpNext]_vars PROVE UdpCharged'
    OBVIOUS
  <1>1. UdpTyped'
    BY UdpTypesStep DEF UdpCharged
  <1>2. /\ mem \in [Elem -> DatedCounts] /\ clock \in Time
        /\ received \in Seq(Dated(UdpPacket)) /\ others.gain \in Nat /\ Charged
        /\ \A e \in Elem : mem[e].count \in Nat
    BY DEF UdpCharged, UdpTyped, Typed, TypesOK, DatedCounts
  <1>3. Charge \in Nat /\ Charge' \in Nat
    BY <1>1 DEF UdpCharged, UdpTyped, Typed, TypesOK, Charge
  <1>4. CASE UdpIntrude
    <2>1. PICK e \in Elem, t \in 0 .. clock, n \in Foreign :
            Intrude(e, [last |-> t, count |-> n], t, Gain(n, mem[e].count))
      BY <1>4 DEF UdpIntrude
    <2>2. n \in Nat /\ mem[e].count \in Nat
      BY <1>2, LruEntryAssumption
    <2>3. /\ Gain(n, mem[e].count) \in Nat
          /\ n <= mem[e].count + Gain(n, mem[e].count)
      BY <2>2, GainIs
    <2>4. Charged' /\ Charge' >= Charge /\ Owed' = Owed /\ cpu' = cpu
      <3> DEFINE m == [last |-> t, count |-> n]
      <3>1. m.count = n
        OBVIOUS
      <3> HIDE DEF m
      <3>2. Intrude(e, m, t, Gain(n, mem[e].count))
        BY <2>1 DEF m
      <3> QED
        BY <1>2, <2>2, <2>3, <3>1, <3>2, ChargedIntrude
    <2> QED
      <3>1. ASSUME NEW c \in CPU, At(c, "drop")' PROVE Charge' > UdpBurst
        BY <1>3, <2>4, <3>1, UdpFloodAssumption DEF UdpCharged, At
      <3> QED
        BY <1>1, <2>4, <3>1 DEF UdpCharged
  <1> QED
    BY <1>4, UdpChargedOwn DEF UdpNext

LEMMA UdpChargedInit == UdpInit => UdpCharged
  <1>1. UdpInit => \A c \in CPU : ~ At(c, "drop")
    BY DEF UdpInit, InitWith, Idle, At
  <1> QED
    BY <1>1, UdpTypesInit, ChargedInit DEF UdpCharged, UdpInit

\* A fragment that is found over the count has been preceded by as many.
FragCharged ==
  /\ FragTyped /\ Charged
  /\ \A c \in CPU : At(c, "drop") => Charge > MaxFrags

LEMMA FragChargedOwn == FragCharged /\ (FragOwn \/ UNCHANGED vars) => FragCharged'
  <1> SUFFICES ASSUME FragCharged, FragOwn \/ UNCHANGED vars PROVE FragCharged'
    OBVIOUS
  <1>0. FragOwn \/ UNCHANGED vars
    OBVIOUS
  <1>1. FragTyped' /\ FragTyped
    BY FragTypesStep DEF FragCharged, FragNext
  <1>2. /\ Typed(FragPacket, DatedCounts, FragLabel, FragBefore) /\ Charged
        /\ mem \in [Elem -> DatedCounts] /\ mem' \in [Elem -> DatedCounts]
        /\ cpu \in [CPU -> CpuStates(FragPacket, FragLabel)]
        /\ received \in Seq(Dated(FragPacket))
        /\ received' \in Seq(Dated(FragPacket))
        /\ Charge \in Nat /\ Charge' \in Nat
        /\ others' = others /\ others.gain \in Nat
        /\ \A c \in CPU : At(c, "drop") => Charge > MaxFrags
    BY <1>0, <1>1, FragAddsNothing DEF FragCharged, FragTyped, Typed, TypesOK, Charge
  <1>3. \A e \in Elem : mem[e].count \in Nat /\ mem'[e].count \in Nat
    BY <1>2 DEF DatedCounts
  <1>4. ASSUME Charged', Charge' >= Charge,
               NEW c \in CPU, \A d \in CPU \ {c} : cpu'[d] = cpu[d],
               At(c, "drop")' => Charge' > MaxFrags
        PROVE  FragCharged'
    BY <1>1, <1>2, <1>4, FragTrackAssumption DEF FragCharged, At
  <1>5. ASSUME NEW c \in CPU, NEW p \in FragPacket, FragArrive(c, p)
        PROVE  FragCharged'
    <2>1. /\ \A d \in CPU \ {c} : cpu'[d] = cpu[d]
          /\ \E x : received' = Append(received, x)
          /\ mem' = mem /\ ~ At(c, "drop")'
      BY <1>2, <1>5 DEF FragArrive, BeginWithClock, At
    <2> QED
      BY <1>2, <1>3, <1>4, <2>1, ChargedStep
  <1>6. ASSUME NEW c \in CPU, FragLookup(c) \/ FragAge(c) \/ FragDate(c)
        PROVE  FragCharged'
    <2>1. /\ \A d \in CPU \ {c} : cpu'[d] = cpu[d]
          /\ cpu'[c].at \in Uncharged => cpu[c].at \in Uncharged
          /\ ~ At(c, "drop")'
      BY <1>2, <1>6
         DEF FragLookup, ThenLookup, FragAge, FragDate, Goto, At, CpuStates,
             Uncharged
    <2>2. received' = received
      BY <1>6 DEF FragLookup, ThenLookup, FragAge, FragDate, history
    <2>3. \A e \in Elem : mem'[e].count <= mem[e].count
      <3>1. CASE FragLookup(c) \/ FragAge(c)
        BY <1>3, <3>1 DEF FragLookup, ThenLookup, FragAge
      <3>2. CASE FragDate(c)
        BY <1>2, <1>3, <3>2 DEF FragDate, DatedCounts
      <3> QED
        BY <1>6, <3>1, <3>2
    <2> QED
      BY <1>2, <1>3, <1>4, <2>1, <2>2, <2>3, ChargedStep
  <1>7. ASSUME NEW c \in CPU, FragJudge(c) PROVE FragCharged'
    <2>1. /\ \A d \in CPU \ {c} : cpu'[d] = cpu[d]
          /\ cpu'[c].at \notin Uncharged
          /\ received' = received /\ mem' = mem
          /\ At(c, "drop")' => FragTooMany(mem[cpu[c].elem].count)
      BY <1>2, <1>7 DEF FragJudge, Goto, At, CpuStates, Uncharged, history
    <2>2. \A e \in Elem : mem'[e].count <= mem[e].count
      BY <1>3, <2>1
    <2>3. cpu[c].elem \in Elem
      BY <1>2, <1>7 DEF FragJudge, Typed, FragBefore, Before, At
    <2>4. mem[cpu[c].elem].count <= Charge
      <3>1. Cardinality(Owed) \in Nat
        BY <2>1, OwedStep
      <3> QED
        BY <1>2, <1>3, <2>3, <3>1 DEF Charged
    <2>5. Charge' = Charge
      BY <1>2, <2>1 DEF Charge
    <2>6. At(c, "drop")' => Charge' > MaxFrags
      BY <1>2, <1>3, <2>1, <2>3, <2>4, <2>5, FragTrackAssumption DEF FragTooMany
    <2> QED
      BY <1>2, <1>3, <1>4, <2>1, <2>2, <2>6, ChargedStep
  <1>8. ASSUME NEW c \in CPU, FragDrop(c) \/ FragJudgeShape(c)
        PROVE  FragCharged'
    <2>1. Return(c) /\ received' = received /\ mem' = mem
      BY <1>8 DEF FragDrop, FragJudgeShape, history
    <2>2. /\ \A d \in CPU \ {c} : cpu'[d] = cpu[d]
          /\ cpu'[c].at \notin Uncharged /\ ~ At(c, "drop")'
      BY <1>2, <2>1 DEF Return, Idle, At, Uncharged
    <2>3. \A e \in Elem : mem'[e].count <= mem[e].count
      BY <1>3, <2>1
    <2> QED
      BY <1>2, <1>3, <1>4, <2>1, <2>2, <2>3, ChargedStep
  <1>9. ASSUME NEW c \in CPU, FragInsert(c) \/ FragReset(c) \/ FragCount(c)
        PROVE  FragCharged'
    <2>1. Goto(c, "shape") \/ Goto(c, "date")
      BY <1>9 DEF FragInsert, FragReset, FragCount
    <2>2. /\ \A d \in CPU \ {c} : cpu'[d] = cpu[d]
          /\ cpu'[c].at \notin Uncharged /\ ~ At(c, "drop")'
      BY <1>2, <2>1 DEF Goto, At, CpuStates, Uncharged
    <2>3. received' = received /\ cpu[c].at \in Uncharged
      BY <1>9 DEF FragInsert, FragReset, FragCount, Uncharged, At, history
    <2>4. \A e \in Elem : mem'[e].count <= mem[e].count + 1
      <3>1. CASE FragInsert(c)
        <4>1. \A e \in Elem : \/ mem'[e] = mem[e]
                              \/ mem'[e] = [last |-> cpu[c].now, count |-> 1]
          BY <1>2, <3>1, LinkCharges DEF FragInsert
        <4>2. [last |-> cpu[c].now, count |-> 1].count = 1
          OBVIOUS
        <4> QED
          BY <1>3, <4>1, <4>2
      <3>2. CASE FragReset(c)
        BY <1>2, <1>3, <3>2 DEF FragReset, DatedCounts
      <3>3. CASE FragCount(c)
        BY <1>2, <1>3, <3>3 DEF FragCount, DatedCounts
      <3> QED
        BY <1>9, <3>1, <3>2, <3>3
    <2> QED
      BY <1>2, <1>3, <1>4, <2>2, <2>3, <2>4, ChargedStep
  <1>10. CASE Evict \/ Tick \/ Finished \/ UNCHANGED vars
    BY <1>1, <1>2, <1>10, ChargedOutside DEF FragCharged, At
  <1> QED
    BY <1>5, <1>6, <1>7, <1>8, <1>9, <1>10 DEF FragOwn, FragHandle

LEMMA FragChargedStep == FragCharged /\ [FragNext]_vars => FragCharged'
  <1> SUFFICES ASSUME FragCharged, [FragNext]_vars PROVE FragCharged'
    OBVIOUS
  <1>1. FragTyped'
    BY FragTypesStep DEF FragCharged
  <1>2. /\ mem \in [Elem -> DatedCounts] /\ clock \in Time
        /\ received \in Seq(Dated(FragPacket)) /\ others.gain \in Nat /\ Charged
        /\ \A e \in Elem : mem[e].count \in Nat
    BY DEF FragCharged, FragTyped, Typed, TypesOK, DatedCounts
  <1>3. Charge \in Nat /\ Charge' \in Nat
    BY <1>1 DEF FragCharged, FragTyped, Typed, TypesOK, Charge
  <1>4. CASE FragIntrude
    <2>1. PICK e \in Elem, t \in 0 .. clock, n \in Foreign :
            Intrude(e, [last |-> t, count |-> n], t, Gain(n, mem[e].count))
      BY <1>4 DEF FragIntrude
    <2>2. n \in Nat /\ mem[e].count \in Nat
      BY <1>2, LruEntryAssumption
    <2>3. /\ Gain(n, mem[e].count) \in Nat
          /\ n <= mem[e].count + Gain(n, mem[e].count)
      BY <2>2, GainIs
    <2>4. Charged' /\ Charge' >= Charge /\ Owed' = Owed /\ cpu' = cpu
      <3> DEFINE m == [last |-> t, count |-> n]
      <3>1. m.count = n
        OBVIOUS
      <3> HIDE DEF m
      <3>2. Intrude(e, m, t, Gain(n, mem[e].count))
        BY <2>1 DEF m
      <3> QED
        BY <1>2, <2>2, <2>3, <3>1, <3>2, ChargedIntrude
    <2> QED
      <3>1. ASSUME NEW c \in CPU, At(c, "drop")' PROVE Charge' > MaxFrags
        BY <1>3, <2>4, <3>1, FragTrackAssumption DEF FragCharged, At
      <3> QED
        BY <1>1, <2>4, <3>1 DEF FragCharged
  <1> QED
    BY <1>4, FragChargedOwn DEF FragNext

LEMMA FragChargedInit == FragInit => FragCharged
  <1>1. FragInit => \A c \in CPU : ~ At(c, "drop")
    BY DEF FragInit, InitWith, Idle, At
  <1> QED
    BY <1>1, FragTypesInit, ChargedInit DEF FragCharged, FragInit

\* The counters of a flow may be lost or linked again, but neither they nor a
\* copy that a CPU is about to store overstate the packets of the flow.
FlowCharged ==
  /\ FlowTyped /\ Charged
  /\ \A c \in CPU : At(c, "store") =>
       cpu[c].arg + Cardinality(Owed) <= Charge

LEMMA FlowChargedOwn == FlowCharged /\ (FlowOwn \/ UNCHANGED vars) => FlowCharged'
  <1> SUFFICES ASSUME FlowCharged, FlowOwn \/ UNCHANGED vars PROVE FlowCharged'
    OBVIOUS
  <1>0. FlowOwn \/ UNCHANGED vars
    OBVIOUS
  <1>1. FlowTyped' /\ FlowTyped
    BY FlowTypesStep DEF FlowCharged, FlowNext
  <1>2. /\ Typed(FlowPacket, FlowCounts, FlowLabel, FlowBefore) /\ Charged
        /\ mem \in [Elem -> FlowCounts] /\ mem' \in [Elem -> FlowCounts]
        /\ cpu \in [CPU -> CpuStates(FlowPacket, FlowLabel)]
        /\ received \in Seq(Dated(FlowPacket))
        /\ received' \in Seq(Dated(FlowPacket))
        /\ Charge \in Nat /\ Charge' \in Nat
        /\ others' = others /\ others.gain \in Nat
        /\ \A c \in CPU : At(c, "store") =>
             cpu[c].arg + Cardinality(Owed) <= Charge
    BY <1>0, <1>1, FlowAddsNothing DEF FlowCharged, FlowTyped, Typed, TypesOK, Charge
  <1>3. /\ \A e \in Elem : mem[e].count \in Nat /\ mem'[e].count \in Nat
        /\ \A c \in CPU : cpu[c].arg \in Nat
    BY <1>2 DEF FlowCounts, CpuStates
  <1>4. ASSUME NEW c \in CPU, \A d \in CPU \ {c} : cpu'[d] = cpu[d],
               \/ /\ received' = received
                  /\ cpu'[c].at \in Uncharged => cpu[c].at \in Uncharged
                  /\ \A e \in Elem : mem'[e].count + Cardinality(Owed)' <= Charge
               \/ /\ \E x : received' = Append(received, x)
                  /\ cpu'[c].at \in Uncharged /\ cpu[c].at \notin Uncharged
                  /\ mem' = mem,
               At(c, "store")' =>
                 cpu'[c].arg + Cardinality(Owed)' <= Charge'
        PROVE  FlowCharged'
    <2>1. /\ Cardinality(Owed) \in Nat
          /\ Cardinality(Owed)' =
               Cardinality(Owed)
                 + (IF cpu'[c].at \in Uncharged THEN 1 ELSE 0)
                 - (IF cpu[c].at \in Uncharged THEN 1 ELSE 0)
      BY <1>4, OwedStep
    <2>2. Cardinality(Owed)' - Cardinality(Owed) <= Charge' - Charge
      <3>1. CASE received' = received
        BY <1>2, <1>4, <2>1, <3>1 DEF Charge
      <3>2. CASE \E x : received' = Append(received, x)
        BY <1>2, <1>4, <2>1, <3>2 DEF Charge
      <3> QED
        BY <1>4, <3>1, <3>2
    <2>3. Charged'
      <3>1. CASE mem' = mem
        BY <1>2, <1>3, <2>1, <2>2, <3>1 DEF Charged
      <3>2. CASE received' = received /\ \A e \in Elem :
                   mem'[e].count + Cardinality(Owed)' <= Charge
        BY <1>2, <3>2 DEF Charged, Charge
      <3> QED
        BY <1>4, <3>1, <3>2
    <2>4. ASSUME NEW d \in CPU, At(d, "store")'
          PROVE  cpu'[d].arg + Cardinality(Owed)' <= Charge'
      <3>1. CASE d = c
        BY <1>4, <2>4, <3>1
      <3>2. CASE d # c
        BY <1>2, <1>3, <1>4, <2>1, <2>2, <2>4, <3>2 DEF At
      <3> QED
        BY <3>1, <3>2
    <2> QED
      BY <1>1, <2>3, <2>4 DEF FlowCharged
  <1>5. ASSUME NEW c \in CPU, \A d \in CPU \ {c} : cpu'[d] = cpu[d]
        PROVE  /\ Cardinality(Owed) \in Nat /\ Cardinality(Owed)' \in Nat
               /\ Cardinality(Owed)' =
                    Cardinality(Owed)
                      + (IF cpu'[c].at \in Uncharged THEN 1 ELSE 0)
                      - (IF cpu[c].at \in Uncharged THEN 1 ELSE 0)
               /\ \A e \in Elem : mem[e].count + Cardinality(Owed) <= Charge
               /\ cpu[c].at \in Uncharged => Cardinality(Owed) # 0
    <2>1. c \in Owed => Cardinality(Owed) # 0
      BY <1>5, OwedStep, FS_EmptySet
    <2> QED
      BY <1>2, <1>5, <2>1, OwedStep DEF Charged, Owed
  <1>6. ASSUME NEW c \in CPU, NEW p \in FlowPacket, FlowArrive(c, p)
        PROVE  FlowCharged'
    <2>1. /\ \A d \in CPU \ {c} : cpu'[d] = cpu[d]
          /\ \E x : received' = Append(received, x)
          /\ cpu'[c].at \in Uncharged /\ cpu[c].at \notin Uncharged
          /\ mem' = mem /\ ~ At(c, "store")'
      BY <1>2, <1>6 DEF FlowArrive, BeginWithClock, At, Uncharged
    <2> QED
      BY <1>4, <2>1
  <1>7. ASSUME NEW c \in CPU,
               FlowAsk(c) \/ FlowAge(c) \/ FlowClock(c) \/ FlowLookup(c)
        PROVE  FlowCharged'
    <2>1. /\ \A d \in CPU \ {c} : cpu'[d] = cpu[d]
          /\ cpu'[c].at \in Uncharged /\ cpu[c].at \in Uncharged
          /\ ~ At(c, "store")'
      BY <1>2, <1>7
         DEF FlowAsk, FlowAge, FlowClock, FlowLookup, ThenLookup, GotoWith, At,
             CpuStates, Uncharged
    <2>2. received' = received /\ mem' = mem
      BY <1>7 DEF FlowAsk, FlowAge, FlowClock, FlowLookup, ThenLookup, history
    <2>3. \A e \in Elem : mem'[e].count + Cardinality(Owed)' <= Charge
      BY <1>3, <1>5, <2>1, <2>2
    <2> QED
      BY <1>4, <2>1, <2>2, <2>3
  <1>8. ASSUME NEW c \in CPU, FlowLoad(c) PROVE FlowCharged'
    <2>1. /\ \A d \in CPU \ {c} : cpu'[d] = cpu[d]
          /\ cpu'[c].at \in Uncharged /\ cpu[c].at \in Uncharged
          /\ cpu'[c].arg = mem[cpu[c].elem].count
      BY <1>2, <1>8 DEF FlowLoad, GotoWith, At, CpuStates, Uncharged
    <2>2. received' = received /\ mem' = mem
      BY <1>8 DEF FlowLoad, history
    <2>3. cpu[c].elem \in Elem
      BY <1>2, <1>8 DEF FlowLoad, Typed, FlowBefore, At
    <2>4. \A e \in Elem : mem[e].count + Cardinality(Owed)' <= Charge
      BY <1>3, <1>5, <2>1
    <2>5. cpu'[c].arg + Cardinality(Owed)' <= Charge' /\ Charge' = Charge
      BY <1>2, <2>1, <2>2, <2>3, <2>4 DEF Charge
    <2> QED
      BY <1>4, <2>1, <2>2, <2>4, <2>5
  <1>9. ASSUME NEW c \in CPU, FlowInsert(c) PROVE FlowCharged'
    <2>1. /\ \A d \in CPU \ {c} : cpu'[d] = cpu[d]
          /\ cpu'[c].at \notin Uncharged /\ cpu[c].at \in Uncharged
          /\ ~ At(c, "store")' /\ received' = received
      BY <1>2, <1>9 DEF FlowInsert, FlowPass, Return, Idle, At, Uncharged
    <2>2. \A e \in Elem : mem'[e].count <= mem[e].count + 1
      <3>1. \A e \in Elem : \/ mem'[e] = mem[e]
                            \/ mem'[e] = [start |-> cpu[c].now, count |-> 1]
        BY <1>2, <1>9, LinkCharges DEF FlowInsert, FlowCounters
      <3>2. [start |-> cpu[c].now, count |-> 1].count = 1
        OBVIOUS
      <3> QED
        BY <1>3, <3>1, <3>2
    <2>3. /\ Cardinality(Owed) \in Nat
          /\ Cardinality(Owed)' = Cardinality(Owed) - 1
          /\ \A e \in Elem : mem[e].count + Cardinality(Owed) <= Charge
      BY <1>5, <2>1
    <2>4. ASSUME NEW e \in Elem
          PROVE  mem'[e].count + Cardinality(Owed)' <= Charge
      <3>1. /\ mem[e].count \in Nat /\ mem'[e].count \in Nat
            /\ mem'[e].count <= mem[e].count + 1
            /\ mem[e].count + Cardinality(Owed) <= Charge
        BY <1>3, <2>2, <2>3
      <3> QED
        BY <1>2, <2>3, <3>1
    <2> QED
      BY <1>4, <2>1, <2>4
  <1>10. ASSUME NEW c \in CPU, FlowStore(c) PROVE FlowCharged'
    <2>1. /\ \A d \in CPU \ {c} : cpu'[d] = cpu[d]
          /\ cpu'[c].at \notin Uncharged /\ cpu[c].at \in Uncharged
          /\ ~ At(c, "store")' /\ received' = received
      BY <1>2, <1>10 DEF FlowStore, Goto, At, CpuStates, Uncharged, history
    <2>2. cpu[c].arg + Cardinality(Owed) <= Charge
      BY <1>2, <1>10 DEF FlowStore
    <2>3. \A e \in Elem : \/ mem'[e].count = mem[e].count
                          \/ mem'[e].count = cpu[c].arg + 1
      BY <1>2, <1>10 DEF FlowStore, FlowCounts
    <2>4. Cardinality(Owed)' = Cardinality(Owed) - 1 /\ Cardinality(Owed) \in Nat
      BY <1>5, <2>1
    <2>5. \A e \in Elem : mem[e].count + Cardinality(Owed)' <= Charge
      BY <1>2, <1>3, <1>5, <2>1, <2>4
    <2>6. cpu[c].arg + 1 + Cardinality(Owed)' <= Charge
      BY <1>2, <1>3, <2>2, <2>4
    <2>7. \A e \in Elem : mem'[e].count + Cardinality(Owed)' <= Charge
      BY <2>3, <2>5, <2>6
    <2> QED
      BY <1>4, <2>1, <2>7
  <1>11. ASSUME NEW c \in CPU, FlowRelink(c) PROVE FlowCharged'
    <2>1. /\ \A d \in CPU \ {c} : cpu'[d] = cpu[d]
          /\ cpu'[c].at \notin Uncharged /\ cpu[c].at \notin Uncharged
          /\ ~ At(c, "store")' /\ received' = received
      BY <1>2, <1>11 DEF FlowRelink, FlowPass, Return, Idle, At, Uncharged
    <2>2. cpu[c].elem \in Elem
      BY <1>2, <1>11 DEF FlowRelink, Typed, FlowBefore, At
    <2>3. \A e \in Elem : mem'[e] = mem[e] \/ mem'[e] = mem[cpu[c].elem]
      BY <1>2, <1>11, LinkCharges DEF FlowRelink
    <2>4. Cardinality(Owed)' = Cardinality(Owed) /\ Cardinality(Owed) \in Nat
      BY <1>5, <2>1
    <2>5. \A e \in Elem : mem[e].count + Cardinality(Owed)' <= Charge
      BY <1>5, <2>1, <2>4
    <2>6. \A e \in Elem : mem'[e].count + Cardinality(Owed)' <= Charge
      BY <2>2, <2>3, <2>5
    <2> QED
      BY <1>4, <2>1, <2>6
  <1>12. CASE Evict \/ Tick \/ Finished \/ UNCHANGED vars
    <2>1. /\ Charged' /\ Charge' = Charge
          /\ received' = received /\ cpu' = cpu
      BY <1>2, <1>12, ChargedOutside
    <2>2. Owed' = Owed
      BY <2>1 DEF Owed
    <2> QED
      BY <1>1, <1>2, <2>1, <2>2 DEF FlowCharged, At
  <1> QED
    BY <1>6, <1>7, <1>8, <1>9, <1>10, <1>11, <1>12 DEF FlowOwn, FlowHandle

LEMMA FlowChargedStep == FlowCharged /\ [FlowNext]_vars => FlowCharged'
  <1> SUFFICES ASSUME FlowCharged, [FlowNext]_vars PROVE FlowCharged'
    OBVIOUS
  <1>1. FlowTyped'
    BY FlowTypesStep DEF FlowCharged
  <1>2. /\ mem \in [Elem -> FlowCounts] /\ clock \in Time
        /\ received \in Seq(Dated(FlowPacket)) /\ others.gain \in Nat /\ Charged
        /\ \A e \in Elem : mem[e].count \in Nat
    BY DEF FlowCharged, FlowTyped, Typed, TypesOK, FlowCounts
  <1>3. Charge \in Nat /\ Charge' \in Nat
    BY <1>1 DEF FlowCharged, FlowTyped, Typed, TypesOK, Charge
  <1>4. CASE FlowIntrude
    <2>1. PICK e \in Elem, t \in 0 .. clock, n \in Foreign :
            Intrude(e, [start |-> t, count |-> n], t, Gain(n, mem[e].count))
      BY <1>4 DEF FlowIntrude
    <2>2. n \in Nat /\ mem[e].count \in Nat
      BY <1>2, LruEntryAssumption
    <2>3. /\ Gain(n, mem[e].count) \in Nat
          /\ n <= mem[e].count + Gain(n, mem[e].count)
      BY <2>2, GainIs
    <2>4. Charged' /\ Charge' >= Charge /\ Owed' = Owed /\ cpu' = cpu
      <3> DEFINE m == [start |-> t, count |-> n]
      <3>1. m.count = n
        OBVIOUS
      <3> HIDE DEF m
      <3>2. Intrude(e, m, t, Gain(n, mem[e].count))
        BY <2>1 DEF m
      <3> QED
        BY <1>2, <2>2, <2>3, <3>1, <3>2, ChargedIntrude
    <2> QED
      <3>1. ASSUME NEW c \in CPU, At(c, "store")'
            PROVE  cpu'[c].arg + Cardinality(Owed)' <= Charge'
        <4>1. /\ cpu[c].arg + Cardinality(Owed) <= Charge
              /\ cpu'[c].arg = cpu[c].arg /\ Cardinality(Owed)' = Cardinality(Owed)
          BY <2>4, <3>1 DEF FlowCharged, At
        <4>2. cpu[c].arg \in Nat /\ Cardinality(Owed) \in Nat
          BY LruEntryAssumption, FS_Subset, FS_CardinalityType
             DEF FlowCharged, FlowTyped, Typed, TypesOK, CpuStates, Owed
        <4> QED
          BY <1>3, <2>4, <4>1, <4>2
      <3> QED
        BY <1>1, <2>4, <3>1 DEF FlowCharged
  <1> QED
    BY <1>4, FlowChargedOwn DEF FlowNext

LEMMA FlowChargedInit == FlowInit => FlowCharged
  <1>1. FlowInit => \A c \in CPU : ~ At(c, "store")
    BY DEF FlowInit, InitWith, Idle, At
  <1> QED
    BY <1>1, FlowTypesInit, ChargedInit DEF FlowCharged, FlowInit

LEMMA FlowChargedSuffices == FlowCharged => FlowNotOvercounted
  <1> SUFFICES ASSUME FlowCharged, entry # NoElem
               PROVE  mem[entry].count <= Charge
    BY DEF FlowNotOvercounted, Charge
  <1>1. /\ entry \in Elem /\ mem[entry].count \in Nat
        /\ mem[entry].count + Cardinality(Owed) <= Charge
        /\ Charge \in Nat
    BY DEF Charge, FlowCharged, FlowTyped, Typed, TypesOK, FlowCounts, Charged
  <1>2. Cardinality(Owed) \in Nat
    BY LruEntryAssumption, FS_Subset, FS_CardinalityType DEF Owed
  <1> QED
    BY <1>1, <1>2

-----------------------------------------------------------------------------
(* ICMP: the tokens of a bucket and the packets that may have taken one *)

\* ICMP packets that have been received and neither taken a token nor left.
Unserved == {"insert", "elapsed", "tokens", "store", "drop"}

Waiting == {c \in CPU : cpu[c].at \in Unserved}

\* The packets served, the first of which took no token, and the tokens that
\* others have taken.
Served == Charge - Cardinality(Waiting)

\* Every bucket in use, and every copy a CPU is about to store, still has the
\* tokens that the packets served have not taken; and an elapsed time that is
\* not one is one that has wrapped.
IcmpSpending ==
  /\ IcmpTyped
  /\ Served >= 0
  /\ \A e \in Elem : InUse(e) => mem[e].tokens + Served > IcmpFloodRate
  /\ \A c \in CPU : At(c, "store") => cpu[c].arg + Served > IcmpFloodRate
  /\ \A c \in CPU : At(c, "drop") => Served > IcmpFloodRate
  /\ \A c \in CPU : At(c, "tokens") =>
       \/ cpu[c].arg \in Time
       \/ \E late \in 1 .. MaxClock : cpu[c].arg = U64 - late

LEMMA ElapsedBounds ==
  ASSUME NEW now \in Time, NEW last \in Time
  PROVE  \/ Elapsed(now, last) \in Time
         \/ \E late \in 1 .. MaxClock : Elapsed(now, last) = U64 - late
  <1> USE LruEntryAssumption DEF Elapsed, Time
  <1>1. CASE now >= last
    <2>1. (now - last) % U64 = now - last
      BY <1>1
    <2> QED
      BY <1>1, <2>1
  <1>2. CASE now < last
    <2>1. (now - last) % U64 = U64 - (last - now)
      BY <1>2
    <2>2. last - now \in 1 .. MaxClock
      BY <1>2
    <2> QED
      BY <2>1, <2>2
  <1> QED
    BY <1>1, <1>2

\* A refill takes no token away, where none that may occur does.
LEMMA RefillKeeps ==
  ASSUME IcmpRefillsAdd, NEW tokens \in 0 .. IcmpFloodRate, NEW elapsed,
         \/ elapsed \in Time
         \/ \E late \in 1 .. MaxClock : elapsed = U64 - late
  PROVE  IcmpRefilled(tokens, elapsed) \in tokens .. IcmpFloodRate
  <1>1. elapsed \in Nat
    BY LruEntryAssumption DEF Time
  <1>2. IcmpRefilled(tokens, elapsed) \in 0 .. IcmpFloodRate
    <2>1. tokens \in Nat
      BY IcmpBucketAssumption
    <2> QED
      BY <1>1, <2>1, RefilledFits
  <1>3. IcmpRefilled(tokens, elapsed) >= tokens
    <2>1. CASE elapsed \in Time
      BY <2>1 DEF IcmpRefillsAdd, Time
    <2>2. ASSUME NEW late \in 1 .. MaxClock, elapsed = U64 - late
          PROVE  IcmpRefilled(tokens, elapsed) >= tokens
      <3>1. late \in 0 .. MaxClock /\ late > 0
        BY LruEntryAssumption
      <3> QED
        BY <2>2, <3>1 DEF IcmpRefillsAdd
    <2> QED
      BY <2>1, <2>2
  <1> QED
    BY <1>2, <1>3, IcmpBucketAssumption

LEMMA ServedStep ==
  ASSUME NEW S, received \in Seq(S), others.gain \in Nat, others' = others,
         NEW c \in CPU, \A d \in CPU \ {c} : cpu'[d] = cpu[d],
         \/ /\ received' = received
            /\ cpu'[c].at \in Unserved => cpu[c].at \in Unserved
         \/ \E x : received' = Append(received, x)
  PROVE  /\ Served \in Int /\ Served' \in Int /\ Served' >= Served
         /\ received' = received /\ cpu[c].at \in Unserved
              /\ cpu'[c].at \notin Unserved => Served' = Served + 1
         /\ cpu[c].at \in Unserved => Cardinality(Waiting) >= 1
         /\ Cardinality(Waiting) \in Nat
  <1>1. IsFiniteSet(Waiting)
    BY LruEntryAssumption, FS_Subset DEF Waiting
  <1>2. Waiting \ {c} = Waiting' \ {c}
    BY DEF Waiting
  <1>3. /\ c \in Waiting <=> cpu[c].at \in Unserved
        /\ c \in Waiting' <=> cpu'[c].at \in Unserved
    BY DEF Waiting
  <1>4. /\ Cardinality(Waiting) \in Nat /\ Cardinality(Waiting)' \in Nat
        /\ Cardinality(Waiting)' = Cardinality(Waiting)
                                     + (IF c \in Waiting' THEN 1 ELSE 0)
                                     - (IF c \in Waiting THEN 1 ELSE 0)
    BY <1>1, <1>2, OneMoves
  <1>5. c \in Waiting => Cardinality(Waiting) # 0
    BY <1>1, FS_EmptySet
  <1>6. Len(received) \in Nat
    OBVIOUS
  <1>7. \/ Len(received') = Len(received) /\ received' = received
        \/ Len(received') = Len(received) + 1 /\ received' # received
    <2>1. ASSUME NEW x, received' = Append(received, x)
          PROVE  Len(received') = Len(received) + 1
      BY <2>1
    <2> QED
      BY <1>6, <2>1
  <1>8. /\ Charge \in Int /\ Charge' \in Int
        /\ \/ Charge' = Charge /\ received' = received
           \/ Charge' = Charge + 1 /\ received' # received
    <2>1. /\ Len(received) \in Nat /\ Len(received') \in Nat
          /\ Len(received') \in {Len(received), Len(received) + 1}
      BY <1>6, <1>7
    <2>2. PICK g \in Nat : g = others.gain /\ g = others'.gain
      OBVIOUS
    <2>3. Charge = Len(received) + g /\ Charge' = Len(received') + g
      BY <2>2 DEF Charge
    <2>4. CASE received' = received
      BY <2>1, <2>3, <2>4
    <2>5. CASE Len(received') = Len(received) + 1 /\ received' # received
      BY <2>1, <2>3, <2>5
    <2> QED
      BY <1>7, <2>4, <2>5
  <1>9. Served \in Int /\ Served' \in Int
    BY <1>4, <1>8 DEF Served
  <1>10. CASE received' = received
    <2>1. /\ cpu'[c].at \in Unserved => cpu[c].at \in Unserved
          /\ Charge' = Charge
      BY <1>6, <1>8, <1>10
    <2>2. Served' = Served + Cardinality(Waiting) - Cardinality(Waiting)'
      BY <1>4, <1>8, <2>1 DEF Served
    <2> QED
      BY <1>3, <1>4, <1>5, <1>9, <2>1, <2>2
  <1>11. CASE received' # received
    <2>1. Served' = Served + 1 + Cardinality(Waiting) - Cardinality(Waiting)'
      <3>1. Charge' = Charge + 1
        BY <1>8, <1>11
      <3> QED
        BY <1>4, <1>8, <3>1 DEF Served
    <2>2. Cardinality(Waiting)' <= Cardinality(Waiting) + 1
      BY <1>4
    <2>3. Served' >= Served
      BY <1>4, <1>9, <2>1, <2>2
    <2>4. cpu[c].at \in Unserved => Cardinality(Waiting) >= 1
      BY <1>3, <1>4, <1>5
    <2> QED
      BY <1>4, <1>9, <1>11, <2>3, <2>4
  <1> QED
    BY <1>10, <1>11

\* What has to be shown of a step of CPU c.
LEMMA SpendingKept ==
  ASSUME IcmpSpending, IcmpTyped', Served \in Int, Served' \in Int,
         Served' >= Served,
         NEW c \in CPU, \A d \in CPU \ {c} : cpu'[d] = cpu[d],
         \A e \in Elem : InUse(e)' =>
           \/ InUse(e) /\ mem'[e].tokens = mem[e].tokens
           \/ mem'[e].tokens + Served' > IcmpFloodRate,
         At(c, "store")' => cpu'[c].arg + Served' > IcmpFloodRate,
         At(c, "drop")' => Served' > IcmpFloodRate,
         At(c, "tokens")' =>
           \/ cpu'[c].arg \in Time
           \/ \E late \in 1 .. MaxClock : cpu'[c].arg = U64 - late
  PROVE  IcmpSpending'
  <1> USE IcmpBucketAssumption DEF IcmpSpending
  <1>1. Served' >= 0
    OBVIOUS
  <1>2. ASSUME NEW e \in Elem, InUse(e)'
        PROVE  mem'[e].tokens + Served' > IcmpFloodRate
    <2>1. mem[e].tokens \in Int
      BY DEF IcmpTyped, Typed, TypesOK, Buckets
    <2> QED
      BY <1>2, <2>1
  <1>3. ASSUME NEW d \in CPU
        PROVE  /\ At(d, "store")' => cpu'[d].arg + Served' > IcmpFloodRate
               /\ At(d, "drop")' => Served' > IcmpFloodRate
               /\ At(d, "tokens")' =>
                    \/ cpu'[d].arg \in Time
                    \/ \E late \in 1 .. MaxClock : cpu'[d].arg = U64 - late
    <2>1. CASE d = c
      BY <2>1
    <2>2. CASE d # c
      <3>1. cpu'[d] = cpu[d] /\ cpu[d].arg \in Int
        BY <2>2 DEF IcmpTyped, Typed, TypesOK, CpuStates
      <3> QED
        BY <3>1 DEF At
    <2> QED
      BY <2>1, <2>2
  <1> QED
    BY <1>1, <1>2, <1>3 DEF IcmpSpending, At

LEMMA EnoughLeft ==
  ASSUME NEW n \in Nat, NEW s \in Int, NEW t \in Int, NEW r \in Nat,
         t >= s, n + s > r
  PROVE  n + t > r /\ (~ n >= 1 => t > r)
  OBVIOUS

LEMMA IcmpSpendingOwn ==
  ASSUME IcmpRefillsAdd, IcmpSpending, IcmpOwn \/ UNCHANGED vars
  PROVE  IcmpSpending'
  <1>1. /\ IcmpTyped /\ IcmpTyped' /\ Served >= 0
        /\ Typed(IcmpPacket, Buckets, IcmpLabel, Early)
    BY IcmpTypesStep DEF IcmpNext, IcmpSpending, IcmpTyped
  <1>2. /\ mem \in [Elem -> Buckets] /\ entry \in Elem \cup {NoElem}
        /\ cpu \in [CPU -> CpuStates(IcmpPacket, IcmpLabel)]
        /\ received \in Seq(Dated(IcmpPacket))
        /\ others.gain \in Nat /\ others' = others
    BY <1>1, IcmpAddsNothing DEF Typed, TypesOK
  <1>3. /\ \A e \in Elem : mem[e].tokens \in Int
        /\ \A c \in CPU : cpu[c].arg \in Int
    BY <1>2, IcmpBucketAssumption DEF Buckets, CpuStates
  <1>4. ASSUME NEW c \in CPU, NEW p \in IcmpPacket, IcmpArrive(c, p)
        PROVE  IcmpSpending'
    <2>1. /\ \A d \in CPU \ {c} : cpu'[d] = cpu[d]
          /\ cpu'[c].at = "stamp" /\ cpu'[c].elem = entry /\ At(c, "idle")
          /\ received' = received /\ mem' = mem /\ entry' = entry
      BY <1>2, <1>4 DEF IcmpArrive, BeginWithLookup, history
    <2>2. \A e \in Elem : InUse(e)' => InUse(e) /\ mem'[e].tokens = mem[e].tokens
      BY <2>1 DEF InUse, At
    <2>3. Served \in Int /\ Served' \in Int /\ Served' >= Served
      BY <1>2, <2>1, ServedStep DEF Unserved
    <2> QED
      BY <1>1, <2>1, <2>2, <2>3, SpendingKept DEF At
  <1>5. ASSUME NEW c \in CPU, IcmpStamp(c) PROVE IcmpSpending'
    <2>1. /\ \A d \in CPU \ {c} : cpu'[d] = cpu[d]
          /\ cpu'[c].at \in {"insert", "elapsed"} /\ cpu'[c].elem = cpu[c].elem
          /\ ~ At(c, "idle")
          /\ \E x : received' = Append(received, x)
          /\ mem' = mem /\ entry' = entry
      BY <1>2, <1>5 DEF IcmpStamp, ThenClock, CpuStates, At
    <2>2. \A e \in Elem : InUse(e)' => InUse(e) /\ mem'[e].tokens = mem[e].tokens
      BY <2>1 DEF InUse, At
    <2>3. Served \in Int /\ Served' \in Int /\ Served' >= Served
      BY <1>2, <2>1, ServedStep
    <2> QED
      BY <1>1, <2>1, <2>2, <2>3, SpendingKept DEF At
  <1>6. ASSUME NEW c \in CPU, IcmpInsert(c) PROVE IcmpSpending'
    <2>1. /\ \A d \in CPU \ {c} : cpu'[d] = cpu[d]
          /\ cpu'[c].at = "idle" /\ cpu[c].at = "insert"
          /\ cpu'[c].elem = NoElem
          /\ received' = received
      BY <1>2, <1>6 DEF IcmpInsert, IcmpPass, Return, Idle, At
    <2>2. Served \in Int /\ Served' \in Int /\ Served' = Served + 1
      BY <1>2, <2>1, ServedStep DEF Unserved
    <2>3. PICK e \in Elem \ {entry} :
            entry' = e /\ mem' = [mem EXCEPT ![e] = IcmpOpening(cpu[c].now)]
      BY <1>6 DEF IcmpInsert, Link
    <2>4. mem'[e].tokens + Served' > IcmpFloodRate
      <3>1. mem'[e].tokens = IcmpFloodRate
        BY <1>2, <2>3 DEF IcmpOpening
      <3> QED
        BY <1>1, <2>2, <3>1, IcmpBucketAssumption
    <2>5. \A f \in Elem : InUse(f)' =>
            \/ InUse(f) /\ mem'[f].tokens = mem[f].tokens
            \/ mem'[f].tokens + Served' > IcmpFloodRate
      BY <1>2, <2>1, <2>3, <2>4, Bounds DEF InUse
    <2>6. ~ At(c, "store")' /\ ~ At(c, "drop")' /\ ~ At(c, "tokens")'
      BY <2>1 DEF At
    <2>7. Served' >= Served
      BY <2>2
    <2> QED
      BY <1>1, <2>1, <2>2, <2>5, <2>6, <2>7, SpendingKept
  <1>7. ASSUME NEW c \in CPU, cpu'[c].elem \in {cpu[c].elem, NoElem},
               \A d \in CPU \ {c} : cpu'[d] = cpu[d], entry' = entry
        PROVE  \A e \in Elem : InUse(e)' => InUse(e)
    BY <1>7, Bounds DEF InUse
  <1>8. ASSUME NEW c \in CPU, cpu[c].at \notin Early
        PROVE  /\ cpu[c].elem \in Elem
               /\ mem[cpu[c].elem].tokens + Served > IcmpFloodRate
               /\ mem[cpu[c].elem] \in Buckets
    <2>1. cpu[c].elem \in Elem
      BY <1>1, <1>8 DEF Typed
    <2>2. InUse(cpu[c].elem)
      BY <1>8 DEF InUse
    <2> QED
      BY <1>2, <2>1, <2>2 DEF IcmpSpending
  <1>9. ASSUME NEW c \in CPU, IcmpReadDate(c) PROVE IcmpSpending'
    <2> DEFINE elapsed == Elapsed(cpu[c].now, mem[cpu[c].elem].last)
    <2>1. /\ \A d \in CPU \ {c} : cpu'[d] = cpu[d]
          /\ cpu'[c].at = "tokens" /\ cpu[c].at = "elapsed"
          /\ cpu'[c].elem = cpu[c].elem /\ cpu'[c].arg = elapsed
          /\ received' = received /\ mem' = mem /\ entry' = entry
      BY <1>2, <1>9 DEF IcmpReadDate, GotoWith, CpuStates, At, history
    <2>2. \/ elapsed \in Time
          \/ \E late \in 1 .. MaxClock : elapsed = U64 - late
      <3>1. cpu[c].now \in Time /\ mem[cpu[c].elem].last \in Time
        BY <1>2, <1>8, <2>1 DEF CpuStates, Buckets, Early
      <3> QED
        BY <3>1, ElapsedBounds
    <2> HIDE DEF elapsed
    <2>3. Served \in Int /\ Served' \in Int /\ Served' >= Served
      BY <1>2, <2>1, ServedStep DEF Unserved
    <2>4. \A e \in Elem : InUse(e)' => InUse(e) /\ mem'[e].tokens = mem[e].tokens
      BY <1>7, <2>1 DEF At
    <2> QED
      BY <1>1, <2>1, <2>2, <2>3, <2>4, SpendingKept DEF At
  <1>10. ASSUME NEW c \in CPU, IcmpRefill(c) PROVE IcmpSpending'
    <2>0. PICK n : n = IcmpRefilled(mem[cpu[c].elem].tokens, cpu[c].arg)
      OBVIOUS
    <2>1. /\ \A d \in CPU \ {c} : cpu'[d] = cpu[d]
          /\ cpu'[c].at = (IF n >= 1 THEN "store" ELSE "drop")
          /\ cpu[c].at = "tokens"
          /\ cpu'[c].elem = cpu[c].elem /\ cpu'[c].arg = n
          /\ received' = received /\ mem' = mem /\ entry' = entry
      BY <1>2, <1>10, <2>0 DEF IcmpRefill, GotoWith, CpuStates, At, history
    <2>2. n \in mem[cpu[c].elem].tokens .. IcmpFloodRate
      <3>1. mem[cpu[c].elem].tokens \in 0 .. IcmpFloodRate
        BY <1>8, <2>1 DEF Buckets, Early
      <3>2. \/ cpu[c].arg \in Time
            \/ \E late \in 1 .. MaxClock : cpu[c].arg = U64 - late
        BY <2>1 DEF IcmpSpending, At
      <3> QED
        BY <2>0, <3>1, <3>2, RefillKeeps
    <2>3. /\ mem[cpu[c].elem].tokens + Served > IcmpFloodRate
          /\ mem[cpu[c].elem].tokens \in Nat
      BY <1>8, <2>1, IcmpBucketAssumption DEF Buckets, Early
    <2>4. Served \in Int /\ Served' \in Int /\ Served' >= Served
      BY <1>2, <2>1, ServedStep DEF Unserved
    <2>5. /\ n + Served' > IcmpFloodRate
          /\ ~ n >= 1 => Served' > IcmpFloodRate
      <3>1. n \in Nat /\ n >= mem[cpu[c].elem].tokens
        BY <2>2, <2>3, IcmpBucketAssumption
      <3>2. IcmpFloodRate \in Nat
        BY IcmpBucketAssumption
      <3>3. n + Served > IcmpFloodRate
        BY <2>3, <2>4, <3>1, <3>2
      <3> QED
        BY <2>4, <3>1, <3>2, <3>3, EnoughLeft
    <2>6. \A e \in Elem : InUse(e)' => InUse(e) /\ mem'[e].tokens = mem[e].tokens
      BY <1>7, <2>1 DEF At
    <2> QED
      BY <1>1, <2>1, <2>4, <2>5, <2>6, SpendingKept DEF At
  <1>11. ASSUME NEW c \in CPU, IcmpTake(c) PROVE IcmpSpending'
    <2>1. /\ \A d \in CPU \ {c} : cpu'[d] = cpu[d]
          /\ cpu'[c].at = "date" /\ cpu[c].at = "store"
          /\ cpu'[c].elem = cpu[c].elem
          /\ received' = received /\ entry' = entry
      BY <1>2, <1>11 DEF IcmpTake, Goto, CpuStates, At, history
    <2>2. Served \in Int /\ Served' \in Int /\ Served' = Served + 1
      BY <1>2, <2>1, ServedStep DEF Unserved
    <2>3. cpu[c].arg + Served > IcmpFloodRate
      BY <2>1 DEF IcmpSpending, At
    <2>4. \A e \in Elem : \/ mem'[e].tokens = mem[e].tokens
                          \/ mem'[e].tokens = cpu[c].arg - 1
      BY <1>2, <1>11 DEF IcmpTake, Buckets
    <2>5. cpu[c].arg - 1 + Served' > IcmpFloodRate
      BY <1>3, <2>2, <2>3, IcmpBucketAssumption
    <2>6. \A e \in Elem : InUse(e)' =>
            \/ InUse(e) /\ mem'[e].tokens = mem[e].tokens
            \/ mem'[e].tokens + Served' > IcmpFloodRate
      BY <1>7, <2>1, <2>4, <2>5 DEF At
    <2>7. ~ At(c, "store")' /\ ~ At(c, "drop")' /\ ~ At(c, "tokens")'
      BY <2>1 DEF At
    <2>8. Served' >= Served
      BY <2>2
    <2> QED
      BY <1>1, <2>1, <2>2, <2>6, <2>7, <2>8, SpendingKept
  <1>12. ASSUME NEW c \in CPU, IcmpDate(c) \/ IcmpDrop(c) PROVE IcmpSpending'
    <2>1. Return(c) /\ ~ At(c, "idle")
      BY <1>12 DEF IcmpDate, IcmpDrop, IcmpPass, At
    <2>2. /\ \A d \in CPU \ {c} : cpu'[d] = cpu[d]
          /\ cpu'[c].at = "idle" /\ cpu'[c].elem = NoElem
      BY <1>2, <2>1 DEF Return, Idle
    <2>3. received' = received /\ entry' = entry
      BY <1>12 DEF IcmpDate, IcmpDrop, history
    <2>4. Served \in Int /\ Served' \in Int /\ Served' >= Served
      BY <1>2, <2>2, <2>3, ServedStep DEF Unserved
    <2>5. \A e \in Elem : mem'[e].tokens = mem[e].tokens
      <3>1. CASE IcmpDate(c)
        BY <1>2, <3>1 DEF IcmpDate, Buckets
      <3>2. CASE IcmpDrop(c)
        BY <3>2 DEF IcmpDrop
      <3> QED
        BY <1>12, <3>1, <3>2
    <2>6. \A e \in Elem : InUse(e)' => InUse(e) /\ mem'[e].tokens = mem[e].tokens
      BY <1>7, <2>1, <2>2, <2>3, <2>5 DEF At
    <2>7. ~ At(c, "store")' /\ ~ At(c, "drop")' /\ ~ At(c, "tokens")'
      BY <2>2 DEF At
    <2> QED
      BY <1>1, <2>2, <2>4, <2>6, <2>7, SpendingKept
  <1>13. CASE Evict \/ Tick \/ Finished \/ UNCHANGED vars
    <2>1. UNCHANGED <<mem, cpu, received>> /\ entry' \in {entry, NoElem}
      BY <1>13 DEF Evict, Tick, Finished, vars, history
    <2>2. Served' = Served
      BY <1>2, <2>1 DEF Served, Charge, Waiting
    <2>3. \A e \in Elem : InUse(e)' => InUse(e)
      BY <2>1, Bounds DEF InUse, At
    <2> QED
      BY <1>1, <2>1, <2>2, <2>3 DEF IcmpSpending, At
  <1> QED
    BY <1>4, <1>5, <1>6, <1>9, <1>10, <1>11, <1>12, <1>13
       DEF IcmpOwn, IcmpHandle

\* What others take from a bucket counts as served.
LEMMA IcmpSpendingStep ==
  IcmpRefillsAdd /\ IcmpSpending /\ [IcmpNext]_vars => IcmpSpending'
  <1> SUFFICES ASSUME IcmpRefillsAdd, IcmpSpending, [IcmpNext]_vars
               PROVE  IcmpSpending'
    OBVIOUS
  <1>1. CASE IcmpIntrude
    <2>1. PICK e \in Elem, t \in 0 .. clock, n \in 0 .. IcmpFloodRate :
            Intrude(e, [last |-> t, tokens |-> n], t, Gain(mem[e].tokens, n))
      BY <1>1 DEF IcmpIntrude
    <2>2. IcmpTyped'
      BY IcmpTypesStep DEF IcmpSpending
    <2>3. /\ mem \in [Elem -> Buckets] /\ others.gain \in Nat
          /\ received \in Seq(Dated(IcmpPacket))
          /\ cpu \in [CPU -> CpuStates(IcmpPacket, IcmpLabel)]
      BY DEF IcmpSpending, IcmpTyped, Typed, TypesOK
    <2>4. \A f \in Elem : mem[f].tokens \in Nat
      BY <2>3, IcmpBucketAssumption DEF Buckets
    <2>5. PICK g \in Nat : /\ g = Gain(mem[e].tokens, n)
                           /\ mem[e].tokens <= n + g
      <3>1. n \in Nat /\ mem[e].tokens \in Nat
        BY <2>4, IcmpBucketAssumption
      <3> QED
        BY <3>1, GainIs
    <2>6. /\ UNCHANGED <<entry, cpu, received>> /\ others'.gain = others.gain + g
          /\ mem' = [mem EXCEPT ![e] = [last |-> t, tokens |-> n]]
      BY <2>1, <2>5 DEF Intrude
    <2>7. /\ Served' = Served + g /\ Served \in Int
      <3>1. Waiting' = Waiting
        BY <2>6 DEF Waiting
      <3>2. Cardinality(Waiting) \in Nat
        BY LruEntryAssumption, FS_Subset, FS_CardinalityType DEF Waiting
      <3> QED
        BY <2>3, <2>6, <3>1, <3>2 DEF Served, Charge
    <2>8. \A f \in Elem : InUse(f)' => InUse(f)
      BY <2>6 DEF InUse
    <2>13. ASSUME NEW f \in Elem
           PROVE  /\ mem[f].tokens <= mem'[f].tokens + g
                  /\ mem'[f].tokens \in Nat
      <3>1. mem'[f].tokens = IF f = e THEN n ELSE mem[f].tokens
        BY <2>3, <2>6
      <3>2. n \in Nat /\ mem[f].tokens \in Nat
        BY <2>4, IcmpBucketAssumption
      <3> QED
        BY <2>5, <3>1, <3>2
    <2>9. \A c \in CPU : cpu[c].arg \in Nat
      BY <2>3 DEF CpuStates
    <2>10. ASSUME NEW f \in Elem, InUse(f)'
           PROVE  mem'[f].tokens + Served' > IcmpFloodRate
      <3>1. mem[f].tokens + Served > IcmpFloodRate
        BY <2>8, <2>10 DEF IcmpSpending
      <3>2. /\ mem[f].tokens \in Nat /\ mem'[f].tokens \in Nat
            /\ mem[f].tokens <= mem'[f].tokens + g
        BY <2>4, <2>13
      <3>3. IcmpFloodRate \in Nat
        BY IcmpBucketAssumption
      <3> QED
        BY <2>7, <3>1, <3>2, <3>3
    <2>11. Served >= 0 /\ Served' >= Served
      BY <2>7 DEF IcmpSpending
    <2>12. ASSUME NEW c \in CPU
           PROVE  /\ At(c, "store")' => cpu'[c].arg + Served' > IcmpFloodRate
                  /\ At(c, "drop")' => Served' > IcmpFloodRate
                  /\ At(c, "tokens")' =>
                       \/ cpu'[c].arg \in Time
                       \/ \E late \in 1 .. MaxClock : cpu'[c].arg = U64 - late
      BY <2>6, <2>7, <2>9, <2>11, IcmpBucketAssumption DEF IcmpSpending, At
    <2> QED
      BY <2>2, <2>7, <2>10, <2>11, <2>12 DEF IcmpSpending
  <1> QED
    BY <1>1, IcmpSpendingOwn DEF IcmpNext

LEMMA IcmpSpendingInit == IcmpInit => IcmpSpending
  <1> SUFFICES ASSUME IcmpInit PROVE IcmpSpending
    OBVIOUS
  <1>1. /\ \A c \in CPU : At(c, "idle") /\ entry = NoElem
        /\ Waiting = {} /\ received = <<>>
    BY DEF IcmpInit, InitWith, Idle, At, Waiting, Unserved
  <1>2. Served = 0
    BY <1>1, FS_EmptySet DEF Served, Charge, IcmpInit, InitWith
  <1>3. \A e \in Elem : ~ InUse(e)
    BY <1>1, Bounds DEF InUse, IcmpInit, InitWith, Idle
  <1> QED
    BY <1>1, <1>2, <1>3, IcmpTypesInit DEF IcmpSpending, At

LEMMA IcmpSpendingSuffices == IcmpSpending => IcmpDropNeedsBurst
  <1> SUFFICES ASSUME IcmpSpending, NEW c \in CPU, At(c, "drop")
               PROVE  Charge >= IcmpFloodRate + 2
    BY DEF IcmpDropNeedsBurst, Charge
  <1>1. Served > IcmpFloodRate
    BY DEF IcmpSpending
  <1>2. received \in Seq(Dated(IcmpPacket)) /\ Charge \in Nat
    BY DEF IcmpSpending, IcmpTyped, Typed, TypesOK, Charge
  <1>3. IsFiniteSet(Waiting) /\ c \in Waiting
    BY LruEntryAssumption, FS_Subset DEF Waiting, Unserved, At
  <1>4. Cardinality(Waiting) \in Nat /\ Cardinality(Waiting) # 0
    BY <1>3, FS_CardinalityType, FS_EmptySet
  <1> QED
    BY <1>1, <1>2, <1>4, IcmpBucketAssumption DEF Served

-----------------------------------------------------------------------------
(* The checks carried over to SourceChecks *)

LEMMA OtherSteps ==
  /\ check = "dns"  /\ [Next]_allVars => [DnsNext]_vars
  /\ check = "udp"  /\ [Next]_allVars => [UdpNext]_vars
  /\ check = "frag" /\ [Next]_allVars => [FragNext]_vars
  /\ check = "icmp" /\ [Next]_allVars => [IcmpNext]_vars
  /\ check = "flow" /\ [Next]_allVars => [FlowNext]_vars
  BY DEF Next, allVars

\* The types of every check, and what those of UDP rest on.
Types ==
  /\ check \in Check
  /\ check = "syn"  => SynTypeOK
  /\ check = "dns"  => DnsTyped
  /\ check = "udp"  => UdpSound
  /\ check = "frag" => FragTyped
  /\ check = "icmp" => IcmpTyped
  /\ check = "flow" => FlowTyped
  /\ LogTypes

LEMMA TypesInit == Init => Types
  BY InitTypes, DnsTypesInit, UdpSoundInit, FragTypesInit, IcmpTypesInit,
     FlowTypesInit, LogTypesInit
     DEF Init, Types

LEMMA TypesStep == Types /\ [Next]_allVars => Types'
  BY TypeStep, DnsTypesStep, UdpSoundStep, FragTypesStep, IcmpTypesStep,
     FlowTypesStep, LogTypesStep, CheckKept, SynSteps, OtherSteps, LogSteps
     DEF Types

\* Every variable keeps its type: no CPU follows a null pointer, no rate is
\* computed over a time of zero, no bucket holds more than the rate even when
\* the elapsed time wraps, and the count and every index stay within the array
\* of attacks (xdp_prog.c:217-246, 347, 630-639).
THEOREM TypesAlways == Spec => []TypeOK
  <1>1. Types => TypeOK
    BY DnsTypesAre, UdpSoundSuffices, FragTypesAre, IcmpTypesAre, FlowTypesAre
       DEF Types, TypeOK, LogTypes
  <1> QED
    BY <1>1, TypesInit, TypesStep, PTL DEF Spec

\* No DNS packet is dropped for its rate unless one, of the source or of another
\* that its element was handed out to, was let through less than a second
\* before (xdp_prog.c:406-417, 448).
THEOREM DnsNotShutOutAlways == Spec => []DnsNotShutOut
  <1> DEFINE Inv == check = "dns" => DnsWindows
  <1>1. Init => Inv
    BY DnsWindowsInit DEF Init
  <1>2. Inv /\ [Next]_allVars => Inv'
    BY DnsWindowsStep, CheckKept, OtherSteps
  <1>3. Inv => DnsNotShutOut
    BY DEF DnsWindows, InWindow, DnsNotShutOut, DnsNeverShutOut, At
  <1> QED
    BY <1>1, <1>2, <1>3, PTL DEF Spec

\* Nothing is dropped early, what other sources count in a shared element
\* included: a flood datagram only after more than UDP_FLOOD_BURST of them
\* (xdp_prog.c:327-338, 361), a fragment for the count only after more than
\* max_frags (477-484), and an ICMP packet only after a whole bucket has been
\* spent, if no refill takes tokens away (623, 637-644).
THEOREM DropsNeedBurstAlways == Spec => []DropsNeedBurst
  <1> DEFINE Inv == /\ check = "udp"  => UdpCharged
                    /\ check = "frag" => FragCharged
                    /\ check = "icmp" => (IcmpRefillsAdd => IcmpSpending)
  <1>1. Init => Inv
    BY UdpChargedInit, FragChargedInit, IcmpSpendingInit DEF Init
  <1>2. Inv /\ [Next]_allVars => Inv'
    BY UdpChargedStep, FragChargedStep, IcmpSpendingStep,
       CheckKept, OtherSteps
  <1>3. Inv => DropsNeedBurst
    <2>1. (IcmpRefillsAdd => IcmpSpending) => IcmpDropNeedsBurst
      BY IcmpSpendingSuffices DEF IcmpDropNeedsBurst
    <2> QED
      BY <2>1
       DEF UdpCharged, Charge, FragCharged, DropsNeedBurst, UdpDropNeedsBurst,
           FragDropNeedsMany
  <1> QED
    BY <1>1, <1>2, <1>3, PTL DEF Spec

\* A flow never shows more packets than were received, its own and those that
\* others have counted in an element it shared with them, although CPUs lose
\* counts and link elements again (xdp_prog.c:849-875).
THEOREM FlowCountsAtMostAlways == Spec => []FlowCountsAtMost
  <1> DEFINE Inv == check = "flow" => FlowCharged
  <1>1. Init => Inv
    BY FlowChargedInit DEF Init
  <1>2. Inv /\ [Next]_allVars => Inv'
    BY FlowChargedStep, CheckKept, OtherSteps
  <1>3. Inv => FlowCountsAtMost
    BY FlowChargedSuffices DEF FlowCountsAtMost
  <1> QED
    BY <1>1, <1>2, <1>3, PTL DEF Spec

-----------------------------------------------------------------------------
(* One CPU: the packets of a history that arrived within some dates *)

\* One CPU handles all packets of the source, as with one receive queue.
OneCpu == \E c : CPU = {c}

\* The packets of a history, among those of S, dated from a to b.

Between(log, S, a, b) ==
  {i \in DOMAIN log : log[i].pkt \in S /\ log[i].t \in a .. b}

LEMMA BetweenFinite ==
  ASSUME NEW P, NEW log \in Seq(Dated(P)), NEW S, NEW a, NEW b
  PROVE  /\ IsFiniteSet(Between(log, S, a, b))
         /\ Cardinality(Between(log, S, a, b)) \in Nat
         /\ Between(log, S, a, b) \subseteq 1 .. Len(log)
  <1>1. Len(log) \in Nat /\ DOMAIN log = 1 .. Len(log)
    OBVIOUS
  <1>2. IsFiniteSet(1 .. Len(log))
    BY <1>1, FS_Interval
  <1> QED
    BY <1>1, <1>2, FS_Subset, FS_CardinalityType DEF Between

LEMMA BetweenGrows ==
  ASSUME NEW P, NEW log \in Seq(Dated(P)), NEW x \in Dated(P), NEW S, NEW a, NEW b
  PROVE  Cardinality(Between(Append(log, x), S, a, b)) =
           Cardinality(Between(log, S, a, b))
             + IF x.pkt \in S /\ x.t \in a .. b THEN 1 ELSE 0
  <1> DEFINE n == Len(log) + 1
             more == Append(log, x)
             old == Between(log, S, a, b)
  <1>1. /\ DOMAIN more = DOMAIN log \cup {n} /\ more[n] = x
        /\ n \notin DOMAIN log /\ \A i \in DOMAIN log : more[i] = log[i]
    OBVIOUS
  <1>2. IsFiniteSet(old) /\ Cardinality(old) \in Nat /\ n \notin old
    <2>1. old \subseteq DOMAIN log
      BY DEF Between
    <2> QED
      BY <1>1, <2>1, BetweenFinite
  <1>3. CASE x.pkt \in S /\ x.t \in a .. b
    <2>1. Between(more, S, a, b) = old \cup {n}
      BY <1>1, <1>3 DEF Between
    <2>2. Cardinality(old \cup {n}) = Cardinality(old) + 1
      BY <1>2, FS_AddElement
    <2> QED
      BY <1>3, <2>1, <2>2
  <1>4. CASE ~ (x.pkt \in S /\ x.t \in a .. b)
    <2>1. Between(more, S, a, b) = old
      BY <1>1, <1>4 DEF Between
    <2> QED
      BY <1>2, <1>4, <2>1
  <1> QED
    BY <1>3, <1>4

LEMMA BetweenWider ==
  ASSUME NEW P, NEW log \in Seq(Dated(P)), NEW S,
         NEW a \in Int, NEW b \in Int, NEW a2 \in Int, NEW b2 \in Int,
         a2 <= a, b <= b2
  PROVE  Cardinality(Between(log, S, a, b)) <= Cardinality(Between(log, S, a2, b2))
  <1>1. Between(log, S, a, b) \subseteq Between(log, S, a2, b2)
    BY DEF Between
  <1> QED
    BY <1>1, BetweenFinite, FS_Subset

LEMMA BetweenSplit ==
  ASSUME NEW P, NEW log \in Seq(Dated(P)), NEW S,
         NEW a \in Int, NEW m \in Int, NEW b \in Int
  PROVE  Cardinality(Between(log, S, a, b)) <=
           Cardinality(Between(log, S, a, m - 1))
             + Cardinality(Between(log, S, m, b))
  <1> DEFINE A == Between(log, S, a, m - 1)
             B == Between(log, S, m, b)
  <1>1. Between(log, S, a, b) \subseteq A \cup B
    BY DEF Between
  <1>2. /\ IsFiniteSet(A) /\ IsFiniteSet(B)
        /\ Cardinality(A) \in Nat /\ Cardinality(B) \in Nat
    BY BetweenFinite
  <1>3. /\ IsFiniteSet(A \cup B) /\ IsFiniteSet(A \cap B)
        /\ Cardinality(A \cap B) \in Nat
        /\ Cardinality(A \cup B) =
             Cardinality(A) + Cardinality(B) - Cardinality(A \cap B)
    BY <1>2, FS_Union, FS_Intersection, FS_CardinalityType
  <1>4. /\ Cardinality(Between(log, S, a, b)) <= Cardinality(A \cup B)
        /\ Cardinality(Between(log, S, a, b)) \in Nat
    BY <1>1, <1>3, BetweenFinite, FS_Subset
  <1> QED
    BY <1>2, <1>3, <1>4

LEMMA BetweenLast ==
  ASSUME NEW P, NEW log \in Seq(Dated(P)), log # <<>>, NEW S, NEW a, NEW b,
         log[Len(log)].pkt \in S, log[Len(log)].t \in a .. b
  PROVE  1 <= Cardinality(Between(log, S, a, b))
  <1>1. Len(log) \in DOMAIN log
    OBVIOUS
  <1>2. Between(log, S, a, b) # {}
    BY <1>1 DEF Between
  <1> QED
    BY <1>2, BetweenFinite, FS_EmptySet

\* Rates and thresholds are numbers.
LEMMA RatesAre ==
  /\ SynFloodRate \in Nat /\ DnsAmpRate \in Nat /\ IcmpFloodRate \in Nat
  /\ U32 \in Nat \ {0} /\ 0 % U32 = 0
  BY LruEntryAssumption, SynFloodAssumption, DnsAmpAssumption,
     IcmpBucketAssumption

LEMMA ThresholdIs ==
  ASSUME NEW p \in DnsPacket
  PROVE  DnsThreshold(p) \in Nat
  <1>1. DnsAmpRate * DnsLeniency \in Nat
    BY RatesAre, DnsAmpAssumption
  <1>2. (DnsAmpRate * DnsLeniency) % U32 \in Nat
    BY <1>1, RatesAre
  <1> QED
    BY <1>2, RatesAre DEF DnsThreshold

\* The dates of what has arrived are in order: none is later than the clock,
\* nor than the reading of a CPU past the labels of E.
InOrder(c, E) ==
  /\ cpu[c].now <= clock
  /\ \A i \in DOMAIN received :
       /\ received[i].t <= clock
       /\ cpu[c].at \notin E => received[i].t <= cpu[c].now

LEMMA DatesAre ==
  ASSUME NEW P, NEW log \in Seq(Dated(P)), NEW i \in DOMAIN log
  PROVE  log[i].t \in Time /\ log[i].t \in Nat /\ log[i].pkt \in P
  <1>1. log[i] \in Dated(P)
    OBVIOUS
  <1> QED
    BY <1>1, Bounds DEF Dated

\* Two readings of the clock of one CPU are in order.
LEMMA ElapsedInOrder ==
  ASSUME NEW now \in Time, NEW last \in Time, last <= now
  PROVE  Elapsed(now, last) = now - last
  BY LruEntryAssumption DEF Elapsed, Time

LEMMA OrderKept ==
  ASSUME NEW P, NEW c \in CPU, NEW E, InOrder(c, E),
         received \in Seq(Dated(P)), received' = received,
         clock \in Time, clock' \in Nat, clock <= clock', cpu'[c].now <= clock',
         cpu'[c].at \in E \/ (cpu[c].at \notin E /\ cpu'[c].now = cpu[c].now)
  PROVE  InOrder(c, E)'
  <1>1. \A i \in DOMAIN received : received[i].t \in Nat
    BY DatesAre
  <1> QED
    BY <1>1, Bounds DEF InOrder

LEMMA OrderRead ==
  ASSUME NEW P, NEW c \in CPU, NEW E, InOrder(c, E), NEW p,
         received \in Seq(Dated(P)),
         received' = Append(received, [t |-> clock, pkt |-> p]),
         clock \in Time, clock' = clock, cpu'[c].now = clock
  PROVE  InOrder(c, E)'
  <1>1. /\ \A i \in DOMAIN received' :
             \/ i \in DOMAIN received /\ received'[i] = received[i]
             \/ received'[i].t = clock
    OBVIOUS
  <1> QED
    BY <1>1, Bounds DEF InOrder

\* The labels before the clock is read, in the checks that look the source up
\* first.
Unread == {"idle", "stamp"}

\* A step of the CPU that receives nothing new.
LEMMA OrderGoesOn ==
  ASSUME NEW P, NEW L, NEW c \in CPU, cpu \in [CPU -> CpuStates(P, L)],
         received \in Seq(Dated(P)), clock \in Time, InOrder(c, Unread),
         received' = received, clock' = clock,
         \/ cpu'[c].at \in Unread /\ cpu'[c].now = 0
         \/ Return(c)
         \/ cpu[c].at \notin Unread /\ \E label \in L : Goto(c, label)
  PROVE  InOrder(c, Unread)'
  <1>1. /\ clock \in Nat /\ cpu[c].now \in Nat /\ cpu[c].now <= clock
    BY Bounds DEF CpuStates, InOrder
  <1>2. \/ cpu'[c].at \in Unread /\ cpu'[c].now = 0
        \/ cpu[c].at \notin Unread /\ cpu'[c].now = cpu[c].now
    <2>1. CASE Return(c)
      BY <2>1 DEF Return, Idle, Unread
    <2> QED
      BY <2>1 DEF Goto, CpuStates
  <1>3. cpu'[c].now <= clock'
    BY <1>1, <1>2
  <1> QED
    BY <1>1, <1>2, <1>3, OrderKept

LEMMA OrderOutside ==
  ASSUME NEW P, NEW L, NEW c \in CPU, NEW E, cpu \in [CPU -> CpuStates(P, L)],
         received \in Seq(Dated(P)), clock \in Time, InOrder(c, E),
         Evict \/ Tick \/ Finished \/ UNCHANGED vars
  PROVE  InOrder(c, E)'
  <1>1. /\ clock \in Nat /\ cpu[c].now \in Nat /\ cpu[c].now <= clock
    BY Bounds DEF CpuStates, InOrder
  <1>2. /\ received' = received /\ cpu' = cpu
        /\ clock' \in Nat /\ clock <= clock'
    BY <1>1 DEF Evict, Tick, Finished, vars, history
  <1>3. cpu'[c].now <= clock'
    BY <1>1, <1>2
  <1> QED
    BY <1>2, <1>3, OrderKept

-----------------------------------------------------------------------------
(* One CPU: SYNs are dropped only in a second of too many *)

\* The element that a CPU uses, or will.
Used(c) == IF At(c, "idle") THEN entry ELSE cpu[c].elem

Resetting(c) == At(c, "own") \/ (At(c, "other") /\ cpu[c].pkt = "synack")
Pending(c) == IF cpu[c].pkt = "syn" /\ cpu[c].at \in {"age", "count"} THEN 1 ELSE 0

SynsSince(t) == Cardinality(Between(received, {"syn"}, t, MaxClock))

\* What one CPU knows of the element of the source between two statements.
SynAlone(c) ==
  /\ ~ At(c, "idle") => entry \in {cpu[c].elem, NoElem}
  /\ cpu[c].at \notin {"idle", "stamp"} =>
       received # <<>> /\ received[Len(received)] = Stamped(c)
  /\ Used(c) # NoElem =>
       /\ mem[Used(c)].last <= clock
       /\ ~ Resetting(c) =>
            mem[Used(c)].syn + Pending(c) <= SynsSince(mem[Used(c)].last)
  /\ cpu[c].at \in {"own", "other"} => mem[cpu[c].elem].last = cpu[c].now
  /\ cpu[c].at \in {"count", "rate", "acks", "drop"} =>
       cpu[c].now \in mem[cpu[c].elem].last .. (mem[cpu[c].elem].last + Window - 1)
  /\ cpu[c].at \in {"acks", "drop"} => mem[cpu[c].elem].syn > SynFloodRate
  /\ At(c, "insert") => cpu[c].elem = NoElem

SynUnshared ==
  SynTypeOK /\ \A c \in CPU : InOrder(c, Unread) /\ SynAlone(c)

LEMMA SynUnsharedInit == SynInit => SynUnshared
  <1> SUFFICES ASSUME SynInit, NEW c \in CPU
               PROVE  InOrder(c, Unread) /\ SynAlone(c)
    BY InitTypes DEF SynUnshared
  <1>1. /\ cpu[c] = Idle /\ clock = 0 /\ received = <<>> /\ entry = NoElem
        /\ 0 <= 0 /\ DOMAIN received = {}
    BY DEF SynInit, InitWith
  <1> QED
    BY <1>1 DEF InOrder, SynAlone, Used, Idle, At, Unread

LEMMA SynOrderStep ==
  ASSUME NEW c, CPU = {c}, SynTypeOK, InOrder(c, Unread), [SynOwn]_vars
  PROVE  InOrder(c, Unread)'
  <1>1. /\ c \in CPU /\ cpu \in [CPU -> CpuStates(SynPacket, SynLabel)]
        /\ clock \in Time /\ received \in Seq(Dated(SynPacket))
    BY DEF SynTypeOK, TypesOK
  <1>2. CASE SynStamp(c)
    <2>1. /\ received' = Append(received, [t |-> clock, pkt |-> cpu[c].pkt])
          /\ clock' = clock /\ cpu'[c].now = clock
      BY <1>1, <1>2 DEF SynStamp, ThenClock, CpuStates
    <2> QED
      BY <1>1, <2>1, OrderRead
  <1>3. ASSUME NEW p \in SynPacket, SynArrive(c, p) PROVE InOrder(c, Unread)'
    BY <1>1, <1>3, OrderGoesOn DEF SynArrive, BeginWithLookup, Unread, history
  <1>4. CASE \/ SynInsert(c) \/ SynAge(c) \/ SynCountSynAck(c) \/ SynCountSyn(c)
             \/ SynJudgeRate(c) \/ SynJudgeAcks(c) \/ SynDrop(c)
             \/ SynReopen(c) \/ SynResetOwn(c) \/ SynResetOther(c)
    <2>1. received' = received /\ clock' = clock /\ cpu[c].at \notin Unread
      BY <1>4 DEF SynInsert, SynAge, SynCountSynAck, SynCountSyn, SynJudgeRate,
         SynJudgeAcks, SynDrop, SynReopen, SynResetOwn, SynResetOther, history, At,
         Unread
    <2>2. Return(c) \/ \E label \in SynLabel : Goto(c, label)
      BY <1>4 DEF SynInsert, SynAge, SynCountSynAck, SynCountSyn, SynJudgeRate,
         SynJudgeAcks, SynDrop, SynReopen, SynResetOwn, SynResetOther, SynPass,
         SynLabel
    <2> QED
      BY <1>1, <2>1, <2>2, OrderGoesOn
  <1>5. CASE Evict \/ Tick \/ Finished \/ UNCHANGED vars
    BY <1>1, <1>5, OrderOutside
  <1> QED
    BY <1>2, <1>3, <1>4, <1>5 DEF SynOwn, SynHandle

LEMMA SynUnsharedStep ==
  ASSUME OneCpu
  PROVE  SynUnshared /\ [SynOwn]_vars => SynUnshared'
  <1> SUFFICES ASSUME SynUnshared, [SynOwn]_vars PROVE SynUnshared'
    OBVIOUS
  <1>1. PICK c : CPU = {c}
    BY DEF OneCpu
  <1>2. SynTypeOK /\ SynTypeOK'
    BY TypeStep DEF SynUnshared, SynNext
  <1>3. /\ c \in CPU /\ mem \in [Elem -> SynCounters]
        /\ cpu \in [CPU -> CpuStates(SynPacket, SynLabel)]
        /\ clock \in Time /\ cpu[c].now \in Time
        /\ cpu[c].elem \in Elem \cup {NoElem}
        /\ cpu[c].at \in SynLabel
        /\ ~ At(c, "idle") => cpu[c].pkt \in SynPacket
        /\ cpu[c].at \notin {"idle", "stamp", "insert"} => cpu[c].elem \in Elem
        /\ entry \in Elem \cup {NoElem} /\ received \in Seq(Dated(SynPacket))
    BY <1>1, <1>2 DEF SynTypeOK, TypesOK, CpuStates
  <1>4. SynAlone(c) /\ cpu[c].now <= clock
    BY <1>1 DEF SynUnshared, InOrder
  <1>5. SUFFICES SynAlone(c)'
    BY <1>1, <1>2, SynOrderStep DEF SynUnshared
  <1>6. \A t : SynsSince(t) \in Nat
    BY <1>3, BetweenFinite DEF SynsSince
  <1>7. received' = received => \A t : SynsSince(t)' = SynsSince(t)
    BY DEF SynsSince
  <1> HIDE DEF SynsSince
  <1>8. \A e \in Elem : mem[e].syn \in Nat /\ mem[e].last \in Nat /\ mem[e].last \in Time
    BY <1>3, Bounds DEF SynCounters
  <1>9. /\ clock \in Nat /\ cpu[c].now \in Nat /\ clock <= MaxClock
        /\ cpu[c].now <= MaxClock /\ Window \in Nat /\ MaxClock \in Nat
    BY <1>3, LruEntryAssumption DEF Time
  <1>10. CASE Evict \/ Tick \/ Finished \/ UNCHANGED vars
    <2>1. /\ UNCHANGED <<mem, cpu, received>> /\ entry' \in {entry, NoElem}
          /\ clock' \in Nat /\ clock <= clock'
      BY <1>9, <1>10 DEF Evict, Tick, Finished, vars, history
    <2>2. Used(c)' \in {Used(c), NoElem}
      BY <2>1 DEF Used, At
    <2>3. Used(c)' # NoElem =>
            /\ mem[Used(c)].last <= clock'
            /\ ~ Resetting(c) =>
                 mem[Used(c)].syn + Pending(c) <= SynsSince(mem[Used(c)].last)
      <3>1. Used(c)' # NoElem => Used(c) \in Elem
        BY <1>3, <2>2 DEF Used
      <3> QED
        BY <1>4, <1>8, <1>9, <2>1, <2>2, <3>1 DEF SynAlone
    <2>4. /\ Resetting(c)' = Resetting(c) /\ Pending(c)' = Pending(c)
          /\ Stamped(c)' = Stamped(c) /\ cpu[c].now <= clock'
          /\ \A l : At(c, l)' = At(c, l)
      BY <1>4, <1>9, <2>1 DEF Resetting, Pending, Stamped, At
    <2> QED
      BY <1>4, <1>7, <2>1, <2>2, <2>3, <2>4 DEF SynAlone
  <1>11. ASSUME NEW p \in SynPacket, SynArrive(c, p) PROVE SynAlone(c)'
    BY <1>3, <1>4, <1>7, <1>9, <1>11
       DEF SynArrive, BeginWithLookup, SynAlone, Used, At, Resetting, Pending,
           history
  <1>12. CASE SynStamp(c)
    <2>1. /\ At(c, "stamp")
          /\ cpu'[c] = [cpu[c] EXCEPT !.now = clock,
                          !.at = IF cpu[c].elem = NoElem THEN "insert" ELSE "age"]
          /\ received' = Append(received, [t |-> clock, pkt |-> cpu[c].pkt])
          /\ UNCHANGED <<clock, entry, mem>>
      BY <1>3, <1>12 DEF SynStamp, ThenClock
    <2>2. /\ received' # <<>> /\ [t |-> clock, pkt |-> cpu[c].pkt] \in Dated(SynPacket)
          /\ received'[Len(received')] = [t |-> clock, pkt |-> cpu[c].pkt]
      BY <1>3, <2>1 DEF Dated, At
    <2>3. Stamped(c)' = [t |-> clock, pkt |-> cpu[c].pkt]
      BY <1>3, <2>1 DEF Stamped, CpuStates
    <2>4. cpu[c].elem # NoElem =>
            mem[cpu[c].elem].syn + Pending(c)' <= SynsSince(mem[cpu[c].elem].last)'
      <3> SUFFICES ASSUME cpu[c].elem # NoElem
                   PROVE  mem[cpu[c].elem].syn + Pending(c)'
                            <= SynsSince(mem[cpu[c].elem].last)'
        OBVIOUS
      <3>1. /\ mem[cpu[c].elem].syn <= SynsSince(mem[cpu[c].elem].last)
            /\ mem[cpu[c].elem].last <= clock /\ cpu[c].elem \in Elem
        BY <1>3, <1>4, <1>6, <1>8, <2>1 DEF SynAlone, Used, Resetting, Pending, At
      <3>2. Pending(c)' = IF cpu[c].pkt = "syn" THEN 1 ELSE 0
        BY <1>3, <2>1 DEF Pending, CpuStates
      <3>3. SynsSince(mem[cpu[c].elem].last)' =
              SynsSince(mem[cpu[c].elem].last)
                + IF cpu[c].pkt = "syn" THEN 1 ELSE 0
        BY <1>3, <1>8, <1>9, <2>1, <2>2, <3>1, BetweenGrows DEF SynsSince
      <3> QED
        BY <1>6, <1>8, <3>1, <3>2, <3>3
    <2> QED
      BY <1>3, <1>4, <1>9, <2>1, <2>2, <2>3, <2>4
         DEF SynAlone, Used, At, CpuStates
  <1>13. CASE SynInsert(c)
    <2>1. PICK e \in Elem \ {entry} :
            /\ entry' = e /\ cpu'[c] = Idle /\ UNCHANGED <<clock, received>>
            /\ mem'[e] = SynOpening(cpu[c].pkt, cpu[c].now)
      BY <1>3, <1>13 DEF SynInsert, Link, SynPass, Return
    <2>2. /\ mem'[e].last = cpu[c].now
          /\ mem'[e].syn = IF cpu[c].pkt = "syn" THEN 1 ELSE 0
      BY <2>1 DEF SynOpening
    <2> PICK now : now = cpu[c].now
      OBVIOUS
    <2>3. (IF cpu[c].pkt = "syn" THEN 1 ELSE 0) <= SynsSince(now)
      <3>1. received # <<>> /\ received[Len(received)] = Stamped(c)
        BY <1>4, <1>13 DEF SynAlone, SynInsert, At
      <3>2. cpu[c].pkt = "syn" => 1 <= SynsSince(now)
        BY <1>3, <1>9, <3>1, BetweenLast DEF Stamped, SynsSince
      <3> QED
        BY <1>6, <3>2
    <2>4. cpu[c].now <= clock /\ 0 <= clock
      BY <1>4, <1>9 DEF SynAlone
    <2>5. Used(c)' = e /\ ~ Resetting(c)' /\ Pending(c)' = 0
      BY <2>1 DEF Used, Resetting, Pending, Idle, At
    <2>6. /\ mem'[e].syn + 0 <= SynsSince(now)'
          /\ mem'[e].last = now /\ now <= clock'
      BY <1>7, <2>1, <2>2, <2>3, <2>4
    <2> QED
      BY <2>1, <2>4, <2>5, <2>6 DEF SynAlone, Idle, At
  <1>14. CASE SynAge(c)
    <2>1. /\ At(c, "age") /\ UNCHANGED <<clock, entry, mem, received>>
          /\ cpu'[c] = [cpu[c] EXCEPT !.at =
                IF SynFresh(cpu[c].now, mem[cpu[c].elem].last) THEN "count"
                ELSE "reopen"]
      BY <1>3, <1>14 DEF SynAge, Goto, history
    <2>2. SynFresh(cpu[c].now, mem[cpu[c].elem].last) =>
            cpu[c].now \in mem[cpu[c].elem].last .. (mem[cpu[c].elem].last + Window - 1)
      BY <1>3, <1>8, <2>1, FreshIsRecent DEF At
    <2> QED
      BY <1>3, <1>4, <1>6, <1>7, <1>8, <2>1, <2>2
         DEF SynAlone, Used, At, Resetting, Pending, Stamped, CpuStates
  <1>15. CASE SynCountSynAck(c)
    <2>1. /\ UNCHANGED <<clock, entry, received>> /\ cpu'[c] = Idle
          /\ At(c, "count") /\ cpu[c].elem \in Elem
          /\ mem'[cpu[c].elem].syn = mem[cpu[c].elem].syn
          /\ mem'[cpu[c].elem].last = mem[cpu[c].elem].last
      BY <1>3, <1>15 DEF SynCountSynAck, SynPass, Return, SynCounters, At
    <2> PICK e \in Elem, last \in Nat : e = cpu[c].elem /\ last = mem[e].last
      BY <1>8, <2>1
    <2>2. /\ Used(c) = e /\ ~ Resetting(c) /\ e # NoElem
          /\ entry \in {e, NoElem} /\ Pending(c) \in {0, 1}
      BY <1>3, <1>4, <2>1, Bounds DEF SynAlone, Used, At, Resetting, Pending
    <2>3. last <= clock /\ mem[e].syn <= SynsSince(last) /\ mem[e].syn \in Nat
      <3>1. last <= clock /\ mem[e].syn + Pending(c) <= SynsSince(last)
        BY <1>4, <2>2 DEF SynAlone
      <3>2. mem[e].syn \in Nat /\ SynsSince(last) \in Nat
        BY <1>6, <1>8
      <3> QED
        BY <2>2, <3>1, <3>2
    <2>4. Used(c)' = entry /\ ~ Resetting(c)' /\ Pending(c)' = 0
      BY <2>1 DEF Used, At, Resetting, Pending, Idle
    <2>5. /\ mem'[e].last = last /\ last <= clock'
          /\ mem'[e].syn + 0 <= SynsSince(last)'
      BY <1>7, <2>1, <2>3
    <2> QED
      BY <2>1, <2>2, <2>4, <2>5 DEF SynAlone, At, Idle
  <1>16. CASE SynCountSyn(c)
    <2>1. /\ UNCHANGED <<clock, entry, received>>
          /\ cpu'[c] = [cpu[c] EXCEPT !.at = "rate"]
          /\ At(c, "count") /\ cpu[c].elem \in Elem /\ cpu[c].pkt = "syn"
          /\ mem'[cpu[c].elem].syn = mem[cpu[c].elem].syn + 1
          /\ mem'[cpu[c].elem].last = mem[cpu[c].elem].last
      BY <1>3, <1>16 DEF SynCountSyn, Goto, SynCounters, At, history
    <2> PICK e \in Elem, last \in Nat : e = cpu[c].elem /\ last = mem[e].last
      BY <1>8, <2>1
    <2>2. /\ Used(c) = e /\ ~ Resetting(c) /\ e # NoElem /\ Pending(c) = 1
          /\ entry \in {e, NoElem}
          /\ received # <<>> /\ received[Len(received)] = Stamped(c)
          /\ cpu[c].now \in last .. (last + Window - 1)
      BY <1>3, <1>4, <2>1, Bounds DEF SynAlone, Used, At, Resetting, Pending
    <2>3. last <= clock /\ mem[e].syn + 1 <= SynsSince(last) /\ mem[e].syn \in Nat
      BY <1>4, <1>8, <2>2 DEF SynAlone
    <2>4. /\ cpu'[c].at = "rate" /\ cpu'[c].now = cpu[c].now
          /\ cpu'[c].elem = e /\ cpu'[c].pkt = cpu[c].pkt
      BY <1>3, <2>1 DEF CpuStates
    <2>5. /\ Used(c)' = e /\ ~ Resetting(c)' /\ Pending(c)' = 0
          /\ Stamped(c)' = Stamped(c)
      BY <2>4 DEF Used, At, Resetting, Pending, Stamped
    <2>6. /\ mem'[e].last = last /\ last <= clock'
          /\ mem'[e].syn + 0 <= SynsSince(last)'
      BY <1>7, <2>1, <2>3
    <2> QED
      BY <2>1, <2>2, <2>4, <2>5, <2>6 DEF SynAlone, At
  <1>17. CASE SynJudgeRate(c) \/ SynJudgeAcks(c) \/ SynDrop(c)
    <2>1. /\ UNCHANGED <<clock, entry, mem, received>>
          /\ \/ cpu'[c] = Idle
             \/ /\ cpu'[c] = [cpu[c] EXCEPT !.at = "acks"] /\ At(c, "rate")
                /\ mem[cpu[c].elem].syn > SynFloodRate
             \/ cpu'[c] = [cpu[c] EXCEPT !.at = "drop"] /\ At(c, "acks")
          /\ cpu[c].at \in {"rate", "acks", "drop"} /\ cpu[c].elem \in Elem
      BY <1>3, <1>17
         DEF SynJudgeRate, SynJudgeAcks, SynDrop, SynPass, Goto, Return, At,
             SynOverRate, history
    <2>2. CASE cpu'[c] = Idle
      BY <1>3, <1>4, <1>6, <1>7, <1>8, <1>9, <2>1, <2>2, Bounds
         DEF SynAlone, Used, At, Resetting, Pending, Idle
    <2>3. CASE cpu'[c] = [cpu[c] EXCEPT !.at = "acks"] /\ At(c, "rate")
               /\ mem[cpu[c].elem].syn > SynFloodRate
      BY <1>3, <1>4, <1>7, <2>1, <2>3
         DEF SynAlone, Used, At, Resetting, Pending, Stamped, CpuStates
    <2>4. CASE cpu'[c] = [cpu[c] EXCEPT !.at = "drop"] /\ At(c, "acks")
      BY <1>3, <1>4, <1>7, <2>1, <2>4
         DEF SynAlone, Used, At, Resetting, Pending, Stamped, CpuStates
    <2> QED
      BY <2>1, <2>2, <2>3, <2>4
  <1>18. CASE SynReopen(c)
    <2>1. /\ UNCHANGED <<clock, entry, received>>
          /\ cpu'[c] = [cpu[c] EXCEPT !.at = "own"]
          /\ At(c, "reopen") /\ cpu[c].elem \in Elem
          /\ mem'[cpu[c].elem].last = cpu[c].now
      BY <1>3, <1>18 DEF SynReopen, Goto, SynCounters, At
    <2>2. /\ cpu'[c].at = "own" /\ cpu'[c].now = cpu[c].now
          /\ cpu'[c].elem = cpu[c].elem /\ cpu'[c].pkt = cpu[c].pkt
      BY <1>3, <2>1 DEF CpuStates
    <2>3. Stamped(c)' = Stamped(c) /\ Used(c)' = cpu[c].elem
      BY <2>2 DEF Stamped, Used, At
    <2>4. Resetting(c)'
      BY <2>2 DEF Resetting, At
    <2> QED
      BY <1>4, <2>1, <2>2, <2>3, <2>4 DEF SynAlone, At
  <1>19. CASE SynResetOwn(c)
    <2>1. /\ UNCHANGED <<clock, entry, received>>
          /\ cpu'[c] = [cpu[c] EXCEPT !.at = "other"]
          /\ At(c, "own") /\ cpu[c].elem \in Elem
          /\ cpu[c].pkt = "syn" => mem'[cpu[c].elem].syn = 1
          /\ mem'[cpu[c].elem].last = mem[cpu[c].elem].last
      BY <1>3, <1>19 DEF SynResetOwn, Goto, SynCounters, At, history
    <2>2. /\ mem[cpu[c].elem].last = cpu[c].now /\ received # <<>>
          /\ received[Len(received)] = Stamped(c) /\ cpu[c].pkt \in SynPacket
      BY <1>3, <1>4, <2>1 DEF SynAlone, At
    <2>3. cpu[c].pkt = "syn" => 1 <= SynsSince(cpu[c].now)
      BY <1>3, <1>9, <2>2, BetweenLast DEF Stamped, SynsSince
    <2> QED
      BY <1>3, <1>4, <1>7, <2>1, <2>2, <2>3
         DEF SynAlone, Used, At, Resetting, Pending, Stamped, CpuStates, SynPacket
  <1>20. CASE SynResetOther(c)
    <2>1. /\ UNCHANGED <<clock, entry, received>> /\ cpu'[c] = Idle
          /\ At(c, "other") /\ cpu[c].elem \in Elem
          /\ IF cpu[c].pkt = "syn"
             THEN mem'[cpu[c].elem].syn = mem[cpu[c].elem].syn
             ELSE mem'[cpu[c].elem].syn = 0
          /\ mem'[cpu[c].elem].last = mem[cpu[c].elem].last
      BY <1>3, <1>20 DEF SynResetOther, SynPass, Return, SynCounters, At
    <2> QED
      BY <1>3, <1>4, <1>6, <1>7, <1>8, <1>9, <2>1, Bounds
         DEF SynAlone, Used, At, Resetting, Pending, Idle, SynPacket
  <1> QED
    BY <1>1, <1>10, <1>11, <1>12, <1>13, <1>14, <1>15, <1>16, <1>17, <1>18,
       <1>19, <1>20
       DEF SynOwn, SynHandle

LEMMA SynUnsharedSuffices == SynUnshared => SynDropJustified
  <1> SUFFICES ASSUME SynUnshared, NEW c \in CPU, At(c, "drop")
               PROVE  \E t \in cpu[c].now .. (cpu[c].now + Window - 1) :
                        SynsBy(received, t) > SynFloodRate
    BY DEF SynDropJustified
  <1> DEFINE last == mem[cpu[c].elem].last
             t == last + Window - 1
  <1>1. /\ cpu[c].elem \in Elem /\ last \in Nat /\ mem[cpu[c].elem].syn \in Nat
        /\ received \in Seq(Dated(SynPacket)) /\ cpu[c].now \in Nat
        /\ Window \in Nat /\ MaxClock \in Nat /\ SynFloodRate \in Nat
    BY Bounds, LruEntryAssumption, RatesAre
       DEF SynUnshared, SynTypeOK, TypesOK, CpuStates, SynCounters, At
  <1>2. /\ cpu[c].now \in last .. (last + Window - 1)
        /\ mem[cpu[c].elem].syn > SynFloodRate
        /\ mem[cpu[c].elem].syn <= SynsSince(last)
        /\ received # <<>> /\ received[Len(received)] = Stamped(c)
    BY <1>1, Bounds
       DEF SynUnshared, SynAlone, At, Used, Resetting, Pending
  <1>3. cpu[c].now <= t /\ t \in cpu[c].now .. (cpu[c].now + Window - 1)
    BY <1>1, <1>2
  <1>4. Between(received, {"syn"}, last, MaxClock)
          \subseteq SynsOf(received) \cap Within(received, t, Window)
    <2>1. \A i \in DOMAIN received : received[i].t <= cpu[c].now
      BY DEF SynUnshared, InOrder, At, Unread
    <2>2. \A i \in DOMAIN received : received[i].t \in Nat
      BY <1>1, DatesAre
    <2>3. \A i \in DOMAIN received :
            received[i].t \in last .. MaxClock
              => received[i].t \in (t - Window + 1) .. t
      <3>1. t \in Int /\ t - Window + 1 = last /\ cpu[c].now <= t
        <4>1. last \in Nat /\ Window \in Nat /\ t = last + Window - 1
          BY <1>1
        <4> HIDE DEF last, t
        <4> QED
          BY <1>3, <4>1
      <3> HIDE DEF last, t
      <3> QED
        BY <1>1, <2>1, <2>2, <3>1
    <2> QED
      BY <2>3 DEF Between, SynsOf, Within
  <1>5. SynsOf(received) \cap Within(received, t, Window) \subseteq 1 .. Len(received)
    BY <1>1 DEF SynsOf
  <1>6. /\ SynsSince(last) <= SynsBy(received, t)
        /\ SynsSince(last) \in Nat /\ SynsBy(received, t) \in Nat
    <2>1. IsFiniteSet(1 .. Len(received))
      <3>1. Len(received) \in Nat
        BY <1>1
      <3> QED
        BY <3>1, FS_Interval
    <2> QED
      BY <1>4, <1>5, <2>1, FS_Subset, FS_CardinalityType DEF SynsSince, SynsBy
  <1> QED
    BY <1>1, <1>2, <1>3, <1>6

-----------------------------------------------------------------------------
(* One CPU: no second lets more through than two windows do *)

\* Of the packets of S, those let through since the window opened at last, and
\* those of the second before, are no more than cap; and no second has let
\* more than twice as many through.
Capped(S, cap, last) ==
  /\ Cardinality(Between(passed, S, last, MaxClock)) <= cap
  /\ Cardinality(Between(passed, S, last - Window + 1, last - 1)) <= cap
  /\ \A t \in Time :
       Cardinality(Between(passed, S, t - Window + 1, t)) <= 2 * cap

LEMMA CappedAtFirst ==
  ASSUME NEW S, NEW cap \in Nat, NEW last \in Nat, passed = <<>>
  PROVE  Capped(S, cap, last)
  <1>1. \A a, b : Between(passed, S, a, b) = {}
    BY DEF Between
  <1>2. Cardinality({}) = 0
    BY FS_EmptySet
  <1>3. 0 <= cap /\ 0 <= 2 * cap
    OBVIOUS
  <1> QED
    BY <1>1, <1>2, <1>3 DEF Capped

\* A window opens when the one before is over.
LEMMA CappedOpen ==
  ASSUME NEW P, passed \in Seq(Dated(P)), NEW S, NEW cap \in Nat,
         NEW last \in Nat, NEW now \in Nat, last + Window <= now,
         \A i \in DOMAIN passed : passed[i].t < last + Window,
         Capped(S, cap, last)
  PROVE  /\ Capped(S, cap, now)
         /\ Cardinality(Between(passed, S, now, MaxClock)) = 0
  <1> USE LruEntryAssumption
  <1>1. Between(passed, S, now, MaxClock) = {}
    BY DatesAre DEF Between
  <1>2. Cardinality(Between(passed, S, now, MaxClock)) = 0
    BY <1>1, FS_EmptySet
  <1>3. Between(passed, S, now - Window + 1, now - 1)
          \subseteq Between(passed, S, last, MaxClock)
    BY DatesAre DEF Between, Time
  <1>4. Cardinality(Between(passed, S, now - Window + 1, now - 1))
          <= Cardinality(Between(passed, S, last, MaxClock))
    BY <1>3, BetweenFinite, FS_Subset
  <1>5. /\ Cardinality(Between(passed, S, now - Window + 1, now - 1)) \in Nat
        /\ Cardinality(Between(passed, S, last, MaxClock)) \in Nat
    BY BetweenFinite
  <1> QED
    BY <1>2, <1>4, <1>5 DEF Capped

\* A packet is let through in the window.
LEMMA CappedPass ==
  ASSUME NEW P, passed \in Seq(Dated(P)), NEW S, NEW cap \in Nat,
         NEW last \in Nat, NEW x \in Dated(P), passed' = Append(passed, x),
         last <= x.t, Capped(S, cap, last),
         Cardinality(Between(passed', S, last, MaxClock)) <= cap
  PROVE  Capped(S, cap, last)'
  <1> DEFINE N(a, b)    == Cardinality(Between(passed, S, a, b))
             More(a, b) == Cardinality(Between(passed', S, a, b))
  <1>1. passed' \in Seq(Dated(P)) /\ x.t \in Nat
    <2>1. x.t \in Time
      BY DEF Dated
    <2> QED
      BY <2>1, Bounds, Appended
  <1>2. Window \in Nat /\ MaxClock \in Nat
    BY LruEntryAssumption
  <1>3. \A a, b : N(a, b) \in Nat /\ More(a, b) \in Nat
    BY <1>1, BetweenFinite
  <1>4. ASSUME NEW a \in Int, NEW b \in Int, b < last
        PROVE  More(a, b) = N(a, b)
    <2>1. x.t \notin a .. b
      BY <1>1, <1>4
    <2> QED
      BY <1>3, <2>1, BetweenGrows
  <1>5. ASSUME NEW t \in Time PROVE More(t - Window + 1, t) <= 2 * cap
    <2> t \in Nat /\ t <= MaxClock
      BY <1>2 DEF Time
    <2>1. CASE t < last
      <3>1. More(t - Window + 1, t) = N(t - Window + 1, t)
        BY <1>2, <1>4, <2>1
      <3> QED
        BY <3>1 DEF Capped
    <2>2. CASE t >= last
      <3> t - Window + 1 \in Int /\ last - Window + 1 \in Int /\ last - 1 \in Int
        BY <1>2
      <3>1. More(t - Window + 1, t)
              <= More(t - Window + 1, last - 1) + More(last, t)
        <4>1. last \in Int /\ t \in Int
          OBVIOUS
        <4> QED
          BY <1>1, <4>1, BetweenSplit
      <3>2. More(last, t) <= More(last, MaxClock)
        <4>1. last <= last /\ t <= MaxClock /\ last \in Int /\ t \in Int
              /\ MaxClock \in Int
          BY <1>2
        <4> QED
          BY <1>1, <4>1, BetweenWider
      <3>3. More(t - Window + 1, last - 1) <= More(last - Window + 1, last - 1)
        <4>1. last - Window + 1 <= t - Window + 1 /\ last - 1 <= last - 1
          BY <1>2, <2>2
        <4> QED
          BY <1>1, <4>1, BetweenWider
      <3>4. More(last - Window + 1, last - 1) = N(last - Window + 1, last - 1)
        BY <1>2, <1>4
      <3>5. N(last - Window + 1, last - 1) <= cap
        BY DEF Capped
      <3> HIDE DEF N, More
      <3>6. /\ More(t - Window + 1, t) \in Nat /\ More(last, t) \in Nat
            /\ More(t - Window + 1, last - 1) \in Nat
            /\ More(last, MaxClock) \in Nat /\ More(last, MaxClock) <= cap
            /\ More(last - Window + 1, last - 1) \in Nat
        BY <1>3 DEF More
      <3> QED
        BY <3>1, <3>2, <3>3, <3>4, <3>5, <3>6
    <2> QED
      BY <1>1, <2>1, <2>2
  <1>6. More(last - Window + 1, last - 1) <= cap
    <2>1. N(last - Window + 1, last - 1) <= cap
      BY DEF Capped
    <2> QED
      BY <1>2, <1>4, <2>1
  <1> QED
    BY <1>5, <1>6 DEF Capped

SynCap == IF SynFloodRate = 0 THEN 1 ELSE SynFloodRate

\* How many SYNs of the window that opened at last were let through.
SynLet(last) == Cardinality(Between(passed, {"syn"}, last, MaxClock))

\* The entry of a plain flood, between two statements of the one CPU.
SynFlooded(c) ==
  /\ entry = NoElem => passed = <<>>
  /\ ~ At(c, "idle") => cpu[c].elem = entry
  /\ entry # NoElem =>
       /\ mem[entry].synack = 0
       /\ Capped({"syn"}, SynCap, mem[entry].last)
       /\ \A i \in DOMAIN passed : passed[i].t < mem[entry].last + Window
       /\ At(c, "age") => mem[entry].last <= cpu[c].now
       /\ At(c, "reopen") => mem[entry].last + Window <= cpu[c].now
       /\ cpu[c].at \in {"own", "other"} => SynLet(mem[entry].last) = 0
       /\ At(c, "other") => mem[entry].syn = 1
       /\ ~ At(c, "own") =>
            SynLet(mem[entry].last) + (IF At(c, "rate") THEN 1 ELSE 0)
              <= mem[entry].syn

SynPlain == SynUnshared /\ (SynPlainFlood => \A c \in CPU : SynFlooded(c))

LEMMA SynPlainInit == SynInit => SynPlain
  BY SynUnsharedInit
     DEF SynPlain, SynInit, InitWith, SynFlooded, Idle, At

\* The flood has been a plain one so far.
LEMMA PlainBefore ==
  ASSUME NEW x, received \in Seq(Dated(SynPacket)), x \in Dated(SynPacket),
         SynsOf(Append(received, x)) = DOMAIN Append(received, x)
  PROVE  SynsOf(received) = DOMAIN received
  <1> DEFINE more == Append(received, x)
  <1>1. /\ DOMAIN received \subseteq DOMAIN more
        /\ \A i \in DOMAIN received : more[i] = received[i]
    OBVIOUS
  <1> QED
    BY <1>1 DEF SynsOf

LEMMA PlainStep ==
  ASSUME SynTypeOK, [SynOwn]_vars, SynPlainFlood'
  PROVE  SynPlainFlood
  <1>1. /\ received \in Seq(Dated(SynPacket)) /\ evicted \in BOOLEAN
        /\ cpu \in [CPU -> CpuStates(SynPacket, SynLabel)] /\ clock \in Time
        /\ \A c \in CPU : ~ At(c, "idle") => cpu[c].pkt \in SynPacket
    BY DEF SynTypeOK, TypesOK
  <1>0. Unshared
    BY OwnAddNothing DEF SynPlainFlood, Unshared
  <1>2. CASE received' = received /\ (evicted' = evicted \/ evicted')
    BY <1>0, <1>1, <1>2 DEF SynPlainFlood
  <1>3. ASSUME NEW c \in CPU, SynStamp(c) PROVE SynPlainFlood
    <2>1. /\ received' = Append(received, [t |-> clock, pkt |-> cpu[c].pkt])
          /\ evicted' = evicted /\ ~ At(c, "idle")
      BY <1>3 DEF SynStamp, ThenClock, At
    <2>2. [t |-> clock, pkt |-> cpu[c].pkt] \in Dated(SynPacket)
      BY <1>1, <2>1 DEF Dated
    <2> QED
      BY <1>0, <1>1, <2>1, <2>2, PlainBefore DEF SynPlainFlood
  <1>4. ASSUME NEW c \in CPU, SynHandle(c), ~ SynStamp(c)
        PROVE  received' = received /\ evicted' = evicted
    BY <1>4 DEF SynHandle, SynArrive, BeginWithLookup, SynInsert, SynAge,
       SynCountSynAck, SynCountSyn, SynJudgeRate, SynJudgeAcks, SynDrop,
       SynReopen, SynResetOwn, SynResetOther, history
  <1>5. Evict \/ Tick \/ Finished \/ UNCHANGED vars
          => received' = received /\ (evicted' = evicted \/ evicted')
    BY DEF Evict, Tick, Finished, vars, history
  <1> QED
    BY <1>2, <1>3, <1>4, <1>5 DEF SynOwn

LEMMA SynPlainStep ==
  ASSUME OneCpu
  PROVE  SynPlain /\ [SynOwn]_vars => SynPlain'
  <1> SUFFICES ASSUME SynPlain, [SynOwn]_vars PROVE SynPlain'
    OBVIOUS
  <1>1. PICK c : CPU = {c}
    BY DEF OneCpu
  <1>2. SynUnshared /\ SynUnshared'
    BY SynUnsharedStep DEF SynPlain
  <1>3. SUFFICES ASSUME SynPlainFlood' PROVE SynFlooded(c)'
    BY <1>1, <1>2 DEF SynPlain
  <1>4. SynFlooded(c)
    BY <1>1, <1>2, <1>3, PlainStep DEF SynPlain, SynUnshared
  <1>5. /\ c \in CPU /\ mem \in [Elem -> SynCounters]
        /\ cpu \in [CPU -> CpuStates(SynPacket, SynLabel)]
        /\ clock \in Nat /\ cpu[c].now \in Nat /\ cpu[c].now \in Time
        /\ entry \in Elem \cup {NoElem} /\ passed \in Seq(Dated(SynPacket))
        /\ received' \in Seq(Dated(SynPacket))
        /\ ~ At(c, "idle") => cpu[c].pkt \in SynPacket
        /\ ~ At(c, "idle") => Stamped(c) \in Dated(SynPacket)
    BY <1>1, <1>2, Bounds
       DEF SynUnshared, SynTypeOK, TypesOK, CpuStates, Stamped, Dated
  <1>6. \A e \in Elem : /\ mem[e].last \in Time /\ mem[e].last \in Nat
                        /\ mem[e].syn \in Nat
    BY <1>5, Bounds DEF SynCounters
  <1>7. /\ SynCap \in Nat /\ SynCap >= 1 /\ SynFloodRate \in Nat
        /\ SynFloodRate <= SynCap /\ NoElem \notin Elem /\ Window \in Nat \ {0}
        /\ AckFactor \in Nat
    BY SynFloodAssumption, LruEntryAssumption DEF SynCap
  <1>8. SynAlone(c) /\ SynAlone(c)' /\ cpu[c].now <= clock
    BY <1>1, <1>2 DEF SynUnshared, InOrder
  <1>9. \A t : SynLet(t) \in Nat
    BY <1>5, BetweenFinite DEF SynLet
  <1>10. /\ passed' = passed => \A t : SynLet(t)' = SynLet(t)
         /\ passed' = passed => \A t : Capped({"syn"}, SynCap, t)'
                                         <=> Capped({"syn"}, SynCap, t)
    BY DEF SynLet, Capped
  <1>11. cpu[c].at \notin {"idle", "stamp"} => cpu[c].pkt = "syn"
    <2> SUFFICES ASSUME cpu[c].at \notin {"idle", "stamp"} PROVE cpu[c].pkt = "syn"
      OBVIOUS
    <2>1. /\ received # <<>> /\ received[Len(received)] = Stamped(c)
          /\ received \in Seq(Dated(SynPacket))
          /\ SynsOf(received) = DOMAIN received
      BY <1>2, <1>3, <1>8, PlainStep
         DEF SynAlone, SynPlainFlood, SynUnshared, SynTypeOK, TypesOK
    <2>2. Len(received) \in DOMAIN received
      BY <2>1
    <2>3. received[Len(received)].pkt = "syn"
      BY <2>1, <2>2 DEF SynsOf
    <2> QED
      BY <2>1, <2>3 DEF Stamped
  <1>12. ASSUME NEW last \in Nat, passed' = Append(passed, Stamped(c)),
                cpu[c].at \notin {"idle", "stamp"}, last <= cpu[c].now,
                cpu[c].now < last + Window,
                Capped({"syn"}, SynCap, last), SynLet(last) + 1 <= SynCap,
                \A i \in DOMAIN passed : passed[i].t < last + Window
         PROVE  /\ Capped({"syn"}, SynCap, last)' /\ SynLet(last)' = SynLet(last) + 1
                /\ \A i \in DOMAIN passed' : passed'[i].t < last + Window
                /\ passed' # <<>>
    <2>1. /\ Stamped(c) \in Dated(SynPacket) /\ Stamped(c).pkt = "syn"
          /\ Stamped(c).t = cpu[c].now
      BY <1>5, <1>11, <1>12 DEF Stamped, At
    <2>2. Stamped(c).t \in last .. MaxClock
      BY <1>5, <1>12, <2>1 DEF Time
    <2>3. SynLet(last)' = SynLet(last) + 1
      BY <1>5, <1>12, <2>1, <2>2, BetweenGrows DEF SynLet
    <2>4. Capped({"syn"}, SynCap, last)'
      BY <1>5, <1>7, <1>12, <2>1, <2>3, CappedPass DEF SynLet
    <2>5. \A i \in DOMAIN passed' :
             \/ i \in DOMAIN passed /\ passed'[i] = passed[i]
             \/ passed'[i] = Stamped(c)
      BY <1>5, <1>12
    <2> QED
      BY <1>5, <1>12, <2>1, <2>3, <2>4, <2>5
  <1>13. CASE Evict \/ Tick \/ Finished \/ UNCHANGED vars
    <2>1. UNCHANGED <<entry, mem, cpu, passed>>
      BY <1>3, <1>13 DEF Evict, Tick, Finished, vars, history, SynPlainFlood
    <2> QED
      BY <1>4, <1>10, <2>1 DEF SynFlooded, At
  <1>14. ASSUME NEW p \in SynPacket, SynArrive(c, p) PROVE SynFlooded(c)'
    BY <1>4, <1>5, <1>10, <1>14
       DEF SynArrive, BeginWithLookup, SynFlooded, At, history
  <1>15. CASE SynStamp(c)
    <2>1. /\ At(c, "stamp") /\ UNCHANGED <<clock, entry, mem, passed>>
          /\ cpu'[c] = [cpu[c] EXCEPT !.now = clock,
                          !.at = IF cpu[c].elem = NoElem THEN "insert" ELSE "age"]
      BY <1>5, <1>15 DEF SynStamp, ThenClock
    <2>2. entry # NoElem => mem[entry].last <= clock
      BY <1>4, <1>8, <2>1 DEF SynAlone, SynFlooded, Used, At
    <2> QED
      BY <1>4, <1>5, <1>10, <2>1, <2>2 DEF SynFlooded, At, CpuStates
  <1>16. CASE SynInsert(c)
    <2>1. passed = <<>> /\ At(c, "insert") /\ cpu[c].pkt = "syn"
      BY <1>4, <1>8, <1>11, <1>16 DEF SynInsert, SynAlone, SynFlooded, At
    <2>2. PICK e \in Elem :
            /\ entry' = e /\ cpu'[c] = Idle
            /\ mem'[e] = SynOpening(cpu[c].pkt, cpu[c].now)
            /\ passed' = Append(passed, Stamped(c))
      BY <1>5, <1>16, <2>1 DEF SynInsert, Link, SynPass, Return
    <2> PICK now \in Nat : now = cpu[c].now
      BY <1>5
    <2>3. Capped({"syn"}, SynCap, now) /\ SynLet(now) = 0
      <3>1. Between(passed, {"syn"}, now, MaxClock) = {}
        BY <2>1 DEF Between
      <3> QED
        BY <1>7, <2>1, <3>1, CappedAtFirst, FS_EmptySet DEF SynLet
    <2>4. /\ Capped({"syn"}, SynCap, now)' /\ SynLet(now)' = 1
          /\ \A i \in DOMAIN passed' : passed'[i].t < now + Window
      BY <1>7, <1>12, <2>1, <2>2, <2>3 DEF At
    <2>5. /\ mem'[e].last = now /\ mem'[e].syn = 1 /\ mem'[e].synack = 0
          /\ entry' # NoElem
      BY <1>7, <2>1, <2>2 DEF SynOpening
    <2> QED
      BY <2>2, <2>4, <2>5 DEF SynFlooded, At, Idle
  <1>17. CASE SynAge(c)
    <2>1. /\ At(c, "age") /\ UNCHANGED <<entry, mem, passed>>
          /\ cpu'[c] = [cpu[c] EXCEPT !.at =
                IF SynFresh(cpu[c].now, mem[cpu[c].elem].last) THEN "count"
                ELSE "reopen"]
      BY <1>5, <1>17 DEF SynAge, Goto, history
    <2>2. entry # NoElem /\ ~ SynFresh(cpu[c].now, mem[cpu[c].elem].last)
            => mem[entry].last + Window <= cpu[c].now
      <3> SUFFICES ASSUME entry # NoElem,
                          ~ SynFresh(cpu[c].now, mem[cpu[c].elem].last)
                   PROVE  mem[entry].last + Window <= cpu[c].now
        OBVIOUS
      <3>1. /\ cpu[c].elem = entry /\ entry \in Elem
            /\ mem[entry].last <= cpu[c].now
        BY <1>4, <1>5, <2>1 DEF SynFlooded, At
      <3>2. Elapsed(cpu[c].now, mem[entry].last) = cpu[c].now - mem[entry].last
        BY <1>5, <1>6, <3>1, ElapsedInOrder
      <3> QED
        BY <1>5, <1>6, <1>7, <3>1, <3>2 DEF SynFresh
    <2> QED
      BY <1>4, <1>5, <1>10, <2>1, <2>2 DEF SynFlooded, At, CpuStates
  <1>18. CASE SynCountSynAck(c)
    BY <1>11, <1>18 DEF SynCountSynAck, At
  <1>19. cpu[c].at \notin {"idle", "stamp", "insert"} =>
           cpu[c].elem = entry /\ entry \in Elem /\ entry # NoElem
    BY <1>1, <1>2, <1>4, <1>7 DEF SynFlooded, SynUnshared, SynTypeOK, At
  <1>20. CASE SynCountSyn(c)
    <2>1. /\ UNCHANGED <<entry, passed>> /\ At(c, "count")
          /\ cpu'[c] = [cpu[c] EXCEPT !.at = "rate"]
          /\ cpu[c].elem = entry /\ entry \in Elem /\ entry # NoElem
          /\ mem'[entry].syn = mem[entry].syn + 1
          /\ mem'[entry].synack = mem[entry].synack
          /\ mem'[entry].last = mem[entry].last
      BY <1>5, <1>19, <1>20 DEF SynCountSyn, Goto, SynCounters, At, history
    <2> QED
      BY <1>4, <1>5, <1>6, <1>9, <1>10, <2>1 DEF SynFlooded, At, CpuStates
  <1>21. CASE SynJudgeRate(c)
    <2>1. /\ At(c, "rate") /\ UNCHANGED <<entry, mem>> /\ cpu[c].elem = entry
          /\ entry \in Elem /\ entry # NoElem
          /\ \/ /\ cpu'[c] = [cpu[c] EXCEPT !.at = "acks"] /\ passed' = passed
             \/ /\ mem[entry].syn <= SynFloodRate /\ cpu'[c] = Idle
                /\ passed' = Append(passed, Stamped(c))
      <3>1. /\ At(c, "rate") /\ UNCHANGED <<entry, mem>>
            /\ cpu[c].elem = entry /\ entry \in Elem /\ entry # NoElem
        BY <1>11, <1>19, <1>21 DEF SynJudgeRate, At
      <3>2. mem[entry].syn \in Nat /\ SynFloodRate \in Nat
        BY <1>6, <3>1, RatesAre
      <3>3. cpu[c].pkt = "syn"
        BY <1>11, <3>1 DEF At
      <3>4. CASE SynOverRate(mem[cpu[c].elem])
        BY <1>5, <1>21, <3>1, <3>4 DEF SynJudgeRate, Goto, At
      <3>5. CASE ~ SynOverRate(mem[cpu[c].elem])
        BY <1>5, <1>21, <3>1, <3>2, <3>3, <3>5
           DEF SynJudgeRate, SynOverRate, SynPass, Return, At
      <3> QED
        BY <3>1, <3>4, <3>5
    <2>2. CASE cpu'[c] = [cpu[c] EXCEPT !.at = "acks"] /\ passed' = passed
      BY <1>4, <1>5, <1>6, <1>9, <1>10, <2>1, <2>2 DEF SynFlooded, At, CpuStates
    <2>3. CASE /\ mem[entry].syn <= SynFloodRate /\ cpu'[c] = Idle
               /\ passed' = Append(passed, Stamped(c))
      <3> PICK last \in Nat : last = mem[entry].last
        BY <1>6, <2>1
      <3>1. /\ last <= cpu[c].now /\ cpu[c].now < last + Window
            /\ Capped({"syn"}, SynCap, last) /\ SynLet(last) + 1 <= mem[entry].syn
            /\ \A i \in DOMAIN passed : passed[i].t < last + Window
        <4>1. cpu[c].now \in last .. (last + Window - 1)
          BY <1>8, <2>1 DEF SynAlone, At
        <4>2. last <= cpu[c].now /\ cpu[c].now < last + Window
          BY <1>5, <1>7, <4>1
        <4>3. /\ Capped({"syn"}, SynCap, last) /\ SynLet(last) + 1 <= mem[entry].syn
              /\ \A i \in DOMAIN passed : passed[i].t < last + Window
          BY <1>4, <2>1 DEF SynFlooded, At
        <4> QED
          BY <4>2, <4>3
      <3>2. SynLet(last) + 1 <= SynCap
        BY <1>6, <1>7, <1>9, <2>1, <2>3, <3>1
      <3>3. /\ Capped({"syn"}, SynCap, last)' /\ SynLet(last)' = SynLet(last) + 1
            /\ \A i \in DOMAIN passed' : passed'[i].t < last + Window
        BY <1>12, <2>1, <2>3, <3>1, <3>2 DEF At
      <3>4. /\ SynLet(last)' + 0 <= mem'[entry'].syn /\ mem'[entry'].last = last
            /\ mem'[entry'].synack = 0 /\ entry' # NoElem
        BY <1>4, <1>6, <1>9, <2>1, <3>1, <3>3 DEF SynFlooded
      <3> QED
        BY <2>3, <3>3, <3>4 DEF SynFlooded, At, Idle
    <2> QED
      BY <2>1, <2>2, <2>3
  <1>22. CASE SynJudgeAcks(c)
    <2>1. /\ At(c, "acks") /\ UNCHANGED <<entry, mem>> /\ cpu[c].elem = entry
          /\ entry \in Elem /\ entry # NoElem
      BY <1>19, <1>22 DEF SynJudgeAcks, At
    <2>2. SynUnanswered(mem[entry])
      <3>1. mem[entry].synack = 0 /\ mem[entry].syn > SynFloodRate
        BY <1>4, <1>8, <2>1 DEF SynFlooded, SynAlone, At
      <3>2. AckFactor * 0 = 0
        BY <1>7
      <3> QED
        BY <1>6, <1>7, <2>1, <3>1, <3>2, RatesAre DEF SynUnanswered
    <2>3. cpu'[c] = [cpu[c] EXCEPT !.at = "drop"] /\ passed' = passed
      BY <1>5, <1>22, <2>1, <2>2 DEF SynJudgeAcks, Goto
    <2> QED
      BY <1>4, <1>5, <1>10, <2>1, <2>3 DEF SynFlooded, At, CpuStates
  <1>23. CASE SynDrop(c)
    <2>1. /\ At(c, "drop") /\ UNCHANGED <<entry, mem, passed>> /\ cpu'[c] = Idle
      BY <1>5, <1>23 DEF SynDrop, Return, history
    <2> QED
      BY <1>4, <1>10, <2>1 DEF SynFlooded, At, Idle
  <1>24. CASE SynReopen(c)
    <2>1. /\ UNCHANGED <<entry, passed>> /\ At(c, "reopen")
          /\ cpu'[c] = [cpu[c] EXCEPT !.at = "own"]
          /\ cpu[c].elem = entry /\ entry \in Elem /\ entry # NoElem
          /\ mem'[entry].synack = mem[entry].synack
          /\ mem'[entry].last = cpu[c].now
      BY <1>5, <1>19, <1>24 DEF SynReopen, Goto, SynCounters, At
    <2> PICK last \in Nat, now \in Nat : last = mem[entry].last /\ now = cpu[c].now
      BY <1>5, <1>6, <2>1
    <2>2. /\ last + Window <= now /\ Capped({"syn"}, SynCap, last)
          /\ \A i \in DOMAIN passed : passed[i].t < last + Window
          /\ mem[entry].synack = 0
      BY <1>4, <2>1 DEF SynFlooded, At
    <2>3. Capped({"syn"}, SynCap, now) /\ SynLet(now) = 0
      BY <1>5, <1>7, <2>2, CappedOpen DEF SynLet
    <2>4. Capped({"syn"}, SynCap, now)' /\ SynLet(now)' = 0
      BY <1>10, <2>1, <2>3
    <2>5. \A i \in DOMAIN passed : passed[i].t < now + Window
      <3> SUFFICES ASSUME NEW i \in DOMAIN passed PROVE passed[i].t < now + Window
        OBVIOUS
      <3>1. passed[i].t \in Nat
        BY <1>5, DatesAre
      <3>2. passed[i].t < last + Window
        BY <2>2
      <3> QED
        BY <1>7, <2>2, <3>1, <3>2
    <2>6. /\ cpu'[c].at = "own" /\ cpu'[c].elem = entry'
          /\ entry' # NoElem /\ mem'[entry'].last = now
          /\ mem'[entry'].synack = 0
      BY <1>5, <2>1, <2>2 DEF CpuStates
    <2> QED
      BY <2>1, <2>4, <2>5, <2>6 DEF SynFlooded, At
  <1>25. CASE SynResetOwn(c)
    <2>1. /\ UNCHANGED <<entry, passed>> /\ At(c, "own")
          /\ cpu'[c] = [cpu[c] EXCEPT !.at = "other"]
          /\ cpu[c].elem = entry /\ entry \in Elem /\ entry # NoElem
          /\ mem'[entry].synack = mem[entry].synack
          /\ mem'[entry].last = mem[entry].last /\ mem'[entry].syn = 1
      BY <1>5, <1>11, <1>19, <1>25 DEF SynResetOwn, Goto, SynCounters, At, history
    <2> QED
      BY <1>4, <1>5, <1>10, <2>1 DEF SynFlooded, At, CpuStates
  <1>26. CASE SynResetOther(c)
    <2>1. /\ UNCHANGED entry /\ At(c, "other") /\ cpu'[c] = Idle
          /\ cpu[c].elem = entry /\ entry \in Elem /\ entry # NoElem
          /\ mem'[entry].synack = 0 /\ mem'[entry].syn = mem[entry].syn
          /\ mem'[entry].last = mem[entry].last
          /\ passed' = Append(passed, Stamped(c))
      BY <1>5, <1>11, <1>19, <1>26
         DEF SynResetOther, SynPass, Return, SynCounters, At
    <2> PICK last \in Nat : last = mem[entry].last
      BY <1>6, <2>1
    <2>2. /\ last = cpu[c].now /\ Capped({"syn"}, SynCap, last)
          /\ SynLet(last) = 0 /\ mem[entry].syn = 1
          /\ \A i \in DOMAIN passed : passed[i].t < last + Window
      BY <1>4, <1>8, <2>1 DEF SynFlooded, SynAlone, At
    <2>3. /\ Capped({"syn"}, SynCap, last)' /\ SynLet(last)' = 1
          /\ \A i \in DOMAIN passed' : passed'[i].t < last + Window
      <3>1. /\ last <= cpu[c].now /\ cpu[c].now < last + Window
            /\ SynLet(last) + 1 = 1 /\ SynLet(last) + 1 <= SynCap
            /\ cpu[c].at \notin {"idle", "stamp"}
        BY <1>7, <2>1, <2>2 DEF At
      <3> QED
        BY <1>12, <2>1, <2>2, <3>1
    <2>4. /\ entry' # NoElem /\ mem'[entry'].last = last
          /\ mem'[entry'].synack = 0 /\ mem'[entry'].syn = 1
      BY <2>1, <2>2
    <2> QED
      BY <2>1, <2>3, <2>4 DEF SynFlooded, At, Idle
  <1> QED
    BY <1>1, <1>13, <1>14, <1>15, <1>16, <1>17, <1>18, <1>20, <1>21, <1>22,
       <1>23, <1>24, <1>25, <1>26
       DEF SynOwn, SynHandle

LEMMA SynPlainSuffices == ASSUME OneCpu PROVE SynPlain => SynFloodCapped
  <1> SUFFICES ASSUME SynPlain, SynPlainFlood, NEW t \in Time
               PROVE  SynsBy(passed, t) <= 2 * SynCap
    BY DEF SynFloodCapped, SynCap
  <1>1. PICK c : c \in CPU /\ SynFlooded(c)
    BY DEF SynPlain, OneCpu
  <1>2. SynsOf(passed) \cap Within(passed, t, Window)
          = Between(passed, {"syn"}, t - Window + 1, t)
    BY DEF SynsOf, Within, Between
  <1>3. CASE entry # NoElem
    BY <1>1, <1>2, <1>3 DEF SynFlooded, Capped, SynsBy
  <1>4. CASE entry = NoElem
    <2>1. Between(passed, {"syn"}, t - Window + 1, t) = {}
      BY <1>1, <1>4 DEF SynFlooded, Between
    <2>2. SynCap \in Nat
      BY SynFloodAssumption DEF SynCap
    <2> QED
      BY <1>2, <2>1, <2>2, FS_EmptySet DEF SynsBy
  <1> QED
    BY <1>3, <1>4

-----------------------------------------------------------------------------
(* One CPU: DNS *)

\* Packets that arrived at t or later.
DnsSince(t) == Cardinality(Between(received, DnsPacket, t, MaxClock))

Uncounted1(c) == IF cpu[c].at \in {"age", "count"} THEN 1 ELSE 0

DnsAlone(c) ==
  /\ ~ At(c, "idle") => entry \in {cpu[c].elem, NoElem}
  /\ cpu[c].at \notin Unread =>
       received # <<>> /\ received[Len(received)] = Stamped(c)
  /\ Used(c) # NoElem =>
       /\ mem[Used(c)].last <= clock
       /\ ~ At(c, "reset") =>
            mem[Used(c)].count + Uncounted1(c) <= DnsSince(mem[Used(c)].last)
  /\ At(c, "reset") => mem[cpu[c].elem].last = cpu[c].now
  /\ cpu[c].at \in {"count", "rate", "size", "drop", "large"} =>
       cpu[c].now \in mem[cpu[c].elem].last .. (mem[cpu[c].elem].last + Window - 1)
  /\ At(c, "drop") => mem[cpu[c].elem].count > DnsThreshold(cpu[c].pkt)
  /\ At(c, "insert") => cpu[c].elem = NoElem

DnsUnshared ==
  DnsTyped /\ \A c \in CPU : InOrder(c, Unread) /\ DnsAlone(c)

LEMMA DnsUnsharedInit == DnsInit => DnsUnshared
  <1> SUFFICES ASSUME DnsInit, NEW c \in CPU
               PROVE  InOrder(c, Unread) /\ DnsAlone(c)
    BY DnsTypesInit DEF DnsUnshared
  <1>1. /\ cpu[c] = Idle /\ clock = 0 /\ received = <<>> /\ entry = NoElem
        /\ 0 <= 0 /\ DOMAIN received = {}
    BY DEF DnsInit, InitWith
  <1> QED
    BY <1>1 DEF InOrder, DnsAlone, Used, Idle, At, Unread

LEMMA DnsOrderStep ==
  ASSUME NEW c, CPU = {c}, DnsTyped, InOrder(c, Unread), [DnsOwn]_vars
  PROVE  InOrder(c, Unread)'
  <1>1. /\ c \in CPU /\ cpu \in [CPU -> CpuStates(DnsPacket, DnsLabel)]
        /\ clock \in Time /\ clock \in Nat /\ cpu[c].now <= clock
        /\ received \in Seq(Dated(DnsPacket))
    BY Bounds DEF DnsTyped, Typed, TypesOK, InOrder
  <1>2. CASE DnsStamp(c)
    <2>1. /\ received' = Append(received, [t |-> clock, pkt |-> cpu[c].pkt])
          /\ clock' = clock /\ cpu'[c].now = clock
      BY <1>1, <1>2 DEF DnsStamp, ThenClock, CpuStates
    <2> QED
      BY <1>1, <2>1, OrderRead
  <1>3. ASSUME NEW p \in DnsPacket, DnsArrive(c, p) PROVE InOrder(c, Unread)'
    BY <1>1, <1>3, OrderGoesOn DEF DnsArrive, BeginWithLookup, Unread, history
  <1>4. CASE \/ DnsInsert(c) \/ DnsAge(c) \/ DnsCount(c) \/ DnsJudge(c)
             \/ DnsJudgeSize(c) \/ DnsDrop(c) \/ DnsReopen(c) \/ DnsReset(c)
    <2>1. received' = received /\ clock' = clock /\ cpu[c].at \notin Unread
      BY <1>4 DEF DnsInsert, DnsAge, DnsCount, DnsJudge, DnsJudgeSize, DnsDrop,
         DnsReopen, DnsReset, history, At, Unread
    <2>2. Return(c) \/ \E label \in DnsLabel : Goto(c, label)
      BY <1>4 DEF DnsInsert, DnsAge, DnsCount, DnsJudge, DnsJudgeSize, DnsDrop,
         DnsReopen, DnsReset, DnsPass, DnsLabel
    <2> QED
      BY <1>1, <2>1, <2>2, OrderGoesOn
  <1>5. CASE Evict \/ Tick \/ Finished \/ UNCHANGED vars
    BY <1>1, <1>5, OrderOutside
  <1> QED
    BY <1>2, <1>3, <1>4, <1>5 DEF DnsOwn, DnsHandle

LEMMA DnsUnsharedStep ==
  ASSUME OneCpu
  PROVE  DnsUnshared /\ [DnsOwn]_vars => DnsUnshared'
  <1> SUFFICES ASSUME DnsUnshared, [DnsOwn]_vars PROVE DnsUnshared'
    OBVIOUS
  <1>1. PICK c : CPU = {c}
    BY DEF OneCpu
  <1>2. DnsTyped /\ DnsTyped'
    BY DnsTypesStep DEF DnsUnshared, DnsNext
  <1>3. /\ c \in CPU /\ mem \in [Elem -> DatedCounts]
        /\ cpu \in [CPU -> CpuStates(DnsPacket, DnsLabel)]
        /\ clock \in Time /\ cpu[c].now \in Time
        /\ cpu[c].elem \in Elem \cup {NoElem}
        /\ ~ At(c, "idle") => cpu[c].pkt \in DnsPacket
        /\ cpu[c].at \notin {"idle", "stamp", "insert"} => cpu[c].elem \in Elem
        /\ entry \in Elem \cup {NoElem} /\ received \in Seq(Dated(DnsPacket))
    BY <1>1, <1>2 DEF DnsTyped, Typed, TypesOK, CpuStates, Early
  <1>4. DnsAlone(c) /\ cpu[c].now <= clock
    BY <1>1 DEF DnsUnshared, InOrder
  <1>5. SUFFICES DnsAlone(c)'
    BY <1>1, <1>2, DnsOrderStep DEF DnsUnshared
  <1>6. \A t : DnsSince(t) \in Nat
    BY <1>3, BetweenFinite DEF DnsSince
  <1>7. received' = received => \A t : DnsSince(t)' = DnsSince(t)
    BY DEF DnsSince
  <1>8. \A e \in Elem : mem[e].count \in Nat /\ mem[e].last \in Nat /\ mem[e].last \in Time
    BY <1>3, Bounds DEF DatedCounts
  <1>9. /\ clock \in Nat /\ cpu[c].now \in Nat /\ clock <= MaxClock
        /\ cpu[c].now <= MaxClock /\ Window \in Nat /\ MaxClock \in Nat
    BY <1>3, LruEntryAssumption DEF Time
  <1>10. CASE Evict \/ Tick \/ Finished \/ UNCHANGED vars
    <2>1. /\ UNCHANGED <<mem, cpu, received>> /\ entry' \in {entry, NoElem}
          /\ clock' \in Nat /\ clock <= clock'
      BY <1>9, <1>10 DEF Evict, Tick, Finished, vars, history
    <2>2. Used(c)' \in {Used(c), NoElem}
      BY <2>1 DEF Used, At
    <2>3. Used(c)' # NoElem =>
            /\ mem[Used(c)].last <= clock'
            /\ ~ At(c, "reset") =>
                 mem[Used(c)].count + Uncounted1(c) <= DnsSince(mem[Used(c)].last)
      <3>1. Used(c)' # NoElem => Used(c) \in Elem
        BY <1>3, <2>2 DEF Used
      <3> QED
        BY <1>4, <1>8, <1>9, <2>1, <2>2, <3>1 DEF DnsAlone
    <2>4. /\ Uncounted1(c)' = Uncounted1(c) /\ Stamped(c)' = Stamped(c)
          /\ \A l : At(c, l)' = At(c, l)
      BY <2>1 DEF Uncounted1, Stamped, At
    <2> QED
      BY <1>4, <1>7, <2>1, <2>2, <2>3, <2>4 DEF DnsAlone
  <1>11. ASSUME NEW p \in DnsPacket, DnsArrive(c, p) PROVE DnsAlone(c)'
    BY <1>3, <1>4, <1>7, <1>11
       DEF DnsArrive, BeginWithLookup, DnsAlone, Used, At, Uncounted1, history,
           Unread
  <1>12. CASE DnsStamp(c)
    <2>1. /\ At(c, "stamp")
          /\ cpu'[c] = [cpu[c] EXCEPT !.now = clock,
                          !.at = IF cpu[c].elem = NoElem THEN "insert" ELSE "age"]
          /\ received' = Append(received, [t |-> clock, pkt |-> cpu[c].pkt])
          /\ UNCHANGED <<clock, entry, mem>>
      BY <1>3, <1>12 DEF DnsStamp, ThenClock
    <2>2. /\ received' # <<>> /\ [t |-> clock, pkt |-> cpu[c].pkt] \in Dated(DnsPacket)
          /\ received'[Len(received')] = [t |-> clock, pkt |-> cpu[c].pkt]
      BY <1>3, <2>1 DEF Dated, At
    <2>3. Stamped(c)' = [t |-> clock, pkt |-> cpu[c].pkt]
      BY <1>3, <2>1 DEF Stamped, CpuStates
    <2>4. cpu[c].elem # NoElem =>
            mem[cpu[c].elem].count + 1 <= DnsSince(mem[cpu[c].elem].last)'
      <3> SUFFICES ASSUME cpu[c].elem # NoElem
                   PROVE  mem[cpu[c].elem].count + 1
                            <= DnsSince(mem[cpu[c].elem].last)'
        OBVIOUS
      <3>1. /\ mem[cpu[c].elem].count <= DnsSince(mem[cpu[c].elem].last)
            /\ mem[cpu[c].elem].last <= clock /\ cpu[c].elem \in Elem
        BY <1>3, <1>4, <1>6, <1>8, <2>1 DEF DnsAlone, Used, Uncounted1, At
      <3>2. DnsSince(mem[cpu[c].elem].last)' = DnsSince(mem[cpu[c].elem].last) + 1
        BY <1>3, <1>8, <1>9, <2>1, <2>2, <3>1, BetweenGrows DEF DnsSince, At
      <3> QED
        BY <1>6, <1>8, <3>1, <3>2
    <2> QED
      BY <1>3, <1>4, <2>1, <2>2, <2>3, <2>4
         DEF DnsAlone, Used, At, CpuStates, Uncounted1
  <1>13. CASE DnsInsert(c)
    <2>1. PICK e \in Elem \ {entry} :
            /\ entry' = e /\ cpu'[c] = Idle /\ UNCHANGED <<clock, received>>
            /\ mem'[e] = [last |-> cpu[c].now, count |-> 1]
      BY <1>3, <1>13 DEF DnsInsert, Link, DnsPass, Return
    <2> PICK now : now = cpu[c].now
      OBVIOUS
    <2>2. 1 <= DnsSince(now)
      <3>1. /\ received # <<>> /\ received[Len(received)] = Stamped(c)
            /\ cpu[c].pkt \in DnsPacket
        BY <1>3, <1>4, <1>13 DEF DnsAlone, DnsInsert, At, Unread
      <3> QED
        BY <1>3, <1>9, <3>1, BetweenLast DEF Stamped, DnsSince
    <2>3. Used(c)' = e /\ Uncounted1(c)' = 0
      BY <2>1 DEF Used, Uncounted1, Idle, At
    <2>4. /\ mem'[e].count + 0 <= DnsSince(now)'
          /\ mem'[e].last = now /\ now <= clock'
      BY <1>4, <1>7, <2>1, <2>2
    <2> QED
      BY <2>1, <2>3, <2>4 DEF DnsAlone, Idle, At, Unread
  <1>14. CASE DnsAge(c)
    <2>1. /\ At(c, "age") /\ UNCHANGED <<clock, entry, mem, received>>
          /\ cpu'[c] = [cpu[c] EXCEPT !.at =
                IF DnsFresh(cpu[c].now, mem[cpu[c].elem].last) THEN "count"
                ELSE "reopen"]
      BY <1>3, <1>14 DEF DnsAge, Goto, history
    <2>2. DnsFresh(cpu[c].now, mem[cpu[c].elem].last) =>
            cpu[c].now \in mem[cpu[c].elem].last .. (mem[cpu[c].elem].last + Window - 1)
      BY <1>3, <1>8, <2>1, DnsFreshIsRecent DEF At
    <2> QED
      BY <1>3, <1>4, <1>6, <1>7, <1>8, <2>1, <2>2
         DEF DnsAlone, Used, At, Uncounted1, Stamped, CpuStates, Unread
  <1>15. CASE DnsCount(c)
    <2>1. /\ UNCHANGED <<clock, entry, received>>
          /\ cpu'[c] = [cpu[c] EXCEPT !.at = "rate"]
          /\ At(c, "count") /\ cpu[c].elem \in Elem
          /\ mem'[cpu[c].elem].count = mem[cpu[c].elem].count + 1
          /\ mem'[cpu[c].elem].last = mem[cpu[c].elem].last
      BY <1>3, <1>15 DEF DnsCount, Goto, DatedCounts, At, history
    <2> PICK e \in Elem, last \in Nat : e = cpu[c].elem /\ last = mem[e].last
      BY <1>8, <2>1
    <2>2. /\ Used(c) = e /\ ~ At(c, "reset") /\ e # NoElem /\ Uncounted1(c) = 1
          /\ entry \in {e, NoElem}
          /\ received # <<>> /\ received[Len(received)] = Stamped(c)
          /\ cpu[c].now \in last .. (last + Window - 1)
      BY <1>3, <1>4, <2>1, Bounds DEF DnsAlone, Used, At, Uncounted1, Unread
    <2>3. last <= clock /\ mem[e].count + 1 <= DnsSince(last) /\ mem[e].count \in Nat
      BY <1>4, <1>8, <2>2 DEF DnsAlone
    <2>4. /\ cpu'[c].at = "rate" /\ cpu'[c].now = cpu[c].now
          /\ cpu'[c].elem = e /\ cpu'[c].pkt = cpu[c].pkt
      BY <1>3, <2>1 DEF CpuStates
    <2>5. /\ Used(c)' = e /\ ~ At(c, "reset")' /\ Uncounted1(c)' = 0
          /\ Stamped(c)' = Stamped(c)
      BY <2>4 DEF Used, At, Uncounted1, Stamped
    <2>6. /\ mem'[e].last = last /\ last <= clock'
          /\ mem'[e].count + 0 <= DnsSince(last)'
      BY <1>7, <2>1, <2>3
    <2> QED
      BY <2>1, <2>2, <2>4, <2>5, <2>6 DEF DnsAlone, At
  <1>16. CASE DnsJudge(c)
    <2>1. /\ At(c, "rate") /\ UNCHANGED <<clock, entry, mem, received>>
          /\ cpu'[c] = [cpu[c] EXCEPT !.at =
                IF mem[cpu[c].elem].count > DnsThreshold(cpu[c].pkt)
                THEN "drop" ELSE "size"]
      BY <1>3, <1>16 DEF DnsJudge, Goto, history
    <2>2. DnsThreshold(cpu[c].pkt)' = DnsThreshold(cpu[c].pkt)
      BY <1>3, <2>1 DEF DnsThreshold, CpuStates
    <2> QED
      BY <1>3, <1>4, <1>6, <1>7, <1>8, <2>1, <2>2
         DEF DnsAlone, Used, At, Uncounted1, Stamped, CpuStates, Unread
  <1>17. CASE DnsJudgeSize(c) \/ DnsDrop(c)
    <2>1. /\ UNCHANGED <<clock, entry, mem, received>>
          /\ \/ cpu'[c] = Idle
             \/ cpu'[c] = [cpu[c] EXCEPT !.at = "large"]
          /\ cpu[c].at \in {"size", "drop", "large"} /\ cpu[c].elem \in Elem
      BY <1>3, <1>17
         DEF DnsJudgeSize, DnsDrop, DnsPass, Goto, Return, At, history
    <2>2. CASE cpu'[c] = Idle
      BY <1>3, <1>4, <1>6, <1>7, <1>8, <1>9, <2>1, <2>2, Bounds
         DEF DnsAlone, Used, At, Uncounted1, Idle, Unread
    <2>3. CASE cpu'[c] = [cpu[c] EXCEPT !.at = "large"]
      BY <1>3, <1>4, <1>7, <2>1, <2>3
         DEF DnsAlone, Used, At, Uncounted1, Stamped, CpuStates, Unread
    <2> QED
      BY <2>1, <2>2, <2>3
  <1>18. CASE DnsReopen(c)
    <2>1. /\ UNCHANGED <<clock, entry, received>>
          /\ cpu'[c] = [cpu[c] EXCEPT !.at = "reset"]
          /\ At(c, "reopen") /\ cpu[c].elem \in Elem
          /\ mem'[cpu[c].elem].last = cpu[c].now
      BY <1>3, <1>18 DEF DnsReopen, Goto, DatedCounts, At
    <2>2. /\ cpu'[c].at = "reset" /\ cpu'[c].now = cpu[c].now
          /\ cpu'[c].elem = cpu[c].elem /\ cpu'[c].pkt = cpu[c].pkt
      BY <1>3, <2>1 DEF CpuStates
    <2>3. Stamped(c)' = Stamped(c) /\ Used(c)' = cpu[c].elem
      BY <2>2 DEF Stamped, Used, At
    <2> QED
      BY <1>4, <2>1, <2>2, <2>3 DEF DnsAlone, At, Unread
  <1>19. CASE DnsReset(c)
    <2>1. /\ UNCHANGED <<clock, entry, received>> /\ cpu'[c] = Idle
          /\ At(c, "reset") /\ cpu[c].elem \in Elem
          /\ mem'[cpu[c].elem].count = 1
          /\ mem'[cpu[c].elem].last = mem[cpu[c].elem].last
      BY <1>3, <1>19 DEF DnsReset, DnsPass, Return, DatedCounts, At
    <2>2. /\ mem[cpu[c].elem].last = cpu[c].now /\ received # <<>>
          /\ received[Len(received)] = Stamped(c) /\ cpu[c].pkt \in DnsPacket
      BY <1>3, <1>4, <2>1 DEF DnsAlone, At, Unread
    <2>3. 1 <= DnsSince(cpu[c].now)
      BY <1>3, <1>9, <2>2, BetweenLast DEF Stamped, DnsSince
    <2> QED
      BY <1>3, <1>4, <1>6, <1>7, <1>8, <1>9, <2>1, <2>2, <2>3, Bounds
         DEF DnsAlone, Used, At, Uncounted1, Idle, Unread
  <1> QED
    BY <1>1, <1>10, <1>11, <1>12, <1>13, <1>14, <1>15, <1>16, <1>17, <1>18,
       <1>19
       DEF DnsOwn, DnsHandle

LEMMA DnsUnsharedSuffices == DnsUnshared => DnsDropJustified
  <1> SUFFICES ASSUME DnsUnshared, NEW c \in CPU, At(c, "drop")
               PROVE  \E t \in cpu[c].now .. (cpu[c].now + Window - 1) :
                        DnsBy(received, t) > DnsThreshold(cpu[c].pkt)
    BY DEF DnsDropJustified
  <1> DEFINE last == mem[cpu[c].elem].last
             t == last + Window - 1
  <1>1. /\ cpu[c].elem \in Elem /\ last \in Nat /\ mem[cpu[c].elem].count \in Nat
        /\ received \in Seq(Dated(DnsPacket)) /\ cpu[c].now \in Nat
        /\ Window \in Nat /\ MaxClock \in Nat /\ cpu[c].pkt \in DnsPacket
    BY Bounds, LruEntryAssumption
       DEF DnsUnshared, DnsTyped, Typed, TypesOK, CpuStates, DatedCounts, At, Early
  <1>2. DnsThreshold(cpu[c].pkt) \in Nat
    BY <1>1, ThresholdIs
  <1>3. /\ cpu[c].now \in last .. (last + Window - 1)
        /\ mem[cpu[c].elem].count > DnsThreshold(cpu[c].pkt)
        /\ mem[cpu[c].elem].count <= DnsSince(last)
    BY <1>1, Bounds DEF DnsUnshared, DnsAlone, At, Used, Uncounted1
  <1>4. t \in cpu[c].now .. (cpu[c].now + Window - 1)
    BY <1>1, <1>3
  <1>5. /\ Between(received, DnsPacket, last, MaxClock)
             \subseteq Within(received, t, Window)
        /\ Within(received, t, Window) \subseteq 1 .. Len(received)
    <2>1. \A i \in DOMAIN received : received[i].t <= cpu[c].now
      BY DEF DnsUnshared, InOrder, At, Unread
    <2>2. \A i \in DOMAIN received : received[i].t \in Nat
      BY <1>1, DatesAre
    <2>3. \A i \in DOMAIN received :
            received[i].t \in last .. MaxClock
              => received[i].t \in (t - Window + 1) .. t
      <3>1. t \in Int /\ t - Window + 1 = last /\ cpu[c].now <= t
        BY <1>1, <1>4
      <3> HIDE DEF last, t
      <3> QED
        BY <1>1, <2>1, <2>2, <3>1
    <2> QED
      BY <1>1, <2>3 DEF Between, Within
  <1>6. /\ DnsSince(last) <= DnsBy(received, t)
        /\ DnsSince(last) \in Nat /\ DnsBy(received, t) \in Nat
    <2>1. IsFiniteSet(1 .. Len(received))
      <3>1. Len(received) \in Nat
        BY <1>1
      <3> QED
        BY <3>1, FS_Interval
    <2> QED
      BY <1>5, <2>1, FS_Subset, FS_CardinalityType DEF DnsSince, DnsBy
  <1> QED
    BY <1>1, <1>2, <1>3, <1>4, <1>6

\* DNS packets of new flows, and large responses
DnsNew == {p \in DnsPacket : ~ p.old}
DnsBig == {p \in DnsPacket : p.response /\ p.large}

DnsCap == IF DnsAmpRate = 0 THEN 1 ELSE DnsAmpRate

\* How many packets of S were let through since the window opened at last.
LetSince(S, last) == Cardinality(Between(passed, S, last, MaxClock))

\* The entry of a source that is not evicted, between two statements of the one
\* CPU.
DnsFlooded(c) ==
  /\ entry = NoElem => passed = <<>>
  /\ ~ At(c, "idle") => cpu[c].elem = entry
  /\ entry # NoElem =>
       /\ Capped(DnsNew, DnsCap, mem[entry].last)
       /\ Capped(DnsBig, 1, mem[entry].last)
       /\ \A i \in DOMAIN passed : passed[i].t < mem[entry].last + Window
       /\ At(c, "age") => mem[entry].last <= cpu[c].now
       /\ At(c, "reopen") => mem[entry].last + Window <= cpu[c].now
       /\ At(c, "reset") => /\ LetSince(DnsNew, mem[entry].last) = 0
                            /\ LetSince(DnsBig, mem[entry].last) = 0
       /\ At(c, "size") => mem[entry].count <= DnsThreshold(cpu[c].pkt)
       /\ ~ At(c, "reset") =>
            LetSince(DnsNew, mem[entry].last)
              + (IF cpu[c].at \in {"rate", "size"} THEN 1 ELSE 0)
              <= mem[entry].count

DnsPlain == DnsUnshared /\ (~ evicted => \A c \in CPU : DnsFlooded(c))

LEMMA DnsPlainInit == DnsInit => DnsPlain
  BY DnsUnsharedInit DEF DnsPlain, DnsInit, InitWith, DnsFlooded, Idle, At

LEMMA DnsPlainStep ==
  ASSUME OneCpu
  PROVE  DnsPlain /\ [DnsOwn]_vars => DnsPlain'
  <1> SUFFICES ASSUME DnsPlain, [DnsOwn]_vars PROVE DnsPlain'
    OBVIOUS
  <1>1. PICK c : CPU = {c}
    BY DEF OneCpu
  <1>2. DnsUnshared /\ DnsUnshared' /\ DnsTyped
    BY DnsUnsharedStep DEF DnsPlain, DnsUnshared
  <1>3. SUFFICES ASSUME ~ evicted' PROVE DnsFlooded(c)'
    BY <1>1, <1>2 DEF DnsPlain
  <1>4. ~ evicted /\ DnsFlooded(c)
    <2>1. evicted \in BOOLEAN
      BY <1>2 DEF DnsTyped, Typed, TypesOK
    <2>2. evicted' = evicted \/ evicted'
      BY DEF DnsOwn, DnsHandle, DnsArrive, BeginWithLookup, DnsStamp, ThenClock,
         DnsInsert, DnsAge, DnsCount, DnsJudge, DnsJudgeSize, DnsDrop, DnsReopen,
         DnsReset, Evict, Tick, Finished, vars, history
    <2> QED
      BY <1>1, <1>3, <2>1, <2>2 DEF DnsPlain
  <1>5. /\ c \in CPU /\ mem \in [Elem -> DatedCounts]
        /\ cpu \in [CPU -> CpuStates(DnsPacket, DnsLabel)]
        /\ clock \in Nat /\ cpu[c].now \in Nat /\ cpu[c].now \in Time
        /\ entry \in Elem \cup {NoElem} /\ passed \in Seq(Dated(DnsPacket))
        /\ ~ At(c, "idle") => cpu[c].pkt \in DnsPacket
        /\ ~ At(c, "idle") => Stamped(c) \in Dated(DnsPacket)
    BY <1>1, <1>2, Bounds
       DEF DnsTyped, Typed, TypesOK, CpuStates, Stamped, Dated
  <1>6. \A e \in Elem : /\ mem[e].last \in Time /\ mem[e].last \in Nat
                        /\ mem[e].count \in Nat
    BY <1>5, Bounds DEF DatedCounts
  <1>7. /\ DnsCap \in Nat /\ DnsCap >= 1 /\ DnsAmpRate \in Nat
        /\ DnsAmpRate <= DnsCap /\ NoElem \notin Elem /\ Window \in Nat \ {0}
    BY DnsAmpAssumption, LruEntryAssumption DEF DnsCap
  <1>8. DnsAlone(c) /\ DnsAlone(c)' /\ cpu[c].now <= clock
    BY <1>1, <1>2 DEF DnsUnshared, InOrder
  <1>9. \A S, t : LetSince(S, t) \in Nat
    BY <1>5, BetweenFinite DEF LetSince
  <1>10. /\ passed' = passed => \A S, t : LetSince(S, t)' = LetSince(S, t)
         /\ passed' = passed => \A S, n, t : Capped(S, n, t)' <=> Capped(S, n, t)
    BY DEF LetSince, Capped
  <1>11. cpu[c].at \notin Early =>
           cpu[c].elem = entry /\ entry \in Elem /\ entry # NoElem
    BY <1>1, <1>2, <1>4, <1>7 DEF DnsFlooded, DnsTyped, Typed, At, Early
  <1>12. ASSUME NEW last \in Nat, passed' = Append(passed, Stamped(c)),
                cpu[c].at \notin Unread, last <= cpu[c].now,
                cpu[c].now < last + Window,
                \A i \in DOMAIN passed : passed[i].t < last + Window
         PROVE  \A i \in DOMAIN passed' : passed'[i].t < last + Window
    <2>1. \A i \in DOMAIN passed' :
             \/ i \in DOMAIN passed /\ passed'[i] = passed[i]
             \/ passed'[i] = Stamped(c)
      BY <1>5, <1>12
    <2>2. Stamped(c).t = cpu[c].now
      BY DEF Stamped
    <2> QED
      BY <1>12, <2>1, <2>2
  <1>13. ASSUME NEW last \in Nat, NEW S, NEW cap \in Nat,
                passed' = Append(passed, Stamped(c)),
                cpu[c].at \notin Unread, last <= cpu[c].now, Capped(S, cap, last),
                LetSince(S, last) + (IF cpu[c].pkt \in S THEN 1 ELSE 0) <= cap
         PROVE  /\ Capped(S, cap, last)'
                /\ LetSince(S, last)' =
                     LetSince(S, last) + (IF cpu[c].pkt \in S THEN 1 ELSE 0)
    <2>1. /\ Stamped(c) \in Dated(DnsPacket) /\ Stamped(c).pkt = cpu[c].pkt
          /\ Stamped(c).t = cpu[c].now
      BY <1>5, <1>13 DEF Stamped, At, Unread
    <2>2. Stamped(c).t \in last .. MaxClock
      BY <1>5, <1>13, <2>1 DEF Time
    <2>3. LetSince(S, last)' =
            LetSince(S, last) + (IF cpu[c].pkt \in S THEN 1 ELSE 0)
      BY <1>5, <1>13, <2>1, <2>2, BetweenGrows DEF LetSince
    <2>4. Cardinality(Between(passed', S, last, MaxClock)) <= cap
      BY <1>13, <2>3 DEF LetSince
    <2> QED
      BY <1>5, <1>13, <2>1, <2>3, <2>4, CappedPass
  <1>14. CASE Evict \/ Tick \/ Finished \/ UNCHANGED vars
    <2>1. UNCHANGED <<entry, mem, cpu, passed>>
      BY <1>3, <1>14 DEF Evict, Tick, Finished, vars, history
    <2>2. DnsThreshold(cpu[c].pkt)' = DnsThreshold(cpu[c].pkt)
      BY <2>1 DEF DnsThreshold
    <2> QED
      BY <1>4, <1>10, <2>1, <2>2 DEF DnsFlooded, At
  <1>15. ASSUME NEW p \in DnsPacket, DnsArrive(c, p) PROVE DnsFlooded(c)'
    BY <1>4, <1>5, <1>10, <1>15
       DEF DnsArrive, BeginWithLookup, DnsFlooded, At, history
  <1>16. CASE DnsStamp(c)
    <2>1. /\ At(c, "stamp") /\ UNCHANGED <<clock, entry, mem, passed>>
          /\ cpu'[c] = [cpu[c] EXCEPT !.now = clock,
                          !.at = IF cpu[c].elem = NoElem THEN "insert" ELSE "age"]
      BY <1>5, <1>16 DEF DnsStamp, ThenClock
    <2>2. entry # NoElem => mem[entry].last <= clock
      BY <1>4, <1>8, <2>1 DEF DnsAlone, DnsFlooded, Used, At
    <2> QED
      BY <1>4, <1>5, <1>10, <2>1, <2>2 DEF DnsFlooded, At, CpuStates
  <1>17. CASE DnsInsert(c)
    <2>1. passed = <<>> /\ At(c, "insert")
      BY <1>4, <1>8, <1>17 DEF DnsInsert, DnsAlone, DnsFlooded, At
    <2>2. PICK e \in Elem :
            /\ entry' = e /\ cpu'[c] = Idle
            /\ mem'[e] = [last |-> cpu[c].now, count |-> 1]
            /\ passed' = Append(passed, Stamped(c))
      BY <1>5, <1>17 DEF DnsInsert, Link, DnsPass, Return
    <2> PICK now \in Nat : now = cpu[c].now
      BY <1>5
    <2>3. \A S : LetSince(S, now) = 0
      <3>1. \A S : Between(passed, S, now, MaxClock) = {}
        BY <2>1 DEF Between
      <3> QED
        BY <3>1, FS_EmptySet DEF LetSince
    <2>4. Capped(DnsNew, DnsCap, now) /\ Capped(DnsBig, 1, now)
      BY <1>7, <2>1, CappedAtFirst
    <2>5. /\ Capped(DnsNew, DnsCap, now)' /\ Capped(DnsBig, 1, now)'
          /\ LetSince(DnsNew, now)' + 0 <= 1
      <3>1. /\ LetSince(DnsNew, now) + (IF cpu[c].pkt \in DnsNew THEN 1 ELSE 0) <= 1
            /\ LetSince(DnsBig, now) + (IF cpu[c].pkt \in DnsBig THEN 1 ELSE 0) <= 1
            /\ LetSince(DnsNew, now) + (IF cpu[c].pkt \in DnsNew THEN 1 ELSE 0) \in Nat
        BY <2>3
      <3>2. LetSince(DnsNew, now) + (IF cpu[c].pkt \in DnsNew THEN 1 ELSE 0) <= DnsCap
        BY <1>7, <3>1
      <3>3. cpu[c].at \notin Unread /\ now <= cpu[c].now
        BY <2>1 DEF At, Unread
      <3> QED
        BY <1>7, <1>13, <2>2, <2>4, <3>1, <3>2, <3>3
    <2>6. \A i \in DOMAIN passed' : passed'[i].t < now + Window
      BY <1>7, <1>12, <2>1, <2>2 DEF At, Unread
    <2>7. /\ mem'[e].last = now /\ mem'[e].count = 1 /\ entry' # NoElem
      BY <1>7, <2>2
    <2> QED
      BY <2>2, <2>5, <2>6, <2>7 DEF DnsFlooded, At, Idle
  <1>18. CASE DnsAge(c)
    <2>1. /\ At(c, "age") /\ UNCHANGED <<entry, mem, passed>>
          /\ cpu'[c] = [cpu[c] EXCEPT !.at =
                IF DnsFresh(cpu[c].now, mem[cpu[c].elem].last) THEN "count"
                ELSE "reopen"]
      BY <1>5, <1>18 DEF DnsAge, Goto, history
    <2>2. ~ DnsFresh(cpu[c].now, mem[cpu[c].elem].last)
            => mem[entry].last + Window <= cpu[c].now
      <3>1. /\ cpu[c].elem = entry /\ entry \in Elem
            /\ mem[entry].last <= cpu[c].now
        BY <1>4, <1>11, <2>1 DEF DnsFlooded, At, Early
      <3>2. Elapsed(cpu[c].now, mem[entry].last) = cpu[c].now - mem[entry].last
        BY <1>5, <1>6, <3>1, ElapsedInOrder
      <3> QED
        BY <1>5, <1>6, <1>7, <3>1, <3>2 DEF DnsFresh
    <2> QED
      BY <1>4, <1>5, <1>10, <2>1, <2>2 DEF DnsFlooded, At, CpuStates
  <1>19. CASE DnsCount(c)
    <2>1. /\ UNCHANGED <<entry, passed>> /\ At(c, "count")
          /\ cpu'[c] = [cpu[c] EXCEPT !.at = "rate"]
          /\ cpu[c].elem = entry /\ entry \in Elem /\ entry # NoElem
          /\ mem'[entry].count = mem[entry].count + 1
          /\ mem'[entry].last = mem[entry].last
      BY <1>5, <1>11, <1>19 DEF DnsCount, Goto, DatedCounts, At, history, Early
    <2> QED
      BY <1>4, <1>5, <1>6, <1>9, <1>10, <2>1 DEF DnsFlooded, At, CpuStates
  <1>20. CASE DnsJudge(c)
    <2>1. /\ At(c, "rate") /\ UNCHANGED <<entry, mem, passed>> /\ cpu[c].elem = entry
          /\ entry \in Elem /\ entry # NoElem
          /\ cpu'[c] = [cpu[c] EXCEPT !.at =
                IF mem[entry].count > DnsThreshold(cpu[c].pkt)
                THEN "drop" ELSE "size"]
      BY <1>5, <1>11, <1>20 DEF DnsJudge, Goto, At, history, Early
    <2>2. /\ DnsThreshold(cpu[c].pkt)' = DnsThreshold(cpu[c].pkt)
          /\ DnsThreshold(cpu[c].pkt) \in Nat
      BY <1>5, <2>1, ThresholdIs DEF CpuStates, At
    <2> QED
      BY <1>4, <1>5, <1>6, <1>9, <1>10, <2>1, <2>2 DEF DnsFlooded, At, CpuStates
  <1>21. CASE DnsJudgeSize(c)
    <2>1. /\ At(c, "size") /\ UNCHANGED <<entry, mem>> /\ cpu[c].elem = entry
          /\ entry \in Elem /\ entry # NoElem
          /\ \/ cpu'[c] = [cpu[c] EXCEPT !.at = "large"] /\ passed' = passed
             \/ /\ ~ DnsOversize(cpu[c].pkt) /\ cpu'[c] = Idle
                /\ passed' = Append(passed, Stamped(c))
      BY <1>5, <1>11, <1>21
         DEF DnsJudgeSize, DnsPass, Goto, Return, At, Early
    <2>2. CASE cpu'[c] = [cpu[c] EXCEPT !.at = "large"] /\ passed' = passed
      BY <1>4, <1>5, <1>6, <1>9, <1>10, <2>1, <2>2 DEF DnsFlooded, At, CpuStates
    <2>3. CASE /\ ~ DnsOversize(cpu[c].pkt) /\ cpu'[c] = Idle
               /\ passed' = Append(passed, Stamped(c))
      <3> PICK last \in Nat : last = mem[entry].last
        BY <1>6, <2>1
      <3>1. /\ last <= cpu[c].now /\ cpu[c].now < last + Window
            /\ Capped(DnsNew, DnsCap, last) /\ Capped(DnsBig, 1, last)
            /\ LetSince(DnsNew, last) + 1 <= mem[entry].count
            /\ mem[entry].count <= DnsThreshold(cpu[c].pkt)
            /\ \A i \in DOMAIN passed : passed[i].t < last + Window
            /\ cpu[c].at \notin Unread /\ cpu[c].pkt \in DnsPacket
        BY <1>4, <1>5, <1>7, <1>8, <2>1 DEF DnsAlone, DnsFlooded, At, Unread
      <3>2. cpu[c].pkt \notin DnsBig
        BY <2>3 DEF DnsBig, DnsOversize
      <3>3. LetSince(DnsBig, last) + 0 <= 1
        BY <1>9, <3>1 DEF Capped, LetSince
      <3>4. Capped(DnsBig, 1, last)'
        BY <1>13, <2>3, <3>1, <3>2, <3>3
      <3>5. LetSince(DnsNew, last) + (IF cpu[c].pkt \in DnsNew THEN 1 ELSE 0) <= DnsCap
        <4>1. CASE cpu[c].pkt \in DnsNew
          <5>1. mem[entry].count <= DnsAmpRate
            BY <3>1, <4>1 DEF DnsThreshold, DnsNew
          <5> QED
            BY <1>6, <1>7, <1>9, <2>1, <3>1, <4>1, <5>1
        <4>2. CASE cpu[c].pkt \notin DnsNew
          <5>1. LetSince(DnsNew, last) <= DnsCap
            BY <3>1 DEF Capped, LetSince
          <5> QED
            BY <1>7, <1>9, <4>2, <5>1
        <4> QED
          BY <4>1, <4>2
      <3>6. /\ Capped(DnsNew, DnsCap, last)'
            /\ LetSince(DnsNew, last)' =
                 LetSince(DnsNew, last) + (IF cpu[c].pkt \in DnsNew THEN 1 ELSE 0)
        BY <1>7, <1>13, <2>3, <3>1, <3>5
      <3>7. \A i \in DOMAIN passed' : passed'[i].t < last + Window
        BY <1>12, <2>3, <3>1
      <3>8. LetSince(DnsNew, last)' + 0 <= mem[entry].count
        BY <1>6, <1>9, <2>1, <3>1, <3>6
      <3>9. /\ mem'[entry'].last = last /\ mem'[entry'].count = mem[entry].count
            /\ entry' # NoElem
        BY <2>1
      <3> QED
        BY <2>3, <3>4, <3>6, <3>7, <3>8, <3>9 DEF DnsFlooded, At, Idle
    <2> QED
      BY <2>1, <2>2, <2>3
  <1>22. CASE DnsDrop(c)
    <2>1. /\ cpu[c].at \in {"drop", "large"} /\ UNCHANGED <<entry, mem, passed>>
          /\ cpu'[c] = Idle
      BY <1>5, <1>22 DEF DnsDrop, Return, history
    <2> QED
      BY <1>4, <1>10, <2>1 DEF DnsFlooded, At, Idle
  <1>23. CASE DnsReopen(c)
    <2>1. /\ UNCHANGED <<entry, passed>> /\ At(c, "reopen")
          /\ cpu'[c] = [cpu[c] EXCEPT !.at = "reset"]
          /\ cpu[c].elem = entry /\ entry \in Elem /\ entry # NoElem
          /\ mem'[entry].last = cpu[c].now
      BY <1>5, <1>11, <1>23 DEF DnsReopen, Goto, DatedCounts, At, Early
    <2> PICK last \in Nat, now \in Nat : last = mem[entry].last /\ now = cpu[c].now
      BY <1>5, <1>6, <2>1
    <2>2. /\ last + Window <= now
          /\ Capped(DnsNew, DnsCap, last) /\ Capped(DnsBig, 1, last)
          /\ \A i \in DOMAIN passed : passed[i].t < last + Window
      BY <1>4, <2>1 DEF DnsFlooded, At
    <2>3. /\ Capped(DnsNew, DnsCap, now) /\ Capped(DnsBig, 1, now)
          /\ LetSince(DnsNew, now) = 0 /\ LetSince(DnsBig, now) = 0
      BY <1>5, <1>7, <2>2, CappedOpen DEF LetSince
    <2>4. /\ Capped(DnsNew, DnsCap, now)' /\ Capped(DnsBig, 1, now)'
          /\ LetSince(DnsNew, now)' = 0 /\ LetSince(DnsBig, now)' = 0
      BY <1>10, <2>1, <2>3
    <2>5. \A i \in DOMAIN passed : passed[i].t < now + Window
      <3> SUFFICES ASSUME NEW i \in DOMAIN passed PROVE passed[i].t < now + Window
        OBVIOUS
      <3>1. passed[i].t \in Nat
        BY <1>5, DatesAre
      <3>2. passed[i].t < last + Window
        BY <2>2
      <3> QED
        BY <1>7, <2>2, <3>1, <3>2
    <2>6. /\ cpu'[c].at = "reset" /\ cpu'[c].elem = entry'
          /\ entry' # NoElem /\ mem'[entry'].last = now
      BY <1>5, <2>1, <2>2 DEF CpuStates
    <2> QED
      BY <2>1, <2>4, <2>5, <2>6 DEF DnsFlooded, At
  <1>24. CASE DnsReset(c)
    <2>1. /\ UNCHANGED entry /\ At(c, "reset") /\ cpu'[c] = Idle
          /\ cpu[c].elem = entry /\ entry \in Elem /\ entry # NoElem
          /\ mem'[entry].count = 1
          /\ mem'[entry].last = mem[entry].last
          /\ passed' = Append(passed, Stamped(c))
      BY <1>5, <1>11, <1>24 DEF DnsReset, DnsPass, Return, DatedCounts, At, Early
    <2> PICK last \in Nat : last = mem[entry].last
      BY <1>6, <2>1
    <2>2. /\ last = cpu[c].now /\ Capped(DnsNew, DnsCap, last)
          /\ Capped(DnsBig, 1, last)
          /\ LetSince(DnsNew, last) = 0 /\ LetSince(DnsBig, last) = 0
          /\ \A i \in DOMAIN passed : passed[i].t < last + Window
          /\ cpu[c].at \notin Unread
      BY <1>4, <1>8, <2>1 DEF DnsFlooded, DnsAlone, At, Unread
    <2>3. last <= cpu[c].now /\ cpu[c].now < last + Window
      BY <1>7, <2>2
    <2>4. /\ Capped(DnsNew, DnsCap, last)' /\ Capped(DnsBig, 1, last)'
          /\ LetSince(DnsNew, last)' + 0 <= 1
      <3>1. /\ LetSince(DnsNew, last) + (IF cpu[c].pkt \in DnsNew THEN 1 ELSE 0) <= 1
            /\ LetSince(DnsBig, last) + (IF cpu[c].pkt \in DnsBig THEN 1 ELSE 0) <= 1
            /\ LetSince(DnsNew, last) + (IF cpu[c].pkt \in DnsNew THEN 1 ELSE 0) \in Nat
        BY <2>2
      <3>2. LetSince(DnsNew, last) + (IF cpu[c].pkt \in DnsNew THEN 1 ELSE 0) <= DnsCap
        BY <1>7, <3>1
      <3> QED
        BY <1>7, <1>13, <2>1, <2>2, <2>3, <3>1, <3>2
    <2>5. \A i \in DOMAIN passed' : passed'[i].t < last + Window
      BY <1>12, <2>1, <2>2, <2>3
    <2>6. entry' # NoElem /\ mem'[entry'].last = last /\ mem'[entry'].count = 1
      BY <2>1, <2>2
    <2> QED
      BY <2>1, <2>4, <2>5, <2>6 DEF DnsFlooded, At, Idle
  <1> QED
    BY <1>1, <1>14, <1>15, <1>16, <1>17, <1>18, <1>19, <1>20, <1>21, <1>22,
       <1>23, <1>24
       DEF DnsOwn, DnsHandle

LEMMA DnsPlainSuffices ==
  ASSUME OneCpu
  PROVE  DnsPlain => DnsRateCapped /\ DnsLargeResponsesCapped
  <1> SUFFICES ASSUME DnsPlain, ~ evicted, NEW t \in Time
               PROVE  /\ Cardinality({i \in DOMAIN passed : ~ passed[i].pkt.old}
                                       \cap Within(passed, t, Window)) <= 2 * DnsCap
                      /\ Cardinality({i \in DOMAIN passed :
                                        passed[i].pkt.response /\ passed[i].pkt.large}
                                       \cap Within(passed, t, Window)) <= 2
    BY DEF DnsRateCapped, DnsLargeResponsesCapped, DnsCap
  <1>1. PICK c : c \in CPU /\ DnsFlooded(c)
    BY DEF DnsPlain, OneCpu
  <1>2. \A i \in DOMAIN passed : passed[i].pkt \in DnsPacket
    BY DatesAre DEF DnsPlain, DnsUnshared, DnsTyped, Typed, TypesOK
  <1>3. /\ {i \in DOMAIN passed : ~ passed[i].pkt.old} \cap Within(passed, t, Window)
             = Between(passed, DnsNew, t - Window + 1, t)
        /\ {i \in DOMAIN passed : passed[i].pkt.response /\ passed[i].pkt.large}
               \cap Within(passed, t, Window)
             = Between(passed, DnsBig, t - Window + 1, t)
    BY <1>2 DEF Within, Between, DnsNew, DnsBig
  <1>4. CASE entry # NoElem
    <2>1. /\ Cardinality(Between(passed, DnsNew, t - Window + 1, t)) <= 2 * DnsCap
          /\ Cardinality(Between(passed, DnsBig, t - Window + 1, t)) <= 2 * 1
      BY <1>1, <1>4 DEF DnsFlooded, Capped
    <2>2. 2 * 1 = 2
      OBVIOUS
    <2> QED
      BY <1>3, <2>1, <2>2
  <1>5. CASE entry = NoElem
    <2>1. \A S : Between(passed, S, t - Window + 1, t) = {}
      BY <1>1, <1>5 DEF DnsFlooded, Between
    <2>2. DnsCap \in Nat
      BY DnsAmpAssumption DEF DnsCap
    <2>3. 0 <= 2 * DnsCap /\ 0 <= 2
      BY <2>2
    <2>4. \A S : Cardinality(Between(passed, S, t - Window + 1, t)) = 0
      BY <2>1, FS_EmptySet
    <2> QED
      BY <1>3, <2>3, <2>4
  <1> QED
    BY <1>4, <1>5

-----------------------------------------------------------------------------
(* One CPU: fragments *)

Run == Cardinality(FragRun)

LEMMA RunIsNat ==
  ASSUME NEW P, received \in Seq(Dated(P))
  PROVE  IsFiniteSet(FragRun) /\ Run \in Nat /\ FragRun \subseteq 1 .. Len(received)
  <1>1. FragRun \subseteq 1 .. Len(received) /\ Len(received) \in Nat
    BY DEF FragRun
  <1>2. IsFiniteSet(1 .. Len(received))
    BY <1>1, FS_Interval
  <1> QED
    BY <1>1, <1>2, FS_Subset, FS_CardinalityType DEF Run

\* A fragment joins the run, or begins one.
LEMMA RunGrows ==
  ASSUME NEW P, received \in Seq(Dated(P)), NEW x \in Dated(P),
         received' = Append(received, x)
  PROVE  /\ received = <<>> => Run' = 1
         /\ received # <<>> =>
              Run' = IF x.t - received[Len(received)].t <= FragTimeout
                     THEN Run + 1 ELSE 1
  <1> DEFINE n == Len(received)
  <1>1. /\ n \in Nat /\ DOMAIN received = 1 .. n /\ DOMAIN received' = 1 .. (n + 1)
        /\ Len(received') = n + 1
        /\ received'[n + 1] = x
        /\ \A i \in 1 .. n : received'[i] = received[i]
    OBVIOUS
  <1>2. IsFiniteSet(FragRun) /\ Run \in Nat /\ n + 1 \notin FragRun
    <2>1. FragRun \subseteq 1 .. n
      BY RunIsNat
    <2> QED
      BY <1>1, <2>1, RunIsNat
  <1>3. n + 1 \in FragRun'
    BY <1>1 DEF FragRun
  <1>4. Cardinality({n + 1}) = 1
    BY FS_Singleton
  <1>5. CASE received = <<>>
    <2>1. FragRun' = {n + 1}
      BY <1>1, <1>3, <1>5 DEF FragRun
    <2> QED
      BY <1>4, <1>5, <2>1 DEF Run
  <1>6. CASE received # <<>> /\ x.t - received[n].t <= FragTimeout
    <2>1. FragRun' = FragRun \cup {n + 1}
      <3>1. n >= 1
        BY <1>1, <1>6
      <3>2. ASSUME NEW i \in 1 .. n
            PROVE  i \in FragRun' <=> i \in FragRun
        <4>1. \A j \in i .. n - 1 :
                received'[j + 1].t - received'[j].t = received[j + 1].t - received[j].t
          BY <1>1, <3>2
        <4>2. received'[n + 1].t - received'[n].t <= FragTimeout
          BY <1>1, <1>6, <3>1
        <4>3. \A j \in i .. n : j = n \/ j \in i .. n - 1
          <5>1. n \in Int
            BY <1>1
          <5> HIDE DEF n
          <5> QED
            BY <3>2, <5>1
        <4>4. i \in FragRun <=>
                \A j \in i .. n - 1 : received[j + 1].t - received[j].t <= FragTimeout
          BY <1>1, <3>2 DEF FragRun
        <4>5. i \in FragRun' <=>
                \A j \in i .. n : received'[j + 1].t - received'[j].t <= FragTimeout
          <5>1. i \in DOMAIN received' /\ i .. Len(received') - 1 = i .. n
            BY <1>1, <3>2
          <5> QED
            BY <5>1 DEF FragRun
        <4>6. \A j \in i .. n - 1 : j \in i .. n
          BY <1>1, <3>2
        <4> QED
          BY <4>1, <4>2, <4>3, <4>4, <4>5, <4>6
      <3> QED
        BY <1>1, <1>3, <3>2 DEF FragRun
    <2> QED
      BY <1>2, <1>6, <2>1, FS_AddElement DEF Run
  <1>7. CASE received # <<>> /\ ~ (x.t - received[n].t <= FragTimeout)
    <2>1. FragRun' = {n + 1}
      <3>1. n >= 1
        BY <1>1, <1>7
      <3>2. ASSUME NEW i \in 1 .. n PROVE i \notin FragRun'
        <4>1. n \in i .. Len(received') - 1
          BY <1>1, <3>1, <3>2
        <4>2. ~ (received'[n + 1].t - received'[n].t <= FragTimeout)
          BY <1>1, <1>7, <3>1
        <4> QED
          BY <4>1, <4>2 DEF FragRun
      <3> QED
        BY <1>1, <1>3, <3>2 DEF FragRun
    <2> QED
      BY <1>4, <1>7, <2>1 DEF Run
  <1> QED
    BY <1>5, <1>6, <1>7

\* The entry of a source that is not evicted, between two statements of the one
\* CPU.
FragAlone(c) ==
  /\ cpu[c].now <= clock
  /\ At(c, "idle") => (entry = NoElem <=> received = <<>>)
  /\ ~ At(c, "idle") => received # <<>> /\ received[Len(received)].t = cpu[c].now
  /\ ~ At(c, "idle") /\ entry = NoElem => Run = 1
  /\ cpu[c].at \notin {"idle", "lookup", "insert"} => entry # NoElem
  /\ cpu[c].at \in {"age", "reset", "count", "date", "judge", "drop"} =>
       cpu[c].elem = entry
  /\ At(c, "insert") => entry = NoElem
  /\ entry # NoElem =>
       /\ mem[entry].last <= clock
       /\ ~ At(c, "idle") => mem[entry].last <= cpu[c].now
       /\ cpu[c].at \in {"idle", "judge", "drop", "shape"} =>
            mem[entry].last = received[Len(received)].t /\ mem[entry].count = Run
       /\ cpu[c].at \in {"lookup", "age"} =>
            Run = IF cpu[c].now - mem[entry].last <= FragTimeout
                  THEN mem[entry].count + 1 ELSE 1
       /\ At(c, "reset") => Run = 1
       /\ At(c, "count") => Run = mem[entry].count + 1
       /\ At(c, "date") => Run = mem[entry].count
  /\ At(c, "drop") => Run > MaxFrags
  /\ At(c, "shape") => Run <= MaxFrags \/ Run = 1

FragUnshared == FragTyped /\ (~ evicted => \A c \in CPU : FragAlone(c))

LEMMA FragUnsharedInit == FragInit => FragUnshared
  BY FragTypesInit, LruEntryAssumption
     DEF FragUnshared, FragInit, InitWith, FragAlone, Idle, At

LEMMA FragUnsharedStep ==
  ASSUME OneCpu
  PROVE  FragUnshared /\ [FragOwn]_vars => FragUnshared'
  <1> SUFFICES ASSUME FragUnshared, [FragOwn]_vars PROVE FragUnshared'
    OBVIOUS
  <1>1. PICK c : CPU = {c}
    BY DEF OneCpu
  <1>2. FragTyped /\ FragTyped'
    BY FragTypesStep DEF FragUnshared, FragNext
  <1>3. /\ c \in CPU /\ mem \in [Elem -> DatedCounts]
        /\ cpu \in [CPU -> CpuStates(FragPacket, FragLabel)]
        /\ clock \in Time /\ clock \in Nat /\ cpu[c].now \in Time /\ cpu[c].now \in Nat
        /\ entry \in Elem \cup {NoElem} /\ received \in Seq(Dated(FragPacket))
        /\ evicted \in BOOLEAN /\ NoElem \notin Elem
        /\ MaxFrags \in Nat /\ FragTimeout \in Nat
    BY <1>1, <1>2, Bounds, FragTrackAssumption
       DEF FragTyped, Typed, TypesOK, CpuStates
  <1>4. SUFFICES ASSUME ~ evicted' PROVE FragAlone(c)'
    BY <1>1, <1>2 DEF FragUnshared
  <1>5. ~ evicted /\ FragAlone(c)
    <2>1. evicted' = evicted \/ evicted'
      BY DEF FragOwn, FragHandle, FragArrive, BeginWithClock, FragLookup, ThenLookup,
         FragInsert, FragAge, FragReset, FragCount, FragDate, FragJudge, FragDrop,
         FragJudgeShape, Evict, Tick, Finished, vars, history
    <2> QED
      BY <1>3, <1>4, <2>1 DEF FragUnshared
  <1>6. \A e \in Elem : /\ mem[e].last \in Time /\ mem[e].last \in Nat
                        /\ mem[e].count \in Nat
    BY <1>3, Bounds DEF DatedCounts
  <1>7. Run \in Nat
    BY <1>3, RunIsNat
  <1>8. received' = received => Run' = Run
    BY DEF Run, FragRun
  <1>9. CASE Evict \/ Tick \/ Finished \/ UNCHANGED vars
    <2>1. /\ UNCHANGED <<entry, mem, cpu, received>>
          /\ clock' \in Nat /\ clock <= clock'
      BY <1>3, <1>4, <1>9 DEF Evict, Tick, Finished, vars, history
    <2>2. cpu[c].now <= clock' /\ (entry # NoElem => mem[entry].last <= clock')
      <3>1. cpu[c].now <= clock /\ (entry # NoElem => mem[entry].last <= clock)
        BY <1>5 DEF FragAlone
      <3> QED
        BY <1>3, <1>6, <2>1, <3>1
    <2> QED
      BY <1>5, <1>8, <2>1, <2>2 DEF FragAlone, At
  <1>10. ASSUME NEW p \in FragPacket, FragArrive(c, p) PROVE FragAlone(c)'
    <2> DEFINE x == [t |-> clock, pkt |-> p]
    <2>1. /\ At(c, "idle") /\ UNCHANGED <<clock, entry, mem>>
          /\ received' = Append(received, x) /\ x \in Dated(FragPacket)
          /\ cpu'[c].at = "lookup" /\ cpu'[c].now = clock
      BY <1>3, <1>10 DEF FragArrive, BeginWithClock, Dated
    <2>2. received' # <<>> /\ received'[Len(received')].t = clock
      BY <1>3, <2>1
    <2>3. /\ entry = NoElem => Run' = 1
          /\ entry # NoElem =>
               Run' = IF clock - mem[entry].last <= FragTimeout
                      THEN mem[entry].count + 1 ELSE 1
      <3>1. /\ received = <<>> => Run' = 1
            /\ received # <<>> =>
                 Run' = IF x.t - received[Len(received)].t <= FragTimeout
                        THEN Run + 1 ELSE 1
        BY <1>3, <2>1, RunGrows
      <3>2. /\ entry = NoElem => received = <<>>
            /\ entry # NoElem =>
                 /\ received # <<>> /\ mem[entry].last = received[Len(received)].t
                 /\ mem[entry].count = Run
        BY <1>5, <2>1 DEF FragAlone, At
      <3> QED
        BY <3>1, <3>2
    <2> QED
      BY <1>3, <1>5, <2>1, <2>2, <2>3 DEF FragAlone, At
  <1>11. CASE FragLookup(c)
    <2>1. /\ At(c, "lookup") /\ UNCHANGED <<clock, entry, mem, received>>
          /\ cpu'[c] = [cpu[c] EXCEPT !.elem = entry,
                          !.at = IF entry = NoElem THEN "insert" ELSE "age"]
      BY <1>3, <1>11 DEF FragLookup, ThenLookup, history
    <2> QED
      BY <1>3, <1>5, <1>8, <2>1 DEF FragAlone, At, CpuStates
  <1>12. CASE FragInsert(c)
    <2>1. PICK e \in Elem :
            /\ entry' = e /\ UNCHANGED <<clock, received>>
            /\ cpu'[c] = [cpu[c] EXCEPT !.at = "shape"]
            /\ mem'[e] = [last |-> cpu[c].now, count |-> 1]
      BY <1>3, <1>12 DEF FragInsert, Link, Goto
    <2>2. At(c, "insert") /\ Run = 1 /\ entry = NoElem
      BY <1>5, <1>12 DEF FragInsert, FragAlone, At
    <2> QED
      BY <1>3, <1>5, <1>8, <2>1, <2>2 DEF FragAlone, At, CpuStates
  <1>13. CASE FragAge(c)
    <2>1. /\ At(c, "age") /\ UNCHANGED <<clock, entry, mem, received>>
          /\ cpu'[c] = [cpu[c] EXCEPT !.at =
               IF FragExpired(cpu[c].now, mem[cpu[c].elem].last) THEN "reset"
               ELSE "count"]
      BY <1>3, <1>13 DEF FragAge, Goto, history
    <2>2. /\ cpu[c].elem = entry /\ entry \in Elem
          /\ mem[entry].last <= cpu[c].now
      BY <1>3, <1>5, <2>1 DEF FragAlone, At
    <2>3. FragExpired(cpu[c].now, mem[entry].last)
            <=> ~ (cpu[c].now - mem[entry].last <= FragTimeout)
      BY <1>3, <1>6, <2>2, ElapsedInOrder DEF FragExpired
    <2> QED
      BY <1>3, <1>5, <1>8, <2>1, <2>2, <2>3 DEF FragAlone, At, CpuStates
  <1>14. CASE FragReset(c) \/ FragCount(c)
    <2>1. /\ cpu[c].elem = entry /\ entry \in Elem
          /\ cpu[c].at \in {"reset", "count"}
      BY <1>3, <1>5, <1>14 DEF FragReset, FragCount, FragAlone, At
    <2>2. /\ UNCHANGED <<clock, entry, received>>
          /\ cpu'[c] = [cpu[c] EXCEPT !.at = "date"]
          /\ mem'[entry].last = mem[entry].last
          /\ mem'[entry].count = IF At(c, "reset") THEN 1 ELSE mem[entry].count + 1
      <3>1. CASE FragReset(c)
        BY <1>3, <2>1, <3>1 DEF FragReset, Goto, DatedCounts, At, history
      <3>2. CASE FragCount(c)
        BY <1>3, <2>1, <3>2 DEF FragCount, Goto, DatedCounts, At, history
      <3> QED
        BY <1>14, <3>1, <3>2
    <2> QED
      BY <1>3, <1>5, <1>8, <2>1, <2>2 DEF FragAlone, At, CpuStates
  <1>15. CASE FragDate(c)
    <2>1. /\ cpu[c].elem = entry /\ entry \in Elem /\ At(c, "date")
      BY <1>3, <1>5, <1>15 DEF FragDate, FragAlone, At
    <2>2. /\ UNCHANGED <<clock, entry, received>>
          /\ cpu'[c] = [cpu[c] EXCEPT !.at = "judge"]
          /\ mem'[entry].last = cpu[c].now
          /\ mem'[entry].count = mem[entry].count
      BY <1>3, <1>15, <2>1 DEF FragDate, Goto, DatedCounts
    <2> QED
      BY <1>3, <1>5, <1>8, <2>1, <2>2 DEF FragAlone, At, CpuStates
  <1>16. CASE FragJudge(c)
    <2>1. /\ cpu[c].elem = entry /\ entry \in Elem /\ At(c, "judge")
      BY <1>3, <1>5, <1>16 DEF FragJudge, FragAlone, At
    <2>2. /\ UNCHANGED <<clock, entry, mem, received>>
          /\ cpu'[c] = [cpu[c] EXCEPT !.at =
               IF mem[entry].count > MaxFrags THEN "drop" ELSE "shape"]
      BY <1>3, <1>16, <2>1 DEF FragJudge, FragTooMany, Goto, history
    <2> QED
      BY <1>3, <1>5, <1>6, <1>8, <2>1, <2>2 DEF FragAlone, At, CpuStates
  <1>17. CASE FragDrop(c) \/ FragJudgeShape(c)
    <2>1. /\ UNCHANGED <<clock, entry, mem, received>> /\ cpu'[c] = Idle
          /\ cpu[c].at \in {"drop", "shape"}
      BY <1>3, <1>17 DEF FragDrop, FragJudgeShape, Return, At, history
    <2> QED
      BY <1>3, <1>5, <1>8, <2>1 DEF FragAlone, At, Idle
  <1> QED
    BY <1>1, <1>9, <1>10, <1>11, <1>12, <1>13, <1>14, <1>15, <1>16, <1>17
       DEF FragOwn, FragHandle

LEMMA FragUnsharedSuffices == FragUnshared => FragDropExact
  BY DEF FragUnshared, FragAlone, FragDropExact, Run

-----------------------------------------------------------------------------
(* One CPU: ICMP *)

\* The tokens that a time earns when nothing wraps.
Earn(time) == (time * IcmpFloodRate) \div Window

LEMMA QuotientIs ==
  ASSUME NEW x \in Nat, NEW w \in Nat \ {0}
  PROVE  /\ x \div w \in Nat
         /\ (x \div w) * w <= x /\ x < (x \div w) * w + w
  OBVIOUS

LEMMA LessProduct ==
  ASSUME NEW p \in Nat, NEW q \in Nat, NEW w \in Nat \ {0}, p < q
  PROVE  p * w + w <= q * w
  <1>1. q * w = p * w + w + (q - p - 1) * w
    OBVIOUS
  <1>2. (q - p - 1) * w >= 0 /\ p * w \in Int
    OBVIOUS
  <1>3. (q - p - 1) * w \in Int /\ q * w \in Int
    OBVIOUS
  <1> QED
    BY <1>1, <1>2, <1>3

LEMMA QuotientsAdd ==
  ASSUME NEW x \in Nat, NEW y \in Nat, NEW w \in Nat \ {0}
  PROVE  x \div w + y \div w <= (x + y) \div w
  <1> DEFINE a == x \div w
             b == y \div w
             d == (x + y) \div w
  <1>1. /\ a \in Nat /\ b \in Nat /\ d \in Nat
        /\ a * w <= x /\ b * w <= y /\ x + y < d * w + w
    BY QuotientIs
  <1> HIDE DEF a, b, d
  <1>2. (a + b) * w = a * w + b * w /\ a * w \in Int /\ b * w \in Int /\ d * w \in Int
    BY <1>1
  <1>3. ~ d < a + b
    <2>1. d < a + b => d * w + w <= (a + b) * w
      BY <1>1, LessProduct
    <2> QED
      BY <1>1, <1>2, <2>1
  <1>4. a + b <= d
    BY <1>1, <1>3
  <1> QED
    BY <1>4 DEF a, b, d

\* Two times earn no more apart than together.
LEMMA EarnAdds ==
  ASSUME NEW s \in Nat, NEW t \in Nat
  PROVE  /\ Earn(s) \in Nat /\ Earn(t) \in Nat /\ Earn(s + t) \in Nat
         /\ Earn(s) + Earn(t) <= Earn(s + t)
         /\ Earn(s) = 0 => s * IcmpFloodRate < Window
  <1> DEFINE x == s * IcmpFloodRate
             y == t * IcmpFloodRate
  <1>1. /\ x \in Nat /\ y \in Nat /\ (s + t) * IcmpFloodRate = x + y
        /\ Window \in Nat \ {0}
    BY IcmpBucketAssumption, LruEntryAssumption
  <1>2. /\ Earn(s) = x \div Window /\ Earn(t) = y \div Window
        /\ Earn(s + t) = (x + y) \div Window
    BY <1>1 DEF Earn
  <1>3. /\ x \div Window \in Nat /\ y \div Window \in Nat
        /\ (x + y) \div Window \in Nat
        /\ x < (x \div Window) * Window + Window
    <2>1. x + y \in Nat
      BY <1>1
    <2> HIDE DEF x, y
    <2> QED
      BY <1>1, <2>1, QuotientIs
  <1>4. x \div Window + y \div Window <= (x + y) \div Window
    <2> HIDE DEF x, y
    <2> QED
      BY <1>1, QuotientsAdd
  <1>5. x \div Window = 0 => x < Window
    <2> HIDE DEF x
    <2> QED
      BY <1>1, <1>3
  <1> HIDE DEF x, y
  <1>6. x \div Window = 0 => s * IcmpFloodRate < Window
    BY <1>5 DEF x
  <1> QED
    BY <1>2, <1>3, <1>4, <1>6

LEMMA QuotientsOrdered ==
  ASSUME NEW x \in Nat, NEW y \in Nat, NEW w \in Nat \ {0}, x <= y
  PROVE  x \div w <= y \div w
  <1>1. (y - x) \in Nat /\ x + (y - x) = y
    OBVIOUS
  <1>2. x \div w + (y - x) \div w <= (x + (y - x)) \div w
    BY <1>1, QuotientsAdd
  <1>3. x \div w \in Nat /\ y \div w \in Nat /\ (y - x) \div w \in Nat
    BY <1>1, QuotientIs
  <1> QED
    BY <1>1, <1>2, <1>3

\* What is left of a number below the modulus, and at most.
LEMMA RemainderIs ==
  ASSUME NEW x \in Nat, NEW m \in Nat \ {0}
  PROVE  x % m \in Nat /\ x % m <= x /\ (x < m => x % m = x)
  <1>1. x % m \in 0 .. (m - 1)
    OBVIOUS
  <1>2. CASE x < m
    BY <1>2
  <1>3. CASE ~ x < m
    BY <1>1, <1>3
  <1> QED
    BY <1>1, <1>2, <1>3

\* A refill adds at most what the time earns, and exactly that up to a full
\* bucket if it fits.
LEMMA RefilledIs ==
  ASSUME NEW tokens \in 0 .. IcmpFloodRate, NEW elapsed \in Nat
  PROVE  /\ Earn(elapsed) \in Nat
         /\ IcmpRefilled(tokens, elapsed) \in Nat
         /\ IcmpRefilled(tokens, elapsed) <= tokens + Earn(elapsed)
         /\ IcmpFits(elapsed) =>
              IcmpRefilled(tokens, elapsed) = IcmpClamped(tokens + Earn(elapsed))
  <1> DEFINE x == elapsed * IcmpFloodRate
             left == x % U64
             earned == left \div Window
             sum == tokens + earned
  <1>1. /\ x \in Nat /\ tokens \in Nat /\ IcmpFloodRate \in Nat
        /\ U64 \in Nat \ {0} /\ U32 \in Nat \ {0} /\ Window \in Nat \ {0}
    BY LruEntryAssumption, IcmpBucketAssumption
  <1>2. Earn(elapsed) = x \div Window /\ IcmpEarned(elapsed) = earned
    BY DEF Earn, IcmpEarned
  <1>3. IcmpRefilled(tokens, elapsed) = IcmpClamped(sum % U32)
    BY <1>2 DEF IcmpRefilled
  <1>4. IcmpFits(elapsed) => x < U64 /\ IcmpFloodRate + x \div Window < U32
    BY DEF IcmpFits
  <1> HIDE DEF x
  <1>5. left \in Nat /\ left <= x /\ (x < U64 => left = x)
    BY <1>1, RemainderIs
  <1> HIDE DEF left
  <1>6. /\ x \div Window \in Nat /\ earned \in Nat
        /\ earned <= x \div Window
        /\ x < U64 => earned = x \div Window
    BY <1>1, <1>5, QuotientIs, QuotientsOrdered
  <1> HIDE DEF earned
  <1>7. sum \in Nat /\ sum <= tokens + x \div Window
    BY <1>1, <1>6
  <1>8. IcmpFits(elapsed) => sum = tokens + x \div Window /\ sum < U32
    BY <1>1, <1>4, <1>6
  <1> HIDE DEF sum
  <1>9. sum % U32 \in Nat /\ sum % U32 <= sum /\ (sum < U32 => sum % U32 = sum)
    BY <1>1, <1>7, RemainderIs
  <1>10. /\ IcmpClamped(sum % U32) \in Nat
         /\ IcmpClamped(sum % U32) <= sum % U32
    BY <1>1, <1>9 DEF IcmpClamped
  <1>11. /\ IcmpRefilled(tokens, elapsed) \in Nat
         /\ IcmpRefilled(tokens, elapsed) <= tokens + x \div Window
    BY <1>1, <1>3, <1>6, <1>7, <1>9, <1>10
  <1>12. IcmpFits(elapsed) =>
           IcmpRefilled(tokens, elapsed) = IcmpClamped(tokens + x \div Window)
    BY <1>3, <1>8, <1>9
  <1> QED
    BY <1>2, <1>6, <1>11, <1>12

\* The last packet let through did so at the date that element e holds.
PassedAt(e) == passed # <<>> /\ passed[Len(passed)].t = mem[e].last

\* A time in which no token is earned, or more than fits.
StarvedFor(time) == time * IcmpFloodRate < Window \/ ~ IcmpFits(time)

\* The element of the source that is not idle, on one CPU.
IcmpFed(c) ==
  /\ ~ At(c, "idle") => entry \in {cpu[c].elem, NoElem}
  /\ At(c, "insert") => cpu[c].elem = NoElem
  /\ cpu[c].now <= clock
  /\ Used(c) # NoElem =>
       /\ mem[Used(c)].last <= clock
       /\ cpu[c].at \notin {"idle", "stamp"} => mem[Used(c)].last <= cpu[c].now
       /\ PassedAt(Used(c))
       /\ At(c, "tokens") => cpu[c].arg = cpu[c].now - mem[Used(c)].last
       /\ At(c, "drop") /\ IcmpFloodRate >= 1 =>
            StarvedFor(cpu[c].now - mem[Used(c)].last)

\* So many packets have passed since each of them that tokens are left.
Spent(tokens, date) ==
  \A i \in DOMAIN passed :
    /\ passed[i].t <= date
    /\ tokens + (Len(passed) - i + 1)
         <= 1 + IcmpFloodRate + Earn(date - passed[i].t)

\* The bucket that is not evicted.
IcmpMeter(c) ==
  /\ entry = NoElem => passed = <<>>
  /\ ~ At(c, "idle") => cpu[c].elem = entry
  /\ entry # NoElem =>
       /\ cpu[c].at \notin {"store", "date"} =>
            Spent(mem[entry].tokens, mem[entry].last)
       /\ At(c, "store") => Spent(cpu[c].arg, cpu[c].now)
       /\ At(c, "date") => /\ mem[entry].tokens + 1 <= IcmpFloodRate
                           /\ Spent(mem[entry].tokens + 1, cpu[c].now)

IcmpUnshared ==
  /\ IcmpTyped
  /\ \A c \in CPU : IcmpFed(c)
  /\ ~ evicted => \A c \in CPU : IcmpMeter(c)
  /\ IcmpConformance

LEMMA IcmpUnsharedInit == IcmpInit => IcmpUnshared
  <1> SUFFICES ASSUME IcmpInit PROVE IcmpUnshared
    OBVIOUS
  <1>1. /\ \A c \in CPU : At(c, "idle") /\ cpu[c].now = 0
        /\ entry = NoElem /\ passed = <<>> /\ clock = 0
    BY DEF IcmpInit, InitWith, Idle, At
  <1>2. IcmpConformance
    BY <1>1 DEF IcmpConformance
  <1> QED
    BY <1>1, <1>2, IcmpTypesInit
       DEF IcmpUnshared, IcmpFed, IcmpMeter, Used, At

LEMMA SpentAppended ==
  ASSUME passed \in Seq(Dated(IcmpPacket)), NEW tokens \in Nat, NEW now \in Time,
         Spent(tokens + 1, now), tokens + 1 <= IcmpFloodRate,
         IcmpConformance, ~ evicted, ~ evicted', Unshared,
         NEW x \in Dated(IcmpPacket), x.t = now, passed' = Append(passed, x)
  PROVE  /\ Spent(tokens, now)'
         /\ IcmpConformance'
  <1> DEFINE n == Len(passed)
  <1>0. IcmpFloodRate \in Nat
    BY IcmpBucketAssumption
  <1>1. /\ n \in Nat /\ DOMAIN passed = 1 .. n /\ DOMAIN passed' = 1 .. (n + 1)
        /\ Len(passed') = n + 1 /\ passed'[n + 1] = x
        /\ \A i \in 1 .. n : passed'[i] = passed[i] /\ passed[i].t \in Nat
    <2>1. \A i \in 1 .. n : passed[i] \in Dated(IcmpPacket)
      OBVIOUS
    <2>2. \A i \in 1 .. n : passed[i].t \in Nat
      BY <2>1, Bounds DEF Dated
    <2> QED
      BY <2>2
  <1>2. Earn(0) = 0 /\ now \in Nat
    BY <1>0, Bounds, LruEntryAssumption DEF Earn
  <1>3. ASSUME NEW i \in 1 .. n
        PROVE  /\ passed[i].t <= now
               /\ tokens + 1 + (n - i + 1) <= 1 + IcmpFloodRate + Earn(now - passed[i].t)
               /\ Earn(now - passed[i].t) \in Nat
    <2>1. passed[i].t <= now
      BY <1>1 DEF Spent
    <2>2. now - passed[i].t \in Nat
      BY <1>1, <1>2, <2>1
    <2> QED
      BY <1>0, <1>1, <2>1, <2>2, EarnAdds DEF Spent
  <1>4. ASSUME NEW i \in 1 .. (n + 1)
        PROVE  /\ passed'[i].t <= now
               /\ tokens + ((n + 1) - i + 1)
                    <= 1 + IcmpFloodRate + Earn(now - passed'[i].t)
               /\ Earn(now - passed'[i].t) \in Nat
    <2>1. CASE i = n + 1
      <3>1. now - passed'[i].t = 0 /\ passed'[i].t <= now
        BY <1>1, <1>2, <2>1
      <3> QED
        BY <1>0, <1>1, <1>2, <2>1, <3>1
    <2>2. CASE i \in 1 .. n
      BY <1>1, <1>3, <2>2
    <2> QED
      BY <1>1, <2>1, <2>2
  <1>5. \A i \in DOMAIN passed' :
          /\ passed'[i].t <= now
          /\ tokens + (Len(passed') - i + 1)
               <= 1 + IcmpFloodRate + Earn(now - passed'[i].t)
    BY <1>1, <1>4
  <1>6. ASSUME NEW i \in DOMAIN passed', NEW j \in DOMAIN passed', i <= j
        PROVE  j - i + 1 <= 1 + IcmpFloodRate
                   + ((passed'[j].t - passed'[i].t) * IcmpFloodRate) \div Window
    <2>1. CASE j = n + 1
      <3>1. passed'[j].t = now
        BY <1>1, <2>1
      <3>2. tokens + ((n + 1) - i + 1)
              <= 1 + IcmpFloodRate + Earn(now - passed'[i].t)
        BY <1>1, <1>4
      <3>3. Earn(now - passed'[i].t) \in Nat
        BY <1>1, <1>4
      <3>4. j - i + 1 <= 1 + IcmpFloodRate + Earn(now - passed'[i].t)
        BY <1>0, <1>1, <2>1, <3>2, <3>3
      <3> QED
        BY <3>1, <3>4 DEF Earn
    <2>2. CASE j # n + 1
      <3>1. i \in 1 .. n /\ j \in 1 .. n
        BY <1>1, <1>6, <2>2
      <3>2. passed'[i] = passed[i] /\ passed'[j] = passed[j]
        BY <1>1, <3>1
      <3> QED
        BY <1>1, <1>6, <3>1, <3>2 DEF IcmpConformance
    <2> QED
      BY <2>1, <2>2
  <1>7. IcmpConformance'
    BY <1>6 DEF IcmpConformance
  <1> QED
    BY <1>5, <1>7 DEF Spent

LEMMA SumsUp ==
  ASSUME NEW k \in Int, NEW r \in Int, NEW q \in Int, NEW f \in Int,
         NEW a \in Int, NEW b \in Int, NEW d \in Int,
         r <= q + b, q + k <= 1 + f + a, a + b <= d
  PROVE  r + k <= 1 + f + d
  OBVIOUS

\* What is spent when the bucket is refilled.
LEMMA SpentRefilled ==
  ASSUME passed \in Seq(Dated(IcmpPacket)), NEW tokens \in 0 .. IcmpFloodRate,
         NEW last \in Time, NEW now \in Time, last <= now, Spent(tokens, last)
  PROVE  Spent(IcmpRefilled(tokens, now - last), now)
  <1>0. IcmpFloodRate \in Nat
    BY IcmpBucketAssumption
  <1>1. now - last \in Time /\ last \in Nat /\ now \in Nat /\ now - last \in Nat
    BY LruEntryAssumption DEF Time
  <1> DEFINE r == IcmpRefilled(tokens, now - last)
  <1>2. /\ r \in Nat /\ r <= tokens + Earn(now - last)
        /\ Earn(now - last) \in Nat
    BY <1>1, RefilledIs
  <1>3. ASSUME NEW i \in DOMAIN passed
        PROVE  /\ passed[i].t <= now
               /\ r + (Len(passed) - i + 1)
                    <= 1 + IcmpFloodRate + Earn(now - passed[i].t)
    <2>1. /\ passed[i].t <= last /\ passed[i].t \in Nat
          /\ Len(passed) \in Nat /\ i \in Nat
          /\ tokens + (Len(passed) - i + 1)
               <= 1 + IcmpFloodRate + Earn(last - passed[i].t)
      <3>1. passed[i] \in Dated(IcmpPacket)
        OBVIOUS
      <3>2. passed[i].t \in Nat
        BY <3>1, Bounds DEF Dated
      <3> QED
        BY <3>2 DEF Spent
    <2> DEFINE s == last - passed[i].t
               u == now - last
    <2>2. /\ s \in Nat /\ u \in Nat /\ s + u = now - passed[i].t
      <3> PICK v \in Nat : v = passed[i].t /\ v <= last
        BY <2>1
      <3> QED
        BY <1>1
    <2>3. /\ Earn(s) \in Nat /\ Earn(s + u) \in Nat
          /\ Earn(s) + Earn(u) <= Earn(s + u)
      BY <2>2, EarnAdds
    <2>4. Earn(s + u) = Earn(now - passed[i].t)
      BY <2>2
    <2> HIDE DEF r, s, u
    <2>5. /\ tokens + (Len(passed) - i + 1) <= 1 + IcmpFloodRate + Earn(s)
          /\ r <= tokens + Earn(u)
      BY <1>2, <2>1 DEF s, u
    <2>6. s \in Nat /\ u \in Nat /\ Earn(s) \in Nat /\ Earn(u) \in Nat
      BY <2>2, EarnAdds
    <2>7. r + (Len(passed) - i + 1) <= 1 + IcmpFloodRate + Earn(s + u)
      <3>1. /\ Len(passed) - i + 1 \in Int /\ r \in Int /\ tokens \in Int
            /\ IcmpFloodRate \in Int /\ Earn(s + u) \in Int
        BY <1>0, <1>2, <2>1, <2>3
      <3>2. PICK k \in Int : k = Len(passed) - i + 1
        BY <3>1
      <3>3. PICK a \in Int, b \in Int, d \in Int, q \in Int, f \in Int :
              /\ a = Earn(s) /\ b = Earn(u) /\ d = Earn(s + u)
              /\ q = tokens /\ f = IcmpFloodRate
        BY <2>6, <3>1
      <3>4. r <= q + b /\ q + k <= 1 + f + a /\ a + b <= d
        BY <2>3, <2>5, <3>2, <3>3
      <3>5. r + k <= 1 + f + d
        BY <3>1, <3>4, SumsUp
      <3> QED
        BY <3>2, <3>3, <3>5
    <2> QED
      BY <1>1, <2>1, <2>4, <2>7
  <1> QED
    BY <1>3 DEF Spent

LEMMA IcmpUnsharedStep ==
  ASSUME OneCpu, Unshared
  PROVE  IcmpUnshared /\ [IcmpOwn]_vars => IcmpUnshared'
  <1> SUFFICES ASSUME IcmpUnshared, [IcmpOwn]_vars PROVE IcmpUnshared'
    OBVIOUS
  <1>1. PICK c : CPU = {c}
    BY DEF OneCpu
  <1>2. IcmpTyped /\ IcmpTyped'
    BY IcmpTypesStep DEF IcmpUnshared, IcmpNext
  <1>3. /\ c \in CPU /\ mem \in [Elem -> Buckets]
        /\ cpu \in [CPU -> CpuStates(IcmpPacket, IcmpLabel)]
        /\ clock \in Time /\ clock \in Nat /\ cpu[c].now \in Time /\ cpu[c].now \in Nat
        /\ cpu[c].arg \in Nat
        /\ entry \in Elem \cup {NoElem} /\ passed \in Seq(Dated(IcmpPacket))
        /\ evicted \in BOOLEAN /\ NoElem \notin Elem /\ IcmpFloodRate \in Nat
    BY <1>1, <1>2, Bounds, RatesAre
       DEF IcmpTyped, Typed, TypesOK, CpuStates
  <1>4. /\ cpu[c].elem \in Elem \cup {NoElem}
        /\ cpu[c].at \notin Early => cpu[c].elem \in Elem
        /\ ~ At(c, "idle") => Stamped(c) \in Dated(IcmpPacket)
        /\ At(c, "store") => cpu[c].arg \in 1 .. IcmpFloodRate
    BY <1>2, <1>3, CpuFields DEF IcmpTyped, Typed
  <1>5. \A e \in Elem : /\ mem[e].last \in Time /\ mem[e].last \in Nat
                        /\ mem[e].tokens \in 0 .. IcmpFloodRate
    BY <1>3, Bounds DEF Buckets
  <1>6. IcmpFed(c) /\ IcmpConformance /\ (~ evicted => IcmpMeter(c))
    BY <1>1 DEF IcmpUnshared
  <1>7. SUFFICES /\ IcmpFed(c)' /\ IcmpConformance'
                 /\ ~ evicted' => IcmpMeter(c)'
    BY <1>1, <1>2 DEF IcmpUnshared
  <1>8. ASSUME passed' = passed, evicted' = evicted \/ evicted'
        PROVE  IcmpConformance'
    BY <1>3, <1>6, <1>8 DEF IcmpConformance
  <1>9. CASE Evict \/ Tick \/ Finished \/ UNCHANGED vars
    <2>1. /\ UNCHANGED <<mem, cpu, passed>>
          /\ clock' \in Nat /\ clock <= clock'
          /\ \/ entry' = entry /\ evicted' = evicted
             \/ entry' = NoElem /\ evicted'
      BY <1>3, <1>9 DEF Evict, Tick, Finished, vars, history
    <2>2. /\ cpu[c].now <= clock'
          /\ Used(c)' # NoElem => Used(c)' = Used(c) /\ mem[Used(c)].last <= clock'
      <3>1. Used(c)' # NoElem => Used(c)' = Used(c)
        BY <2>1 DEF Used, At
      <3>2. Used(c) \in Elem \cup {NoElem}
        BY <1>3, <1>4 DEF Used
      <3>3. /\ cpu[c].now <= clock
            /\ Used(c) # NoElem => mem[Used(c)].last <= clock
        BY <1>6 DEF IcmpFed
      <3> QED
        BY <1>3, <1>5, <2>1, <3>1, <3>2, <3>3
    <2>3. IcmpFed(c)'
      BY <1>6, <2>1, <2>2 DEF IcmpFed, PassedAt, At
    <2>4. ~ evicted' => IcmpMeter(c)'
      BY <1>6, <2>1 DEF IcmpMeter, Spent, At
    <2> QED
      BY <1>8, <2>1, <2>3, <2>4
  <1>10. ASSUME NEW p \in IcmpPacket, IcmpArrive(c, p)
         PROVE  IcmpFed(c)' /\ IcmpConformance' /\ (~ evicted' => IcmpMeter(c)')
    <2>1. /\ At(c, "idle") /\ UNCHANGED <<clock, entry, mem, passed, evicted>>
          /\ cpu'[c].at = "stamp" /\ cpu'[c].elem = entry /\ cpu'[c].now = 0
      BY <1>3, <1>10 DEF IcmpArrive, BeginWithLookup, history
    <2> QED
      BY <1>3, <1>6, <1>8, <2>1 DEF IcmpFed, IcmpMeter, PassedAt, Spent, Used, At
  <1>11. CASE IcmpStamp(c)
    <2>1. /\ At(c, "stamp") /\ UNCHANGED <<clock, entry, mem, passed, evicted>>
          /\ cpu'[c].at = IF cpu[c].elem = NoElem THEN "insert" ELSE "elapsed"
          /\ cpu'[c].elem = cpu[c].elem /\ cpu'[c].now = clock
      BY <1>3, <1>11 DEF IcmpStamp, ThenClock, CpuStates
    <2> QED
      BY <1>3, <1>6, <1>8, <2>1 DEF IcmpFed, IcmpMeter, PassedAt, Spent, Used, At
  <1>12. CASE IcmpInsert(c)
    <2>1. PICK e \in Elem :
            /\ entry' = e /\ UNCHANGED <<clock, evicted>>
            /\ cpu'[c] = Idle
            /\ mem'[e] = [last |-> cpu[c].now, tokens |-> IcmpFloodRate]
            /\ passed' = Append(passed, Stamped(c))
      BY <1>3, <1>12 DEF IcmpInsert, IcmpPass, Return, Link, IcmpOpening
    <2>2. At(c, "insert") /\ cpu[c].elem = NoElem /\ cpu[c].now <= clock
      BY <1>6, <1>12 DEF IcmpInsert, IcmpFed, At
    <2>3. /\ Len(passed') \in DOMAIN passed'
          /\ passed'[Len(passed')].t = cpu[c].now
      BY <1>3, <1>4, <2>1, <2>2 DEF Stamped, At
    <2>4. IcmpFed(c)'
      BY <1>3, <2>1, <2>2, <2>3, Bounds DEF IcmpFed, PassedAt, Used, At, Idle
    <2>5. ASSUME ~ evicted' PROVE IcmpMeter(c)' /\ IcmpConformance'
      <3>1. passed = <<>>
        BY <1>6, <2>1, <2>2, <2>5 DEF IcmpMeter, At
      <3>2. /\ DOMAIN passed' = {1} /\ Len(passed') = 1
            /\ passed'[1].t = cpu[c].now
        BY <2>1, <3>1 DEF Stamped
      <3>3. Earn(0) = 0
        BY LruEntryAssumption, <1>3 DEF Earn
      <3>4. Spent(mem[entry].tokens, mem[entry].last)'
        <4>1. mem'[entry'].tokens = IcmpFloodRate /\ mem'[entry'].last = cpu[c].now
          BY <2>1
        <4>2. cpu[c].now - cpu[c].now = 0
          BY <1>3
        <4> QED
          BY <1>3, <3>2, <3>3, <4>1, <4>2 DEF Spent
      <3>5. IcmpMeter(c)'
        BY <1>3, <2>1, <3>4 DEF IcmpMeter, At, Idle
      <3>6. IcmpConformance'
        BY <1>3, <3>2, <3>3 DEF IcmpConformance, Earn
      <3> QED
        BY <3>5, <3>6
    <2>6. evicted' => IcmpConformance'
      BY DEF IcmpConformance
    <2> QED
      BY <2>4, <2>5, <2>6
  <1>13. CASE IcmpReadDate(c)
    <2>1. /\ At(c, "elapsed") /\ UNCHANGED <<clock, entry, mem, passed, evicted>>
          /\ cpu'[c].at = "tokens" /\ cpu'[c].elem = cpu[c].elem
          /\ cpu'[c].now = cpu[c].now
          /\ cpu'[c].arg = Elapsed(cpu[c].now, mem[cpu[c].elem].last)
      BY <1>3, <1>13 DEF IcmpReadDate, GotoWith, CpuStates, history
    <2>2. cpu[c].elem \in Elem /\ mem[cpu[c].elem].last <= cpu[c].now
      BY <1>3, <1>4, <1>6, <2>1 DEF IcmpFed, Used, At, Early
    <2>3. cpu'[c].arg = cpu[c].now - mem[cpu[c].elem].last
      BY <1>3, <1>5, <2>1, <2>2, ElapsedInOrder
    <2> QED
      BY <1>3, <1>6, <1>8, <2>1, <2>3
         DEF IcmpFed, IcmpMeter, PassedAt, Spent, Used, At
  <1>14. CASE IcmpRefill(c)
    <2>1. PICK tokens :
            /\ tokens = IcmpRefilled(mem[cpu[c].elem].tokens, cpu[c].arg)
            /\ At(c, "tokens") /\ UNCHANGED <<clock, entry, mem, passed, evicted>>
            /\ cpu'[c].at = IF tokens >= 1 THEN "store" ELSE "drop"
            /\ cpu'[c].elem = cpu[c].elem /\ cpu'[c].now = cpu[c].now
            /\ cpu'[c].arg = tokens
      BY <1>3, <1>14 DEF IcmpRefill, GotoWith, CpuStates, history
    <2> DEFINE e == cpu[c].elem
               s == cpu[c].now - mem[e].last
    <2>2. /\ e \in Elem /\ mem[e].last <= cpu[c].now
          /\ cpu[c].arg = s
      BY <1>3, <1>4, <1>6, <2>1 DEF IcmpFed, Used, At, Early
    <2>3. s \in Time /\ s \in Nat /\ mem[e].tokens \in 0 .. IcmpFloodRate
      BY <1>3, <1>5, <2>2, LruEntryAssumption DEF Time
    <2>4. /\ IcmpFits(s) => tokens = IcmpClamped(mem[e].tokens + Earn(s))
          /\ Earn(s) \in Nat
          /\ Earn(s) = 0 => s * IcmpFloodRate < Window
      BY <2>1, <2>2, <2>3, RefilledIs, EarnAdds
    <2>5. ~ tokens >= 1 /\ IcmpFloodRate >= 1 => StarvedFor(s)
      <3>1. ~ tokens >= 1 /\ IcmpFloodRate >= 1 /\ IcmpFits(s) => Earn(s) = 0
        <4> HIDE DEF s
        <4> QED
          BY <1>3, <2>3, <2>4 DEF IcmpClamped
      <3> QED
        BY <2>4, <3>1 DEF StarvedFor
    <2>6. IcmpFed(c)'
      <3>1. /\ Used(c) = e /\ Used(c)' = e /\ e # NoElem
        BY <1>3, <2>1, <2>2 DEF Used, At
      <3>2. At(c, "drop")' /\ IcmpFloodRate >= 1 => StarvedFor(s)
        BY <2>1, <2>5 DEF At
      <3> HIDE DEF e
      <3>3. At(c, "drop")' /\ IcmpFloodRate >= 1 =>
              StarvedFor(cpu'[c].now - mem'[Used(c)'].last)
        BY <2>1, <3>1, <3>2
      <3> QED
        BY <1>6, <2>1, <3>1, <3>3 DEF IcmpFed, PassedAt, At
    <2>7. ASSUME ~ evicted' PROVE IcmpMeter(c)'
      <3>1. IcmpMeter(c) /\ entry = e
        BY <1>6, <2>1, <2>7 DEF IcmpMeter, At
      <3>2. Spent(mem[e].tokens, mem[e].last)
        BY <1>3, <2>1, <2>2, <3>1 DEF IcmpMeter, At
      <3>3. Spent(tokens, cpu[c].now)
        <4>1. mem[e].last \in Time /\ mem[e].tokens \in 0 .. IcmpFloodRate
          BY <1>5, <2>2, <2>3
        <4>2. Spent(IcmpRefilled(mem[e].tokens, s), cpu[c].now)
          BY <1>3, <2>2, <3>2, <4>1, SpentRefilled
        <4>3. tokens = IcmpRefilled(mem[e].tokens, s)
          BY <2>1, <2>2
        <4> QED
          BY <4>2, <4>3
      <3> QED
        BY <2>1, <3>1, <3>2, <3>3 DEF IcmpMeter, Spent, At
    <2> QED
      BY <1>8, <2>1, <2>6, <2>7
  <1>15. CASE IcmpTake(c)
    <2> DEFINE e == cpu[c].elem
    <2>1. At(c, "store") /\ e \in Elem
      BY <1>4, <1>15 DEF IcmpTake, Early, At
    <2>2. /\ UNCHANGED <<clock, entry, passed, evicted>>
          /\ cpu'[c].at = "date" /\ cpu'[c].elem = e /\ cpu'[c].now = cpu[c].now
          /\ mem'[e].last = mem[e].last
          /\ mem'[e].tokens = cpu[c].arg - 1
      BY <1>3, <1>15, <2>1 DEF IcmpTake, Goto, CpuStates, Buckets, history
    <2>3. Used(c) = e /\ Used(c)' = e
      BY <2>1, <2>2 DEF Used, At
    <2> HIDE DEF e
    <2>4. IcmpFed(c)'
      <3>1. entry \in {e, NoElem}
        BY <1>6, <2>1, <2>3 DEF IcmpFed, At, Used
      <3>2. /\ cpu[c].now <= clock /\ mem[e].last <= clock
            /\ mem[e].last <= cpu[c].now /\ PassedAt(e)
        BY <1>3, <1>6, <2>1, <2>3 DEF IcmpFed, At
      <3>3. passed' # <<>> /\ passed'[Len(passed')].t = mem'[e].last
        BY <2>2, <3>2 DEF PassedAt
      <3> QED
        BY <2>2, <2>3, <3>1, <3>2, <3>3 DEF IcmpFed, PassedAt, At
    <2>5. ASSUME ~ evicted' PROVE IcmpMeter(c)'
      <3>1. IcmpMeter(c) /\ entry = e
        BY <1>6, <2>1, <2>2, <2>5 DEF IcmpMeter, At, e
      <3>2. Spent(cpu[c].arg, cpu[c].now) /\ cpu[c].arg \in 1 .. IcmpFloodRate
        BY <1>3, <1>4, <2>1, <3>1 DEF IcmpMeter, At
      <3>3. mem'[e].tokens + 1 = cpu[c].arg
        BY <1>3, <2>2
      <3>4. /\ mem'[entry'].tokens + 1 <= IcmpFloodRate
            /\ Spent(mem[entry].tokens + 1, cpu[c].now)'
        BY <1>3, <2>2, <3>1, <3>2, <3>3 DEF Spent
      <3>5. entry' = NoElem => passed' = <<>>
        BY <2>2, <3>1 DEF IcmpMeter
      <3> QED
        BY <2>2, <3>1, <3>4, <3>5 DEF IcmpMeter, At
    <2> QED
      BY <1>8, <2>2, <2>4, <2>5
  <1>16. CASE IcmpDate(c)
    <2> DEFINE e == cpu[c].elem
    <2>1. At(c, "date") /\ e \in Elem
      BY <1>4, <1>16 DEF IcmpDate, Early, At
    <2>2. /\ UNCHANGED <<clock, entry, evicted>> /\ cpu'[c] = Idle
          /\ mem'[e].last = cpu[c].now
          /\ mem'[e].tokens = mem[e].tokens
          /\ passed' = Append(passed, Stamped(c))
      BY <1>3, <1>16, <2>1 DEF IcmpDate, IcmpPass, Return, Buckets
    <2>3. /\ Len(passed') \in DOMAIN passed'
          /\ passed'[Len(passed')].t = cpu[c].now
      BY <1>3, <1>4, <2>1, <2>2 DEF Stamped, At
    <2>4. entry \in {e, NoElem} /\ cpu[c].now <= clock
      BY <1>6, <2>1 DEF IcmpFed, At
    <2>5. IcmpFed(c)'
      BY <1>3, <2>1, <2>2, <2>3, <2>4, Bounds DEF IcmpFed, PassedAt, Used, At, Idle
    <2>6. ASSUME ~ evicted' PROVE IcmpMeter(c)' /\ IcmpConformance'
      <3>1. PICK left \in Nat, now \in Time : left = mem[e].tokens /\ now = cpu[c].now
        BY <1>3, <1>5, <2>1
      <3>2. IcmpMeter(c) /\ entry = e /\ ~ evicted
        BY <1>6, <2>1, <2>2, <2>6 DEF IcmpMeter, At
      <3>3. left + 1 <= IcmpFloodRate /\ Spent(left + 1, now)
        BY <1>3, <2>1, <3>1, <3>2 DEF IcmpMeter, At
      <3>4. Stamped(c) \in Dated(IcmpPacket) /\ Stamped(c).t = now
        BY <1>4, <2>1, <3>1 DEF Stamped, At
      <3>5. Spent(left, now)' /\ IcmpConformance'
        BY <1>3, <1>6, <2>2, <2>6, <3>2, <3>3, <3>4, SpentAppended
      <3>6. mem'[entry'].tokens = left /\ mem'[entry'].last = now
        BY <2>2, <3>1, <3>2
      <3>7. Spent(mem[entry].tokens, mem[entry].last)'
        BY <3>5, <3>6 DEF Spent
      <3> QED
        BY <1>3, <2>1, <2>2, <3>2, <3>5, <3>7 DEF IcmpMeter, At, Idle
    <2>7. evicted' => IcmpConformance'
      BY DEF IcmpConformance
    <2> QED
      BY <2>5, <2>6, <2>7
  <1>17. CASE IcmpDrop(c)
    <2>1. /\ At(c, "drop") /\ UNCHANGED <<clock, entry, mem, passed, evicted>>
          /\ cpu'[c] = Idle
      BY <1>3, <1>17 DEF IcmpDrop, Return, history
    <2> QED
      BY <1>3, <1>6, <1>8, <2>1, Bounds
         DEF IcmpFed, IcmpMeter, PassedAt, Spent, Used, At, Idle
  <1> QED
    BY <1>1, <1>9, <1>10, <1>11, <1>12, <1>13, <1>14, <1>15, <1>16, <1>17
       DEF IcmpOwn, IcmpHandle

LEMMA IcmpUnsharedSuffices ==
  IcmpUnshared => IcmpConformance /\ IcmpNoStarvation
  <1> SUFFICES ASSUME IcmpUnshared, NEW c \in CPU, At(c, "drop"), IcmpFloodRate >= 1
               PROVE  /\ passed # <<>>
                      /\ StarvedFor(cpu[c].now - passed[Len(passed)].t)
    BY DEF IcmpUnshared, IcmpNoStarvation, StarvedFor
  <1>1. Used(c) = cpu[c].elem /\ cpu[c].elem \in Elem
    BY DEF Used, At, IcmpUnshared, IcmpTyped, Typed, Early
  <1>2. /\ PassedAt(Used(c))
        /\ StarvedFor(cpu[c].now - mem[Used(c)].last)
    BY <1>1, Bounds DEF IcmpUnshared, IcmpFed
  <1> QED
    BY <1>2 DEF PassedAt

-----------------------------------------------------------------------------
(* One CPU: flows *)

LEMMA FirstIsIn ==
  ASSUME NEW S, NEW log \in Seq(S), log # <<>>
  PROVE  log[1] \in S
  OBVIOUS

\* What one CPU, between two statements, knows of the entry of the flow.
FlowAlone(c) ==
  /\ cpu[c].now <= clock
  /\ At(c, "ask") => cpu[c].arg = 0
  /\ entry = NoElem <=> passed = <<>>
  /\ At(c, "insert") => passed = <<>>
  /\ cpu[c].at \in {"age", "load", "store", "relink"} =>
       cpu[c].elem = entry /\ passed # <<>>
  /\ At(c, "store") => cpu[c].arg = Len(passed)
  /\ passed # <<>> =>
       /\ passed[1].t = mem[entry].start
       /\ passed[1].t <= clock
       /\ ~ At(c, "idle") => passed[1].t <= cpu[c].now
       /\ mem[entry].count = Len(passed) + (IF At(c, "relink") THEN 1 ELSE 0)
  /\ At(c, "answered") =>
       (cpu[c].arg = 1 <=> passed # <<>> /\ cpu[c].now > passed[1].t + FlowGrace)

FlowUnshared == FlowTyped /\ (~ evicted => \A c \in CPU : FlowAlone(c))

LEMMA FlowUnsharedInit == FlowInit => FlowUnshared
  BY FlowTypesInit DEF FlowUnshared, FlowInit, InitWith, FlowAlone, Idle, At

LEMMA FlowUnsharedStep ==
  ASSUME OneCpu
  PROVE  FlowUnshared /\ [FlowOwn]_vars => FlowUnshared'
  <1> SUFFICES ASSUME FlowUnshared, [FlowOwn]_vars PROVE FlowUnshared'
    OBVIOUS
  <1>1. PICK c : CPU = {c}
    BY DEF OneCpu
  <1>2. FlowTyped /\ FlowTyped'
    BY FlowTypesStep DEF FlowUnshared, FlowNext
  <1>3. /\ c \in CPU /\ mem \in [Elem -> FlowCounts]
        /\ cpu \in [CPU -> CpuStates(FlowPacket, FlowLabel)]
        /\ clock \in Time /\ cpu[c].now \in Time /\ cpu[c].arg \in Nat
        /\ entry \in Elem \cup {NoElem} /\ passed \in Seq(Dated(FlowPacket))
        /\ evicted \in BOOLEAN
    BY <1>1, <1>2, CpuFields DEF FlowTyped, Typed, TypesOK
  <1>4. SUFFICES ASSUME ~ evicted' PROVE FlowAlone(c)'
    BY <1>1, <1>2 DEF FlowUnshared
  <1>5. CASE \/ Evict \/ Tick \/ Finished \/ UNCHANGED vars
    <2>1. ~ Evict
      BY <1>4 DEF Evict
    <2>2. FlowAlone(c)
      BY <1>3, <1>4, <1>5, <2>1 DEF FlowUnshared, Tick, Finished, vars
    <2>3. /\ UNCHANGED <<entry, mem, cpu, passed>>
          /\ clock' \in Nat /\ clock <= clock'
      BY <1>3, <1>5, <2>1, Bounds DEF Tick, Finished, vars, history
    <2>4. passed # <<>> => passed[1].t <= clock'
      <3>1. passed # <<>> => passed[1] \in Dated(FlowPacket)
        BY <1>3, FirstIsIn
      <3>2. passed # <<>> => passed[1].t \in Nat /\ passed[1].t <= clock
        BY <2>2, <3>1, Bounds DEF Dated, FlowAlone
      <3> QED
        BY <1>3, <2>3, <3>2, Bounds
    <2>5. cpu[c].now <= clock'
      <3>1. cpu[c].now \in Nat /\ clock \in Nat /\ cpu[c].now <= clock
        BY <1>3, <2>2, Bounds DEF FlowAlone
      <3> QED
        BY <2>3, <3>1
    <2> QED
      BY <2>2, <2>3, <2>4, <2>5 DEF FlowAlone, At
  <1>6. ASSUME FlowHandle(c) PROVE FlowAlone(c)'
    <2>1. ~ evicted /\ FlowAlone(c)
      BY <1>3, <1>4, <1>6
         DEF FlowUnshared, FlowHandle, FlowArrive, BeginWithClock, FlowAsk,
             FlowLookup, ThenLookup, FlowAge, FlowClock, FlowInsert, FlowLoad,
             FlowStore, FlowRelink, history
    <2>2. ASSUME NEW p \in FlowPacket, FlowArrive(c, p) PROVE FlowAlone(c)'
      BY <1>3, <2>1, <2>2
         DEF FlowArrive, BeginWithClock, FlowAlone, At, Time, Dated
    <2>3. CASE FlowAsk(c)
      BY <1>3, <2>1, <2>3
         DEF FlowAsk, ThenLookup, FlowAlone, At, Time, Dated, history, CpuStates
    <2>4. CASE FlowAge(c)
      <3>1. cpu[c].elem = entry /\ passed # <<>> /\ entry \in Elem
        BY <1>3, <2>1, <2>4, Bounds DEF FlowAge, FlowAlone, At
      <3>2. /\ mem[entry].start \in Time /\ mem[entry].start = passed[1].t
            /\ mem[entry].start <= cpu[c].now
        BY <1>3, <2>1, <2>4, <3>1 DEF FlowAge, FlowAlone, At, FlowCounts
      <3>3. FlowOld(cpu[c].now, mem[entry].start)
              <=> cpu[c].now > passed[1].t + FlowGrace
        BY <1>3, <3>2, ElapsedInOrder, FlowTableAssumption DEF FlowOld, Time
      <3> QED
        BY <1>3, <2>1, <2>4, <3>1, <3>3
           DEF FlowAge, GotoWith, FlowAlone, At, history, CpuStates
    <2>5. CASE FlowClock(c)
      BY <1>3, <2>1, <2>5
         DEF FlowClock, FlowAlone, At, Time, Dated, history, CpuStates
    <2>6. CASE FlowLookup(c)
      BY <1>3, <2>1, <2>6
         DEF FlowLookup, ThenLookup, FlowAlone, At, history, CpuStates
    <2>7. CASE FlowInsert(c)
      <3>1. passed = <<>> /\ entry = NoElem /\ cpu[c].now <= clock
        BY <2>1, <2>7 DEF FlowInsert, FlowAlone, At
      <3>2. /\ passed' = <<Stamped(c)>> /\ Len(passed') = 1
            /\ passed'[1].t = cpu[c].now /\ passed' # <<>>
        BY <2>7, <3>1 DEF FlowInsert, FlowPass, Stamped
      <3>3. /\ entry' \in Elem /\ entry' # NoElem
            /\ mem'[entry'].start = cpu[c].now /\ mem'[entry'].count = 1
        BY <1>3, <2>7, Bounds DEF FlowInsert, Link, FlowCounters
      <3>4. clock' = clock /\ cpu'[c] = Idle
        BY <1>3, <2>7 DEF FlowInsert, FlowPass, Return
      <3> QED
        BY <1>3, <3>1, <3>2, <3>3, <3>4, Bounds DEF FlowAlone, At, Idle, Time
    <2>8. CASE FlowLoad(c)
      BY <1>3, <2>1, <2>8
         DEF FlowLoad, GotoWith, FlowAlone, At, history, CpuStates
    <2>9. CASE FlowStore(c)
      <3>1. /\ cpu[c].elem = entry /\ passed # <<>> /\ entry \in Elem
            /\ cpu[c].arg = Len(passed)
        BY <1>3, <2>1, <2>9, Bounds DEF FlowStore, FlowAlone, At
      <3>2. /\ mem'[entry].count = Len(passed) + 1
            /\ mem'[entry].start = mem[entry].start
        BY <1>3, <2>9, <3>1 DEF FlowStore, FlowCounts
      <3>3. /\ cpu'[c].at = "relink" /\ cpu'[c].now = cpu[c].now
            /\ cpu'[c].elem = cpu[c].elem
        BY <1>3, <2>9 DEF FlowStore, Goto, CpuStates
      <3>4. UNCHANGED <<clock, entry, passed>> /\ ~ At(c, "idle")
        BY <2>9 DEF FlowStore, history, At
      <3> QED
        BY <1>3, <2>1, <3>1, <3>2, <3>3, <3>4 DEF FlowAlone, At
    <2>10. CASE FlowRelink(c)
      <3>1. /\ cpu[c].elem = entry /\ passed # <<>> /\ entry \in Elem
            /\ mem[entry].count = Len(passed) + 1
            /\ passed[1].t = mem[entry].start /\ passed[1].t <= clock
        BY <1>3, <2>1, <2>10, Bounds DEF FlowRelink, FlowAlone, At
      <3>2. /\ passed' # <<>> /\ Len(passed') = Len(passed) + 1
            /\ passed'[1] = passed[1]
        BY <1>3, <2>10, <3>1 DEF FlowRelink, FlowPass
      <3>3. /\ entry' \in Elem /\ entry' # NoElem
            /\ mem'[entry'] = mem[entry]
        BY <1>3, <2>10, <3>1, Bounds DEF FlowRelink, Link
      <3>4. clock' = clock /\ cpu'[c] = Idle
        BY <1>3, <2>10 DEF FlowRelink, FlowPass, Return
      <3> QED
        BY <1>3, <3>1, <3>2, <3>3, <3>4, Bounds DEF FlowAlone, At, Idle, Time
    <2> QED
      BY <1>6, <2>2, <2>3, <2>4, <2>5, <2>6, <2>7, <2>8, <2>9, <2>10
         DEF FlowHandle
  <1> QED
    BY <1>1, <1>5, <1>6 DEF FlowOwn

LEMMA FlowUnsharedSuffices == FlowUnshared => FlowKeptExactly
  <1> SUFFICES ASSUME FlowUnshared, ~ evicted, NEW c \in CPU, FlowAlone(c)
               PROVE  /\ At(c, "idle") /\ passed # <<>>
                           => mem[entry].count = Len(passed)
                      /\ At(c, "answered") =>
                           (cpu[c].arg = 1 <=>
                              /\ passed # <<>>
                              /\ cpu[c].now > passed[1].t + FlowGrace)
    BY DEF FlowKeptExactly, FlowUnshared
  <1> QED
    BY DEF FlowAlone, At, FlowUnshared, FlowTyped, Typed, TypesOK

-----------------------------------------------------------------------------
(* One CPU and no other source: the properties carried over to SourceChecks *)

\* A behaviour in which no other source interferes consists of the steps of the
\* source's own packets.
LEMMA AloneSteps ==
  ASSUME Types, [Next]_allVars, Unshared'
  PROVE  /\ Unshared /\ UNCHANGED check
         /\ check = "syn"  => [SynOwn]_vars
         /\ check = "dns"  => [DnsOwn]_vars
         /\ check = "frag" => [FragOwn]_vars
         /\ check = "icmp" => [IcmpOwn]_vars
         /\ check = "flow" => [FlowOwn]_vars
  <1>1. ASSUME others \in [times : 0 .. MaxShared, gain : Nat],
               NEW e, NEW m, NEW t, NEW g, Intrude(e, m, t, g)
        PROVE  FALSE
    <2>1. others'.times = others.times + 1 /\ others.times \in Nat
      BY <1>1, LruEntryAssumption DEF Intrude
    <2> QED
      BY <2>1 DEF Unshared
  <1>2. CASE check = "syn"
    <2>1. [SynNext]_vars /\ UNCHANGED check
      BY <1>2, SynSteps, CheckKept
    <2>2. others \in [times : 0 .. MaxShared, gain : Nat]
      BY <1>2 DEF Types, SynTypeOK, TypesOK
    <2>3. [SynOwn]_vars
      BY <1>1, <2>1, <2>2 DEF SynNext, SynIntrude
    <2> QED
      BY <1>2, <2>1, <2>3, OwnAddNothing DEF Unshared
  <1>3. CASE check = "dns"
    <2>1. [DnsNext]_vars /\ UNCHANGED check
      BY <1>3, OtherSteps, CheckKept
    <2>2. others \in [times : 0 .. MaxShared, gain : Nat]
      BY <1>3 DEF Types, DnsTyped, Typed, TypesOK
    <2>3. [DnsOwn]_vars
      BY <1>1, <2>1, <2>2 DEF DnsNext, DnsIntrude
    <2> QED
      BY <1>3, <2>1, <2>3, DnsAddsNothing DEF Unshared
  <1>4. CASE check = "frag"
    <2>1. [FragNext]_vars /\ UNCHANGED check
      BY <1>4, OtherSteps, CheckKept
    <2>2. others \in [times : 0 .. MaxShared, gain : Nat]
      BY <1>4 DEF Types, FragTyped, Typed, TypesOK
    <2>3. [FragOwn]_vars
      BY <1>1, <2>1, <2>2 DEF FragNext, FragIntrude
    <2> QED
      BY <1>4, <2>1, <2>3, FragAddsNothing DEF Unshared
  <1>5. CASE check = "icmp"
    <2>1. [IcmpNext]_vars /\ UNCHANGED check
      BY <1>5, OtherSteps, CheckKept
    <2>2. others \in [times : 0 .. MaxShared, gain : Nat]
      BY <1>5 DEF Types, IcmpTyped, Typed, TypesOK
    <2>3. [IcmpOwn]_vars
      BY <1>1, <2>1, <2>2 DEF IcmpNext, IcmpIntrude
    <2> QED
      BY <1>5, <2>1, <2>3, IcmpAddsNothing DEF Unshared
  <1>6. CASE check = "flow"
    <2>1. [FlowNext]_vars /\ UNCHANGED check
      BY <1>6, OtherSteps, CheckKept
    <2>2. others \in [times : 0 .. MaxShared, gain : Nat]
      BY <1>6 DEF Types, FlowTyped, Typed, TypesOK
    <2>3. [FlowOwn]_vars
      BY <1>1, <2>1, <2>2 DEF FlowNext, FlowIntrude
    <2> QED
      BY <1>6, <2>1, <2>3, FlowAddsNothing DEF Unshared
  <1>7. CASE check = "udp"
    <2>1. [UdpNext]_vars /\ UNCHANGED check
      BY <1>7, OtherSteps, CheckKept
    <2>2. others \in [times : 0 .. MaxShared, gain : Nat]
      BY <1>7 DEF Types, UdpSound, UdpTyped, Typed, TypesOK
    <2>3. UdpOwn \/ UNCHANGED vars
      BY <1>1, <2>1, <2>2 DEF UdpNext, UdpIntrude
    <2> QED
      BY <1>7, <2>1, <2>3, UdpAddsNothing DEF Unshared
  <1>8. CASE check = "log"
    BY <1>8, CheckKept DEF Next, allVars, vars, Unshared
  <1> QED
    BY <1>2, <1>3, <1>4, <1>5, <1>6, <1>7, <1>8, SourceChecksAssumption
       DEF Types

\* On one CPU, and while it keeps its entry for itself, a flow shows the packets
\* that have passed, and is established exactly when it is more than five
\* seconds old (xdp_prog.c:295-302, 820-875).
THEOREM FlowExactOnOneCpu ==
  ASSUME OneCpu
  PROVE  Spec => []FlowExact
  <1> DEFINE Inv == Types /\ (Unshared => (check = "flow" => FlowUnshared))
  <1>1. Init => Inv
    BY TypesInit, FlowUnsharedInit DEF Init
  <1>2. Inv /\ [Next]_allVars => Inv'
    BY TypesStep, FlowUnsharedStep, AloneSteps
  <1>3. Inv => FlowExact
    BY FlowUnsharedSuffices DEF FlowExact, FlowKeptExactly
  <1> QED
    BY <1>1, <1>2, <1>3, PTL DEF Spec

\* On one CPU, and as long as no other source interferes, every drop has its
\* reason: a SYN or a DNS packet is dropped for its rate only in a second in
\* which the source sent more than its threshold, evictions or not and whether
\* or not the thresholds wrap; and a fragment, until the kernel evicts the
\* entry, exactly when its run is too long (xdp_prog.c:417-441, 468-485,
\* 569-583).
THEOREM DropsJustifiedOnOneCpu ==
  ASSUME OneCpu
  PROVE  Spec => []DropsJustified
  <1> DEFINE Inv == Types /\ (Unshared => /\ check = "syn"  => SynUnshared
                                          /\ check = "dns"  => DnsUnshared
                                          /\ check = "frag" => FragUnshared)
  <1>1. Init => Inv
    BY TypesInit, SynUnsharedInit, DnsUnsharedInit, FragUnsharedInit DEF Init
  <1>2. Inv /\ [Next]_allVars => Inv'
    BY TypesStep, SynUnsharedStep, DnsUnsharedStep, FragUnsharedStep, AloneSteps
  <1>3. Inv => DropsJustified
    BY SynUnsharedSuffices, DnsUnsharedSuffices, FragUnsharedSuffices
       DEF DropsJustified, SynDropJustified, DnsDropJustified, FragDropExact
  <1> QED
    BY <1>1, <1>2, <1>3, PTL DEF Spec

\* On one CPU, while the source keeps its entry for itself, no second lets more
\* than twice the rate of a plain SYN flood through, nor more than twice the
\* rate of new DNS flows and two large responses (xdp_prog.c:426-451, 545-598).
THEOREM RatesCappedOnOneCpu ==
  ASSUME OneCpu
  PROVE  Spec => []RatesCapped
  <1> DEFINE Inv == Types /\ (Unshared => /\ check = "syn" => SynPlain
                                          /\ check = "dns" => DnsPlain)
  <1>1. Init => Inv
    BY TypesInit, SynPlainInit, DnsPlainInit DEF Init
  <1>2. Inv /\ [Next]_allVars => Inv'
    BY TypesStep, SynPlainStep, DnsPlainStep, AloneSteps
  <1>3. Inv => RatesCapped
    BY SynPlainSuffices, DnsPlainSuffices
       DEF RatesCapped, SynFloodCapped, SynPlainFlood, DnsRateCapped,
           DnsLargeResponsesCapped
  <1> QED
    BY <1>1, <1>2, <1>3, PTL DEF Spec

\* On one CPU, and while the source has the bucket for itself, the packets let
\* through between two dates are at most a full bucket, what is earned meanwhile
\* and the free first one; and one is dropped only if another was let through
\* less than the time a token takes to be earned before, or so long before that
\* what was earned overflows.  No width of the integers is assumed
\* (xdp_prog.c:616-645).
THEOREM IcmpConformsOnOneCpu ==
  ASSUME OneCpu
  PROVE  Spec => []IcmpConforms
  <1> DEFINE Inv == Types /\ (Unshared => (check = "icmp" => IcmpUnshared))
  <1>1. Init => Inv
    BY TypesInit, IcmpUnsharedInit DEF Init
  <1>2. Inv /\ [Next]_allVars => Inv'
    BY TypesStep, IcmpUnsharedStep, AloneSteps
  <1>3. Inv => IcmpConforms
    <2>1. ~ Unshared => IcmpConformance /\ IcmpNoStarvation
      BY DEF IcmpConformance, IcmpNoStarvation
    <2> QED
      BY <2>1, IcmpUnsharedSuffices DEF IcmpConforms
  <1> QED
    BY <1>1, <1>2, <1>3, PTL DEF Spec

=============================================================================
