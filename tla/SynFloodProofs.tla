--------------------------- MODULE SynFloodProofs ---------------------------
(***************************************************************************)
(* Proofs about SynFlood for any number of CPUs and elements, any rate and *)
(* any interleaving, with elements that other sources share: the types,    *)
(* that no SYN is dropped before more than the rate have been counted, and *)
(* that no source is shut out for a second.                                *)
(***************************************************************************)
EXTENDS SynFlood, FiniteSetTheorems, TLAPS

USE LruEntryAssumption, SynFloodAssumption

\* The parts of TypeOK: the map, the CPUs, and the histories.
MapTypes ==
  /\ clock \in Time
  /\ entry \in Elem \cup {NoElem}
  /\ mem \in [Elem -> SynCounters]
  /\ sent \in 0 .. MaxPackets
  /\ evicted \in BOOLEAN
  /\ others \in [times : 0 .. MaxShared, gain : Nat]

CpuTypes ==
  /\ cpu \in [CPU -> CpuStates(SynPacket, SynLabel)]
  /\ \A c \in CPU : ~ At(c, "idle") => cpu[c].pkt \in SynPacket
  /\ \A c \in CPU : cpu[c].at \notin {"idle", "stamp", "insert"}
                      => cpu[c].elem \in Elem

HistoryTypes ==
  /\ received \in Seq(Dated(SynPacket))
  /\ passed \in Seq(Dated(SynPacket))
  /\ opened \subseteq Time

LEMMA TypeParts == SynTypeOK <=> MapTypes /\ CpuTypes /\ HistoryTypes
  BY DEF SynTypeOK, TypesOK, MapTypes, CpuTypes, HistoryTypes

\* What an assignment to cpu[c] leaves well-typed.
LEMMA CpuUpdate ==
  ASSUME cpu \in [CPU -> CpuStates(SynPacket, SynLabel)], NEW c \in CPU
  PROVE  /\ cpu[c].now \in Time
         /\ \A label \in SynLabel :
              [cpu EXCEPT ![c].at = label] \in [CPU -> CpuStates(SynPacket, SynLabel)]
         /\ \A label \in SynLabel, t \in Time :
              [cpu EXCEPT ![c].now = t, ![c].at = label]
                \in [CPU -> CpuStates(SynPacket, SynLabel)]
         /\ \A s \in CpuStates(SynPacket, SynLabel) :
              [cpu EXCEPT ![c] = s] \in [CPU -> CpuStates(SynPacket, SynLabel)]
  BY DEF CpuStates

\* What an assignment to a field of mem[e] leaves well-typed.
LEMMA MemUpdate ==
  ASSUME mem \in [Elem -> SynCounters], NEW e \in Elem
  PROVE  /\ mem[e].last \in Time /\ mem[e].syn \in Nat /\ mem[e].synack \in Nat
         /\ [mem EXCEPT ![e].syn = @ + 1] \in [Elem -> SynCounters]
         /\ [mem EXCEPT ![e].synack = @ + 1] \in [Elem -> SynCounters]
         /\ \A n \in Nat : /\ [mem EXCEPT ![e].syn = n] \in [Elem -> SynCounters]
                           /\ [mem EXCEPT ![e].synack = n]
                                \in [Elem -> SynCounters]
         /\ \A t \in Time : [mem EXCEPT ![e].last = t] \in [Elem -> SynCounters]
         /\ \A m \in SynCounters : [mem EXCEPT ![e] = m] \in [Elem -> SynCounters]
  BY DEF SynCounters

LEMMA IdleType == Idle \in CpuStates(SynPacket, SynLabel)
  BY DEF Idle, CpuStates, SynLabel, Time

LEMMA InitTypes == SynInit => SynTypeOK
  <1> SUFFICES ASSUME SynInit PROVE SynTypeOK
    OBVIOUS
  <1>1. MapTypes
    <2>1. [last |-> 0, syn |-> 0, synack |-> 0] \in SynCounters
      BY DEF SynCounters, Time
    <2>2. 0 \in Time /\ 0 \in 0 .. MaxPackets
      BY DEF Time
    <2>3. [times |-> 0, gain |-> 0] \in [times : 0 .. MaxShared, gain : Nat]
      OBVIOUS
    <2> QED
      BY <2>1, <2>2, <2>3 DEF SynInit, InitWith, MapTypes
  <1>2. CpuTypes
    BY IdleType DEF SynInit, InitWith, CpuTypes, Idle, At
  <1>3. HistoryTypes
    BY DEF SynInit, InitWith, HistoryTypes
  <1> QED
    BY <1>1, <1>2, <1>3, TypeParts

\* What packets of other sources do: they change one element in use and the
\* counter of what they have added.
LEMMA IntrudeFacts ==
  ASSUME MapTypes, HistoryTypes, SynIntrude
  PROVE  /\ MapTypes' /\ HistoryTypes'
         /\ UNCHANGED <<clock, entry, cpu, received, passed>>
         /\ opened \subseteq opened'
         /\ others.gain \in Nat /\ others'.gain \in Nat
         /\ others.gain <= others'.gain
         /\ \A e \in Elem :
              /\ mem'[e].syn <= mem[e].syn + (others'.gain - others.gain)
              /\ mem'[e].last = mem[e].last \/ mem'[e].last \in opened'
  <1>1. PICK e \in Elem, t \in 0 .. clock, n \in Foreign, m \in Foreign :
          Intrude(e, [last |-> t, syn |-> n, synack |-> m], t, Gain(n, mem[e].syn))
    BY DEF SynIntrude
  <1> DEFINE gain == Gain(n, mem[e].syn)
  <1>2. /\ mem \in [Elem -> SynCounters] /\ clock \in Time
        /\ others \in [times : 0 .. MaxShared, gain : Nat]
    BY DEF MapTypes
  <1>3. mem[e].syn \in Nat /\ n \in Nat /\ m \in Nat /\ t \in Time
    BY <1>2 DEF SynCounters, Time
  <1>4. gain \in Nat /\ n <= mem[e].syn + gain
    BY <1>3 DEF Gain
  <1> HIDE DEF gain
  <1>5. /\ others.times < MaxShared
        /\ others' = [times |-> others.times + 1, gain |-> others.gain + gain]
        /\ mem' = [mem EXCEPT ![e] = [last |-> t, syn |-> n, synack |-> m]]
        /\ opened' = opened \cup {t}
        /\ UNCHANGED <<clock, entry, cpu, sent, evicted, received, passed>>
    BY <1>1 DEF Intrude, gain
  <1>6. /\ others' \in [times : 0 .. MaxShared, gain : Nat]
        /\ others'.gain = others.gain + gain /\ others.gain \in Nat
    BY <1>2, <1>4, <1>5
  <1>7. mem' \in [Elem -> SynCounters]
    <2>1. [last |-> t, syn |-> n, synack |-> m] \in SynCounters
      BY <1>3 DEF SynCounters
    <2> QED
      BY <1>2, <1>5, <2>1
  <1>8. MapTypes' /\ HistoryTypes'
    BY <1>3, <1>5, <1>6, <1>7 DEF MapTypes, HistoryTypes
  <1>9. ASSUME NEW d \in Elem
        PROVE  /\ mem'[d].syn <= mem[d].syn + (others'.gain - others.gain)
               /\ mem'[d].last = mem[d].last \/ mem'[d].last \in opened'
    <2>1. CASE d = e
      <3>1. mem'[d].syn = n /\ mem'[d].last = t
        BY <1>2, <1>5, <2>1
      <3> QED
        BY <1>3, <1>4, <1>5, <1>6, <2>1, <3>1
    <2>2. CASE d # e
      <3>1. mem'[d] = mem[d] /\ mem[d].syn \in Nat
        BY <1>2, <1>5, <2>2 DEF SynCounters
      <3> QED
        BY <1>4, <1>6, <3>1
    <2> QED
      BY <2>1, <2>2
  <1> QED
    BY <1>4, <1>5, <1>6, <1>8, <1>9

\* The map keeps its types.
LEMMA MapStep == SynTypeOK /\ [SynNext]_vars => MapTypes'
  <1> SUFFICES ASSUME SynTypeOK, [SynNext]_vars PROVE MapTypes'
    OBVIOUS
  <1>1. MapTypes /\ CpuTypes /\ HistoryTypes
    BY TypeParts
  <1> USE DEF MapTypes, vars, history
  <1>2. ASSUME NEW c \in CPU, NEW p \in SynPacket, SynArrive(c, p)
        PROVE  MapTypes'
    BY <1>1, <1>2 DEF SynArrive, BeginWithLookup
  <1>3. ASSUME NEW c \in CPU,
               SynStamp(c) \/ SynAge(c) \/ SynJudgeRate(c)
                 \/ SynJudgeAcks(c) \/ SynDrop(c)
        PROVE  MapTypes'
    BY <1>1, <1>3
       DEF SynStamp, ThenClock, SynAge, SynJudgeRate, SynJudgeAcks, SynDrop
  <1>4. ASSUME NEW c \in CPU, SynInsert(c) PROVE MapTypes'
    <2>1. SynOpening(cpu[c].pkt, cpu[c].now) \in SynCounters
      BY <1>1, CpuUpdate DEF CpuTypes, SynOpening, SynCounters
    <2> QED
      BY <1>1, <1>4, <2>1, MemUpdate DEF SynInsert, Link
  <1>5. ASSUME NEW c \in CPU,
               SynCountSynAck(c) \/ SynCountSyn(c) \/ SynReopen(c)
                 \/ SynResetOwn(c)
                 \/ SynResetOther(c)
        PROVE  MapTypes'
    <2>1. cpu[c].elem \in Elem /\ cpu[c].now \in Time
      BY <1>1, <1>5, CpuUpdate
         DEF CpuTypes, SynCountSynAck, SynCountSyn, SynReopen, SynResetOwn,
             SynResetOther, At
    <2>2. mem' \in [Elem -> SynCounters]
      <3>1. CASE SynCountSynAck(c)
        BY <1>1, <2>1, <3>1, MemUpdate DEF SynCountSynAck
      <3>2. CASE SynCountSyn(c)
        BY <1>1, <2>1, <3>2, MemUpdate DEF SynCountSyn
      <3>3. CASE SynReopen(c)
        BY <1>1, <2>1, <3>3, MemUpdate DEF SynReopen
      <3>4. CASE SynResetOwn(c)
        BY <1>1, <2>1, <3>4, MemUpdate DEF SynResetOwn
      <3>5. CASE SynResetOther(c)
        BY <1>1, <2>1, <3>5, MemUpdate DEF SynResetOther
      <3> QED
        BY <1>5, <3>1, <3>2, <3>3, <3>4, <3>5
    <2> QED
      BY <1>1, <1>5, <2>2
         DEF SynCountSynAck, SynCountSyn, SynReopen, SynResetOwn, SynResetOther
  <1>6. CASE Evict \/ Tick \/ Finished
    <2>1. CASE Evict
      BY <1>1, <2>1 DEF Evict
    <2>2. CASE Tick
      BY <1>1, <2>2 DEF Tick, Time
    <2>3. CASE Finished
      BY <1>1, <2>3 DEF Finished
    <2> QED
      BY <1>6, <2>1, <2>2, <2>3
  <1>7. CASE UNCHANGED vars
    BY <1>1, <1>7
  <1>8. CASE SynIntrude
    BY <1>1, <1>8, IntrudeFacts
  <1> QED
    BY <1>2, <1>3, <1>4, <1>5, <1>6, <1>7, <1>8
       DEF SynNext, SynOwn, SynHandle

\* The CPUs keep their types.
LEMMA CpuStep == SynTypeOK /\ [SynNext]_vars => CpuTypes'
  <1> SUFFICES ASSUME SynTypeOK, [SynNext]_vars PROVE CpuTypes'
    OBVIOUS
  <1>1. MapTypes /\ CpuTypes
    BY TypeParts
  <1> USE DEF vars, history
  <1>2. ASSUME NEW c \in CPU, NEW p \in SynPacket, SynArrive(c, p)
        PROVE  CpuTypes'
    <2> DEFINE s == [at |-> "stamp", pkt |-> p, elem |-> entry, now |-> 0, arg |-> 0]
    <2>1. s \in CpuStates(SynPacket, SynLabel)
      BY <1>1 DEF CpuStates, SynLabel, MapTypes, Time
    <2>2. cpu' = [cpu EXCEPT ![c] = s]
      BY <1>2 DEF SynArrive, BeginWithLookup
    <2> QED
      BY <1>1, <2>1, <2>2 DEF CpuTypes, At
  <1>3. ASSUME NEW c \in CPU, SynStamp(c) PROVE CpuTypes'
    <2>1. cpu' \in [CPU -> CpuStates(SynPacket, SynLabel)]
      BY <1>1, <1>3, CpuUpdate
         DEF SynStamp, ThenClock, CpuTypes, MapTypes, SynLabel
    <2>2. /\ cpu[c].elem = NoElem => cpu'[c].at = "insert"
          /\ cpu[c].elem # NoElem => cpu'[c].at = "age"
          /\ cpu'[c].elem = cpu[c].elem /\ cpu'[c].pkt = cpu[c].pkt
          /\ \A d \in CPU \ {c} : cpu'[d] = cpu[d]
          /\ cpu[c].elem \in Elem \cup {NoElem}
          /\ cpu[c].pkt \in SynPacket
      BY <1>1, <1>3 DEF SynStamp, ThenClock, CpuTypes, CpuStates, At
    <2> QED
      BY <1>1, <2>1, <2>2 DEF CpuTypes, At
  <1>4. ASSUME NEW c \in CPU, Return(c) PROVE CpuTypes'
    <2>1. cpu' \in [CPU -> CpuStates(SynPacket, SynLabel)]
      BY <1>1, <1>4, CpuUpdate, IdleType DEF Return, CpuTypes
    <2> QED
      BY <1>1, <1>4, <2>1 DEF Return, CpuTypes, Idle, At
  <1>5. ASSUME NEW c \in CPU, NEW label \in SynLabel \ {"idle", "stamp", "insert"},
               cpu[c].at \notin {"idle", "stamp", "insert"},
               Goto(c, label)
        PROVE  CpuTypes'
    <2>1. cpu' \in [CPU -> CpuStates(SynPacket, SynLabel)]
      BY <1>1, <1>5, CpuUpdate DEF Goto, CpuTypes
    <2>2. /\ cpu'[c].elem = cpu[c].elem /\ cpu'[c].pkt = cpu[c].pkt
          /\ \A d \in CPU \ {c} : cpu'[d] = cpu[d]
      BY <1>1, <1>5 DEF Goto, CpuTypes, CpuStates
    <2> QED
      BY <1>1, <1>5, <2>1, <2>2 DEF CpuTypes, At
  <1>6. ASSUME NEW c \in CPU,
               SynInsert(c) \/ SynCountSynAck(c) \/ SynDrop(c)
                 \/ SynResetOther(c)
        PROVE  CpuTypes'
    BY <1>4, <1>6
       DEF SynInsert, SynCountSynAck, SynDrop, SynResetOther, SynPass
  <1>7. ASSUME NEW c \in CPU, SynAge(c) \/ SynCountSyn(c) \/ SynReopen(c)
    \/ SynResetOwn(c)
        PROVE  CpuTypes'
    BY <1>5, <1>7 DEF SynAge, SynCountSyn, SynReopen, SynResetOwn, At, SynLabel
  <1>8. ASSUME NEW c \in CPU, SynJudgeRate(c) \/ SynJudgeAcks(c)
        PROVE  CpuTypes'
    BY <1>4, <1>5, <1>8 DEF SynJudgeRate, SynJudgeAcks, SynPass, At, SynLabel
  <1>9. CASE Evict \/ Tick \/ Finished \/ UNCHANGED vars
    BY <1>1, <1>9 DEF Evict, Tick, Finished, CpuTypes, At
  <1>10. CASE SynIntrude
    <2>1. cpu' = cpu
      BY <1>10 DEF SynIntrude, Intrude
    <2> QED
      BY <1>1, <2>1 DEF CpuTypes, At
  <1> QED
    BY <1>2, <1>3, <1>6, <1>7, <1>8, <1>9, <1>10
       DEF SynNext, SynOwn, SynHandle

\* The histories keep their types.
LEMMA HistoryStep == SynTypeOK /\ [SynNext]_vars => HistoryTypes'
  <1> SUFFICES ASSUME SynTypeOK, [SynNext]_vars PROVE HistoryTypes'
    OBVIOUS
  <1>1. MapTypes /\ CpuTypes /\ HistoryTypes
    BY TypeParts
  <1> USE DEF HistoryTypes, vars, history
  <1>2. \A c \in CPU : ~ At(c, "idle") => Stamped(c) \in Dated(SynPacket)
    BY <1>1, CpuUpdate DEF CpuTypes, Stamped, Dated
  <1>3. ASSUME NEW c \in CPU, SynPass(c), ~ At(c, "idle")
        PROVE  passed' \in Seq(Dated(SynPacket))
    BY <1>1, <1>2, <1>3 DEF SynPass
  <1>4. ASSUME NEW c \in CPU, SynStamp(c) PROVE HistoryTypes'
    <2>1. [t |-> clock, pkt |-> cpu[c].pkt] \in Dated(SynPacket)
      BY <1>1, <1>4 DEF SynStamp, MapTypes, CpuTypes, Dated, At
    <2> QED
      BY <1>1, <1>4, <2>1 DEF SynStamp, ThenClock
  <1>5. ASSUME NEW c \in CPU, SynInsert(c) \/ SynReopen(c) PROVE HistoryTypes'
    <2>1. cpu[c].now \in Time
      BY <1>1, CpuUpdate DEF CpuTypes
    <2> QED
      BY <1>1, <1>3, <1>5, <2>1 DEF SynInsert, SynReopen, At
  <1>6. ASSUME NEW c \in CPU,
               SynCountSynAck(c) \/ SynJudgeRate(c) \/ SynJudgeAcks(c)
                 \/ SynResetOther(c)
        PROVE  HistoryTypes'
    BY <1>1, <1>3, <1>6
       DEF SynCountSynAck, SynJudgeRate, SynJudgeAcks, SynResetOther, At
  <1>7. ASSUME NEW c \in CPU,
               \/ \E p \in SynPacket : SynArrive(c, p)
               \/ SynAge(c) \/ SynCountSyn(c) \/ SynDrop(c) \/ SynResetOwn(c)
        PROVE  HistoryTypes'
    BY <1>1, <1>7
       DEF SynArrive, BeginWithLookup, SynAge, SynCountSyn, SynDrop,
           SynResetOwn
  <1>8. CASE Evict \/ Tick \/ Finished \/ UNCHANGED vars
    BY <1>1, <1>8 DEF Evict, Tick, Finished
  <1>9. CASE SynIntrude
    BY <1>1, <1>9, IntrudeFacts
  <1> QED
    BY <1>4, <1>5, <1>6, <1>7, <1>8, <1>9 DEF SynNext, SynOwn, SynHandle

\* Every step keeps the types.
LEMMA TypeStep == SynTypeOK /\ [SynNext]_vars => SynTypeOK'
  <1>1. SynTypeOK' <=> MapTypes' /\ CpuTypes' /\ HistoryTypes'
    BY TypeParts, PTL
  <1> QED
    BY <1>1, MapStep, CpuStep, HistoryStep

\* Every variable keeps its type, and a CPU past the branch of the failed
\* lookup holds an element.
THEOREM TypeCorrect == SynSpec => []SynTypeOK
  BY InitTypes, TypeStep, PTL DEF SynSpec

-----------------------------------------------------------------------------
(* NeverShutOut *)

\* The date of every element in use was stored with a segment let through, of
\* this source or of another.
DatesOpened == \A e \in Elem : InUse(e) => mem[e].last \in opened

\* A segment that is being counted came less than a second after such a date.
InWindow ==
  \A c \in CPU : cpu[c].at \in {"count", "rate", "acks", "drop"} =>
    \E t \in opened : cpu[c].now \in t .. (t + Window - 1)

\* The unsigned difference of two dates is small only if it does not wrap.
LEMMA FreshIsRecent ==
  ASSUME NEW now \in Time, NEW last \in Time, SynFresh(now, last)
  PROVE  now \in last .. (last + Window - 1)
  <1>1. CASE now >= last
    <2>1. (now - last) % U64 = now - last
      BY <1>1 DEF Time
    <2> QED
      BY <1>1, <2>1 DEF SynFresh, Elapsed, Time
  <1>2. CASE now < last
    <2>1. (now - last) % U64 = now - last + U64
      BY <1>2 DEF Time
    <2> QED
      BY <1>2, <2>1 DEF SynFresh, Elapsed, Time
  <1> QED
    BY <1>1, <1>2 DEF Time

\* The strengthening of NeverShutOut that the steps preserve.
Windows == SynTypeOK /\ DatesOpened /\ InWindow

\* Dates that a step stores are opened, and it keeps the others.
LEMMA DatesStep == Windows /\ [SynNext]_vars => DatesOpened'
  <1> SUFFICES ASSUME Windows, [SynNext]_vars PROVE DatesOpened'
    OBVIOUS
  <1>1. MapTypes /\ CpuTypes /\ HistoryTypes /\ DatesOpened
    BY TypeParts DEF Windows
  <1> USE <1>1 DEF vars, history
  <1>2. ASSUME opened \subseteq opened',
               \A e \in Elem : InUse(e)' =>
                 \/ InUse(e) /\ mem'[e].last = mem[e].last
                 \/ mem'[e].last \in opened'
        PROVE  DatesOpened'
    BY <1>2 DEF DatesOpened
  <1>3. ASSUME NEW c \in CPU, NEW p \in SynPacket, SynArrive(c, p)
        PROVE  DatesOpened'
    BY <1>2, <1>3 DEF SynArrive, BeginWithLookup, InUse, CpuTypes
  <1>4. ASSUME NEW c \in CPU, SynStamp(c) PROVE DatesOpened'
    BY <1>2, <1>4 DEF SynStamp, ThenClock, InUse, CpuTypes, CpuStates
  <1>5. ASSUME NEW c \in CPU, SynInsert(c) PROVE DatesOpened'
    <2>1. PICK e \in Elem \ {entry} :
            /\ entry' = e
            /\ mem' = [mem EXCEPT ![e] = SynOpening(cpu[c].pkt, cpu[c].now)]
      BY <1>5 DEF SynInsert, Link
    <2>2. mem'[e].last \in opened'
      BY <1>5, <2>1 DEF SynInsert, SynOpening, MapTypes
    <2>3. \A d \in Elem \ {e} : mem'[d] = mem[d]
      BY <2>1 DEF MapTypes
    <2>4. \A d \in CPU : cpu'[d].elem \in {NoElem, cpu[d].elem}
      BY <1>5 DEF SynInsert, SynPass, Return, Idle, CpuTypes
    <2> QED
      BY <1>2, <1>5, <2>1, <2>2, <2>3, <2>4 DEF SynInsert, InUse
  <1>6. ASSUME NEW c \in CPU, SynReopen(c) PROVE DatesOpened'
    <2>1. \A d \in CPU : cpu'[d].elem = cpu[d].elem
      BY <1>6 DEF SynReopen, Goto, CpuTypes, CpuStates
    <2>2. /\ mem' = [mem EXCEPT ![cpu[c].elem].last = cpu[c].now]
          /\ opened' = opened \cup {cpu[c].now} /\ entry' = entry
          /\ cpu[c].elem \in Elem
      BY <1>6 DEF SynReopen, CpuTypes, At
    <2>3. mem'[cpu[c].elem].last \in opened'
      BY <2>2 DEF MapTypes, SynCounters
    <2>4. \A d \in Elem \ {cpu[c].elem} : mem'[d] = mem[d]
      BY <2>2 DEF MapTypes
    <2> QED
      BY <1>2, <2>1, <2>2, <2>3, <2>4 DEF InUse
  <1>7. ASSUME UNCHANGED <<entry, opened>>,
               \A e \in Elem : mem'[e].last = mem[e].last,
               NEW c \in CPU,
               Return(c) \/ \E label \in SynLabel : Goto(c, label)
        PROVE  DatesOpened'
    <2>1. \A d \in CPU : cpu'[d].elem \in {NoElem, cpu[d].elem}
      BY <1>7 DEF Return, Goto, Idle, CpuTypes, CpuStates
    <2> QED
      BY <1>2, <1>7, <2>1 DEF InUse
  <1>8. ASSUME NEW c \in CPU,
               SynAge(c) \/ SynJudgeRate(c) \/ SynJudgeAcks(c) \/ SynDrop(c)
        PROVE  DatesOpened'
    <2>1. UNCHANGED <<entry, opened, mem>>
      BY <1>8 DEF SynAge, SynJudgeRate, SynJudgeAcks, SynDrop
    <2>2. Return(c) \/ \E label \in SynLabel : Goto(c, label)
      BY <1>8
         DEF SynAge, SynJudgeRate, SynJudgeAcks, SynDrop, SynPass, SynLabel
    <2> QED
      BY <1>7, <2>1, <2>2
  <1>9. ASSUME NEW c \in CPU,
               SynCountSynAck(c) \/ SynCountSyn(c) \/ SynResetOwn(c)
                 \/ SynResetOther(c)
        PROVE  DatesOpened'
    <2>1. UNCHANGED <<entry, opened>>
      BY <1>9 DEF SynCountSynAck, SynCountSyn, SynResetOwn, SynResetOther
    <2>2. \A e \in Elem : mem'[e].last = mem[e].last
      BY <1>9
         DEF SynCountSynAck, SynCountSyn, SynResetOwn, SynResetOther, MapTypes,
                  SynCounters
    <2>3. Return(c) \/ \E label \in SynLabel : Goto(c, label)
      BY <1>9
         DEF SynCountSynAck, SynCountSyn, SynResetOwn, SynResetOther, SynPass,
             SynLabel
    <2> QED
      BY <1>7, <2>1, <2>2, <2>3
  <1>10. CASE Evict
    BY <1>2, <1>10 DEF Evict, InUse
  <1>11. CASE Tick \/ Finished \/ UNCHANGED vars
    BY <1>2, <1>11 DEF Tick, Finished, InUse
  <1>12. CASE SynIntrude
    <2>1. /\ UNCHANGED <<entry, cpu>> /\ opened \subseteq opened'
          /\ \A e \in Elem :
               mem'[e].last = mem[e].last \/ mem'[e].last \in opened'
      BY <1>12, IntrudeFacts
    <2> QED
      BY <1>2, <2>1 DEF InUse
  <1> QED
    BY <1>3, <1>4, <1>5, <1>6, <1>8, <1>9, <1>10, <1>11, <1>12
       DEF SynNext, SynOwn, SynHandle

\* A segment that begins to be counted is in the window; the others stay in.
LEMMA WindowStep == Windows /\ [SynNext]_vars => InWindow'
  <1> SUFFICES ASSUME Windows, [SynNext]_vars PROVE InWindow'
    OBVIOUS
  <1>1. MapTypes /\ CpuTypes /\ HistoryTypes /\ DatesOpened /\ InWindow
    BY TypeParts DEF Windows
  <1> USE <1>1 DEF vars, history
  <1> DEFINE Judged == {"count", "rate", "acks", "drop"}
  <1>2. ASSUME opened \subseteq opened',
               \A c \in CPU : cpu'[c].at \in Judged =>
                 cpu[c].at \in Judged /\ cpu'[c].now = cpu[c].now
        PROVE  InWindow'
    BY <1>2 DEF InWindow
  <1>3. ASSUME NEW c \in CPU, opened \subseteq opened',
               Return(c) \/ \E label \in SynLabel \ Judged : Goto(c, label)
        PROVE  InWindow'
    BY <1>2, <1>3 DEF Return, Goto, Idle, CpuTypes, CpuStates
  <1>4. ASSUME NEW c \in CPU, opened \subseteq opened', cpu[c].at \in Judged,
               \E label \in SynLabel : Goto(c, label)
        PROVE  InWindow'
    BY <1>2, <1>4 DEF Goto, CpuTypes, CpuStates
  <1>5. ASSUME NEW c \in CPU, SynAge(c) PROVE InWindow'
    <2>1. CASE SynFresh(cpu[c].now, mem[cpu[c].elem].last)
      <3>1. cpu[c].elem \in Elem /\ InUse(cpu[c].elem) /\ cpu[c].now \in Time
        BY <1>5, CpuUpdate DEF SynAge, CpuTypes, InUse, At
      <3>2. mem[cpu[c].elem].last \in opened \cap Time
        BY <3>1, MemUpdate DEF DatesOpened, MapTypes
      <3>3. cpu[c].now \in mem[cpu[c].elem].last
                             .. (mem[cpu[c].elem].last + Window - 1)
        BY <2>1, <3>1, <3>2, FreshIsRecent
      <3>4. /\ opened' = opened
            /\ cpu'[c].now = cpu[c].now
            /\ \A d \in CPU \ {c} : cpu'[d] = cpu[d]
        BY <1>5 DEF SynAge, Goto, CpuTypes, CpuStates
      <3> QED
        BY <3>2, <3>3, <3>4 DEF InWindow
    <2>2. CASE ~ SynFresh(cpu[c].now, mem[cpu[c].elem].last)
      BY <1>3, <1>5, <2>2 DEF SynAge, SynLabel
    <2> QED
      BY <2>1, <2>2
  <1>6. ASSUME NEW c \in CPU, NEW p \in SynPacket, SynArrive(c, p)
        PROVE  InWindow'
    BY <1>2, <1>6 DEF SynArrive, BeginWithLookup, CpuTypes
  <1>7. ASSUME NEW c \in CPU, SynStamp(c) PROVE InWindow'
    BY <1>2, <1>7 DEF SynStamp, ThenClock, CpuTypes, CpuStates
  <1>8. ASSUME NEW c \in CPU,
               SynInsert(c) \/ SynCountSynAck(c) \/ SynDrop(c)
                 \/ SynResetOther(c)
        PROVE  InWindow'
    BY <1>3, <1>8
       DEF SynInsert, SynCountSynAck, SynDrop, SynResetOther, SynPass
  <1>9. ASSUME NEW c \in CPU, SynReopen(c) \/ SynResetOwn(c) PROVE InWindow'
    BY <1>3, <1>9 DEF SynReopen, SynResetOwn, SynLabel
  <1>10. ASSUME NEW c \in CPU, SynCountSyn(c) \/ SynJudgeRate(c)
    \/ SynJudgeAcks(c)
         PROVE  InWindow'
    BY <1>3, <1>4, <1>10
       DEF SynCountSyn, SynJudgeRate, SynJudgeAcks, SynPass, At, SynLabel
  <1>11. CASE Evict \/ Tick \/ Finished \/ UNCHANGED vars
    BY <1>2, <1>11 DEF Evict, Tick, Finished
  <1>12. CASE SynIntrude
    BY <1>2, <1>12, IntrudeFacts
  <1> QED
    BY <1>5, <1>6, <1>7, <1>8, <1>9, <1>10, <1>11, <1>12
       DEF SynNext, SynOwn, SynHandle

LEMMA WindowsInit == SynInit => Windows
  <1> SUFFICES ASSUME SynInit PROVE DatesOpened /\ InWindow
    BY InitTypes DEF Windows
  <1> QED
    BY DEF SynInit, InitWith, DatesOpened, InUse, InWindow, Idle

LEMMA WindowsStep == Windows /\ [SynNext]_vars => Windows'
  BY TypeStep, DatesStep, WindowStep DEF Windows

LEMMA WindowsSuffice == Windows => SynNeverShutOut
  BY DEF Windows, InWindow, SynNeverShutOut, At

\* A source is never shut out: less than a second before any SYN that is
\* dropped, a segment was let through, of the source or of another that its
\* element was handed out to.
THEOREM NotShutOut == SynSpec => []SynNeverShutOut
  BY WindowsInit, WindowsStep, WindowsSuffice, PTL DEF SynSpec

-----------------------------------------------------------------------------
(* DropNeedsRate *)

\* The CPUs that run a SYN no counter accounts for yet.
Uncounted ==
  {c \in CPU : cpu[c].pkt = "syn"
                 /\ cpu[c].at \in {"insert", "age", "count", "reopen", "own"}}

Received == Cardinality(SynsOf(received))

\* No counter, with all the SYNs that may still be added to it, overstates the
\* SYNs received and those that other sources have added.
Account ==
  \A e \in Elem :
    mem[e].syn + Cardinality(Uncounted) <= Received + others.gain

\* A SYN that has been found over the rate is.
Judged ==
  \A c \in CPU : cpu[c].at \in {"acks", "drop"} =>
    Received + others.gain > SynFloodRate

\* The strengthening of DropNeedsRate that the steps preserve.
Counted == SynTypeOK /\ Account /\ Judged

\* The sets that are counted are finite.
LEMMA Countable ==
  ASSUME HistoryTypes
  PROVE  /\ IsFiniteSet(Uncounted) /\ Cardinality(Uncounted) \in Nat
         /\ IsFiniteSet(SynsOf(received)) /\ Received \in Nat
  <1>1. IsFiniteSet(Uncounted)
    BY FS_Subset DEF Uncounted
  <1>2. IsFiniteSet(DOMAIN received)
    BY FS_Interval DEF HistoryTypes
  <1>3. IsFiniteSet(SynsOf(received))
    BY <1>2, FS_Subset DEF SynsOf
  <1> QED
    BY <1>1, <1>3, FS_CardinalityType DEF Received

\* A SYN received makes one more.
LEMMA OneMore ==
  ASSUME HistoryTypes, NEW x \in Dated(SynPacket), received' = Append(received, x)
  PROVE  Received' = IF x.pkt = "syn" THEN Received + 1 ELSE Received
  <1> DEFINE n == Len(received) + 1
  <1>1. /\ DOMAIN received' = DOMAIN received \cup {n}
        /\ received'[n] = x /\ n \notin DOMAIN received
        /\ \A i \in DOMAIN received : received'[i] = received[i]
    BY DEF HistoryTypes
  <1>2. CASE x.pkt = "syn"
    <2>1. SynsOf(received)' = SynsOf(received) \cup {n}
      BY <1>1, <1>2 DEF SynsOf
    <2>2. n \notin SynsOf(received)
      BY <1>1 DEF SynsOf
    <2> QED
      BY <1>2, <2>1, <2>2, Countable, FS_AddElement DEF Received
  <1>3. CASE x.pkt # "syn"
    <2>1. SynsOf(received)' = SynsOf(received)
      BY <1>1, <1>3 DEF SynsOf
    <2> QED
      BY <1>3, <2>1 DEF Received
  <1> QED
    BY <1>2, <1>3

\* Account survives a step that counts no SYN.
LEMMA NoneCounted ==
  ASSUME MapTypes, MapTypes', HistoryTypes, HistoryTypes', Account,
         Uncounted' \subseteq Uncounted, Received' = Received,
         others' = others,
         \A e \in Elem : mem'[e].syn <= mem[e].syn
  PROVE  Account'
  <1>1. Cardinality(Uncounted)' <= Cardinality(Uncounted)
    BY Countable, FS_Subset
  <1>2. Cardinality(Uncounted)' \in Nat /\ Cardinality(Uncounted) \in Nat
    BY <1>1, Countable, FS_Subset, FS_CardinalityType
  <1>3. Received \in Nat /\ others.gain \in Nat
    BY Countable DEF MapTypes
  <1>4. \A e \in Elem : mem[e].syn \in Nat /\ mem'[e].syn \in Nat
    BY DEF MapTypes, SynCounters
  <1> QED
    BY <1>1, <1>2, <1>3, <1>4 DEF Account

\* Account survives a step that counts one SYN, in any element.
LEMMA OneCounted ==
  ASSUME MapTypes, MapTypes', HistoryTypes, Account,
         NEW c \in Uncounted, Uncounted' = Uncounted \ {c},
         Received' = Received, others' = others,
         \A e \in Elem : mem'[e].syn <= mem[e].syn + 1
  PROVE  Account'
  <1>1. Cardinality(Uncounted)' = Cardinality(Uncounted) - 1
    BY Countable, FS_RemoveElement
  <1>2. /\ Cardinality(Uncounted) \in Nat /\ Received \in Nat
        /\ others.gain \in Nat
    BY Countable DEF MapTypes
  <1>3. \A e \in Elem : mem[e].syn \in Nat /\ mem'[e].syn \in Nat
    BY DEF MapTypes, SynCounters
  <1> QED
    BY <1>1, <1>2, <1>3 DEF Account

\* The packets of the source add nothing to what the others have added.
LEMMA OwnAddNothing == SynOwn \/ UNCHANGED vars => others' = others
  <1>1. ASSUME NEW c \in CPU, SynHandle(c) PROVE others' = others
    BY <1>1
       DEF SynHandle, SynArrive, BeginWithLookup, SynStamp, ThenClock,
           SynInsert, SynAge, SynCountSynAck, SynCountSyn, SynJudgeRate,
           SynJudgeAcks, SynDrop, SynReopen, SynResetOwn, SynResetOther
  <1> QED
    BY <1>1 DEF SynOwn, Evict, Tick, Finished, vars

\* A SYN is added to the uncounted ones when it is received, and leaves them
\* when a counter accounts for it.
LEMMA OwnAccountStep == Counted /\ (SynOwn \/ UNCHANGED vars) => Account'
  <1> SUFFICES ASSUME Counted, SynOwn \/ UNCHANGED vars PROVE Account'
    OBVIOUS
  <1>1. /\ MapTypes /\ CpuTypes /\ HistoryTypes /\ Account
        /\ MapTypes' /\ HistoryTypes'
        /\ others' = others /\ others.gain \in Nat
    <2>1. MapTypes /\ CpuTypes /\ HistoryTypes /\ Account
      BY TypeParts DEF Counted
    <2>2. MapTypes' /\ HistoryTypes'
      BY MapStep, HistoryStep DEF Counted, SynNext
    <2> QED
      BY <2>1, <2>2, OwnAddNothing DEF MapTypes
  <1> USE DEF vars, history
  <1>2. \A e \in Elem : mem[e].syn \in Nat /\ mem'[e].syn \in Nat
    BY <1>1 DEF MapTypes, SynCounters
  <1>3. ASSUME NEW c \in CPU, NEW p \in SynPacket, SynArrive(c, p)
        PROVE  Account'
    <2>1. Uncounted' \subseteq Uncounted
      BY <1>1, <1>3 DEF SynArrive, BeginWithLookup, Uncounted, CpuTypes
    <2>2. UNCHANGED <<mem, received>>
      BY <1>3 DEF SynArrive, BeginWithLookup
    <2>3. \A e \in Elem : mem'[e].syn <= mem[e].syn
      BY <1>2, <2>2
    <2> QED
      BY <1>1, <2>1, <2>2, <2>3, NoneCounted DEF Received
  <1>4. ASSUME NEW c \in CPU, SynStamp(c) PROVE Account'
    <2> DEFINE x == [t |-> clock, pkt |-> cpu[c].pkt]
    <2>1. /\ x \in Dated(SynPacket) /\ x.pkt = cpu[c].pkt
          /\ received' = Append(received, x) /\ mem' = mem
      BY <1>1, <1>4 DEF SynStamp, ThenClock, MapTypes, CpuTypes, Dated, At
    <2>2. Received' = IF x.pkt = "syn" THEN Received + 1 ELSE Received
      BY <1>1, <2>1, OneMore
    <2>3. /\ c \notin Uncounted
          /\ cpu'[c].at \in {"insert", "age"} /\ cpu'[c].pkt = cpu[c].pkt
          /\ \A d \in CPU \ {c} : cpu'[d] = cpu[d]
      BY <1>1, <1>4 DEF SynStamp, ThenClock, Uncounted, CpuTypes, CpuStates, At
    <2>4. CASE x.pkt = "syn"
      <3>1. Uncounted' = Uncounted \cup {c}
        BY <2>1, <2>3, <2>4 DEF Uncounted
      <3>2. Cardinality(Uncounted)' = Cardinality(Uncounted) + 1
        BY <1>1, <2>3, <3>1, Countable, FS_AddElement
      <3>3. Cardinality(Uncounted) \in Nat /\ Received \in Nat
        BY <1>1, Countable
      <3> QED
        BY <1>1, <1>2, <2>1, <2>2, <2>4, <3>2, <3>3 DEF Account
    <2>5. CASE x.pkt # "syn"
      <3>1. Uncounted' = Uncounted
        BY <2>1, <2>3, <2>5 DEF Uncounted
      <3> QED
        BY <1>1, <2>1, <2>2, <2>5, <3>1 DEF Account
    <2> QED
      BY <2>4, <2>5
  <1>5. ASSUME NEW c \in CPU, UNCHANGED received,
               \/ Return(c)
               \/ \E label \in SynLabel : Goto(c, label)
                    /\ (c \in Uncounted \/ label \notin
                          {"insert", "age", "count", "reopen", "own"})
        PROVE  Uncounted' \subseteq Uncounted /\ Received' = Received
    BY <1>1, <1>5
       DEF Return, Goto, Idle, Uncounted, CpuTypes, CpuStates, Received
  <1>6. ASSUME NEW c \in CPU, UNCHANGED received, c \in Uncounted,
               \/ Return(c)
               \/ \E label \in {"rate", "other"} : Goto(c, label)
        PROVE  Uncounted' = Uncounted \ {c} /\ Received' = Received
    <2>1. Received' = Received
      BY <1>6 DEF Received
    <2>2. cpu'[c].at \in {"idle", "rate", "other"}
      BY <1>1, <1>6 DEF Return, Goto, Idle, CpuTypes, CpuStates
    <2>3. \A d \in CPU \ {c} : cpu'[d] = cpu[d]
      BY <1>1, <1>6 DEF Return, Goto, CpuTypes
    <2> QED
      BY <2>1, <2>2, <2>3 DEF Uncounted
  <1>7. ASSUME NEW c \in CPU,
               SynAge(c) \/ SynJudgeRate(c) \/ SynJudgeAcks(c)
                 \/ SynDrop(c) \/ SynReopen(c)
        PROVE  Account'
    <2>1. \A e \in Elem : mem'[e].syn <= mem[e].syn
      BY <1>1, <1>2, <1>7
         DEF SynAge, SynJudgeRate, SynJudgeAcks, SynDrop, SynReopen, MapTypes,
             SynCounters
    <2>2. UNCHANGED received
      BY <1>7 DEF SynAge, SynJudgeRate, SynJudgeAcks, SynDrop, SynReopen
    <2>3. Uncounted' \subseteq Uncounted /\ Received' = Received
      <3>1. CASE SynJudgeRate(c) \/ SynJudgeAcks(c) \/ SynDrop(c)
        BY <1>5, <2>2, <3>1
           DEF SynJudgeRate, SynJudgeAcks, SynDrop, SynPass, SynLabel
      <3>2. CASE SynAge(c) \/ SynReopen(c)
        <4>1. \A d \in CPU : cpu'[d].pkt = cpu[d].pkt
          BY <1>1, <3>2 DEF SynAge, SynReopen, Goto, CpuTypes, CpuStates
        <4>2. \A d \in CPU \ {c} : cpu'[d] = cpu[d]
          BY <1>1, <3>2 DEF SynAge, SynReopen, Goto, CpuTypes
        <4>3. cpu[c].at \in {"age", "reopen"}
          BY <3>2 DEF SynAge, SynReopen, At
        <4> QED
          BY <2>2, <4>1, <4>2, <4>3 DEF Uncounted, Received
      <3> QED
        BY <1>7, <3>1, <3>2
    <2> QED
      BY <1>1, <2>1, <2>3, NoneCounted
  <1>8. ASSUME NEW c \in CPU, SynCountSynAck(c) \/ SynResetOther(c)
        PROVE  Account'
    <2>1. \A e \in Elem : mem'[e].syn <= mem[e].syn
      BY <1>1, <1>2, <1>8
         DEF SynCountSynAck, SynResetOther, MapTypes, SynCounters
    <2> QED
      BY <1>1, <1>5, <1>8, <2>1, NoneCounted
         DEF SynCountSynAck, SynResetOther, SynPass
  <1>9. ASSUME NEW c \in CPU, SynCountSyn(c) PROVE Account'
    <2>1. \A e \in Elem : mem'[e].syn <= mem[e].syn + 1
      BY <1>1, <1>2, <1>9 DEF SynCountSyn, MapTypes, SynCounters
    <2>2. c \in Uncounted
      BY <1>9 DEF SynCountSyn, Uncounted, At
    <2> QED
      BY <1>1, <1>6, <1>9, <2>1, <2>2, OneCounted DEF SynCountSyn
  <1>10. ASSUME NEW c \in CPU, SynInsert(c) PROVE Account'
    <2>1. PICK e \in Elem : mem' =
            [mem EXCEPT ![e] = SynOpening(cpu[c].pkt, cpu[c].now)]
      BY <1>10 DEF SynInsert, Link
    <2>2. Return(c) /\ UNCHANGED received
      BY <1>10 DEF SynInsert, SynPass
    <2>3. CASE cpu[c].pkt = "syn"
      <3>1. \A d \in Elem : mem'[d].syn <= mem[d].syn + 1
        BY <1>1, <1>2, <2>1, <2>3 DEF SynOpening, MapTypes
      <3>2. c \in Uncounted
        BY <1>10, <2>3 DEF SynInsert, Uncounted, At
      <3> QED
        BY <1>1, <1>6, <2>2, <3>1, <3>2, OneCounted
    <2>4. CASE cpu[c].pkt # "syn"
      <3>1. \A d \in Elem : mem'[d].syn <= mem[d].syn
        BY <1>1, <1>2, <2>1, <2>4 DEF SynOpening, MapTypes
      <3> QED
        BY <1>1, <1>5, <2>2, <3>1, NoneCounted
    <2> QED
      BY <2>3, <2>4
  <1>11. ASSUME NEW c \in CPU, SynResetOwn(c) PROVE Account'
    <2>1. Goto(c, "other") /\ UNCHANGED received
      BY <1>11 DEF SynResetOwn
    <2>2. CASE cpu[c].pkt = "syn"
      <3>1. \A d \in Elem : mem'[d].syn <= mem[d].syn + 1
        BY <1>1, <1>2, <1>11, <2>2 DEF SynResetOwn, MapTypes, SynCounters
      <3>2. c \in Uncounted
        BY <1>11, <2>2 DEF SynResetOwn, Uncounted, At
      <3> QED
        BY <1>1, <1>6, <2>1, <3>1, <3>2, OneCounted
    <2>3. CASE cpu[c].pkt # "syn"
      <3>1. \A d \in Elem : mem'[d].syn <= mem[d].syn
        BY <1>1, <1>2, <1>11, <2>3 DEF SynResetOwn, MapTypes, SynCounters
      <3> QED
        BY <1>1, <1>5, <2>1, <3>1, NoneCounted DEF SynLabel
    <2> QED
      BY <2>2, <2>3
  <1>12. CASE Evict \/ Tick \/ Finished \/ UNCHANGED vars
    <2>1. UNCHANGED <<mem, cpu, received>>
      BY <1>12 DEF Evict, Tick, Finished
    <2>2. Uncounted' = Uncounted /\ Received' = Received
      BY <2>1 DEF Uncounted, Received
    <2> QED
      BY <1>1, <2>1, <2>2 DEF Account
  <1> QED
    BY <1>3, <1>4, <1>7, <1>8, <1>9, <1>10, <1>11, <1>12 DEF SynOwn, SynHandle

\* What another source adds to a counter is added to what is allowed for.
LEMMA AccountStep == Counted /\ [SynNext]_vars => Account'
  <1> SUFFICES ASSUME Counted, SynIntrude PROVE Account'
    BY OwnAccountStep DEF SynNext
  <1>1. MapTypes /\ HistoryTypes /\ Account
    BY TypeParts DEF Counted
  <1>2. /\ MapTypes' /\ UNCHANGED <<cpu, received>>
        /\ others.gain \in Nat /\ others'.gain \in Nat
        /\ \A e \in Elem :
             mem'[e].syn <= mem[e].syn + (others'.gain - others.gain)
    BY <1>1, IntrudeFacts
  <1>3. Uncounted' = Uncounted /\ Received' = Received
    BY <1>2 DEF Uncounted, Received
  <1>4. Cardinality(Uncounted) \in Nat /\ Received \in Nat
    BY <1>1, Countable
  <1>5. \A e \in Elem : mem[e].syn \in Nat /\ mem'[e].syn \in Nat
    BY <1>1, <1>2 DEF MapTypes, SynCounters
  <1> HIDE DEF Received
  <1> QED
    BY <1>1, <1>2, <1>3, <1>4, <1>5 DEF Account

\* The SYNs received only grow in number, and so do those that others add.
LEMMA ReceivedGrows ==
  ASSUME SynTypeOK, [SynNext]_vars
  PROVE  /\ Received \in Nat /\ Received' \in Nat /\ Received <= Received'
         /\ others.gain \in Nat /\ others'.gain \in Nat
         /\ others.gain <= others'.gain
  <1>1. MapTypes /\ CpuTypes /\ HistoryTypes
    BY TypeParts
  <1>2. Received \in Nat
    BY <1>1, Countable
  <1> USE DEF vars, history
  <1>3. ASSUME NEW c \in CPU, SynStamp(c)
        PROVE  Received' = Received \/ Received' = Received + 1
    <2> DEFINE x == [t |-> clock, pkt |-> cpu[c].pkt]
    <2>1. x \in Dated(SynPacket) /\ received' = Append(received, x)
      BY <1>1, <1>3 DEF SynStamp, ThenClock, MapTypes, CpuTypes, Dated, At
    <2> QED
      BY <1>1, <2>1, OneMore
  <1>4. (\A c \in CPU : ~ SynStamp(c)) => received' = received
    BY DEF SynNext, SynHandle, SynArrive, BeginWithLookup, SynInsert, SynAge, SynCountSynAck,
           SynCountSyn, SynJudgeRate, SynJudgeAcks, SynDrop, SynReopen,
           SynResetOwn,
           SynResetOther, Evict, Tick, Finished, SynOwn, SynIntrude, Intrude
  <1>5. /\ others.gain \in Nat /\ others'.gain \in Nat
        /\ others.gain <= others'.gain
    <2>1. CASE SynIntrude
      BY <1>1, <2>1, IntrudeFacts
    <2>2. CASE SynOwn \/ UNCHANGED vars
      BY <1>1, <2>2, OwnAddNothing DEF MapTypes
    <2> QED
      BY <2>1, <2>2 DEF SynNext
  <1> QED
    BY <1>2, <1>3, <1>4, <1>5 DEF Received

\* A SYN is found over the rate by a counter that does not overstate.
LEMMA JudgedStep == Counted /\ [SynNext]_vars => Judged'
  <1> SUFFICES ASSUME Counted, [SynNext]_vars PROVE Judged'
    OBVIOUS
  <1>1. MapTypes /\ CpuTypes /\ HistoryTypes /\ Account /\ Judged
    BY TypeParts DEF Counted
  <1>2. /\ Received \in Nat /\ Received' \in Nat /\ Received <= Received'
        /\ others.gain \in Nat /\ others'.gain \in Nat
        /\ others.gain <= others'.gain
    BY ReceivedGrows DEF Counted
  <1> DEFINE Over == Received + others.gain > SynFloodRate
  <1> USE DEF vars, history
  <1>3. ASSUME \A c \in CPU : cpu'[c].at \in {"acks", "drop"} =>
                 cpu[c].at \in {"acks", "drop"} \/ Over
        PROVE  Judged'
    <2>1. Over => (Received' + others'.gain > SynFloodRate)
      BY <1>2
    <2> QED
      BY <1>1, <1>3, <2>1 DEF Judged
  <1>4. ASSUME NEW c \in CPU, SynJudgeRate(c) PROVE Judged'
    <2>1. CASE SynOverRate(mem[cpu[c].elem])
      <3>1. cpu[c].elem \in Elem
        BY <1>1, <1>4 DEF SynJudgeRate, CpuTypes, At
      <3>2. /\ mem[cpu[c].elem].syn \in Nat
            /\ mem[cpu[c].elem].syn <= Received + others.gain
        BY <1>1, <1>2, <3>1, Countable DEF Account, MapTypes, SynCounters
      <3>3. Over
        BY <1>2, <2>1, <3>2 DEF SynOverRate
      <3> QED
        BY <1>3, <3>3
    <2>2. CASE ~ SynOverRate(mem[cpu[c].elem])
      BY <1>1, <1>3, <1>4, <2>2
         DEF SynJudgeRate, SynPass, Return, Idle, CpuTypes
    <2> QED
      BY <2>1, <2>2
  <1>5. ASSUME NEW c \in CPU,
               \/ Return(c)
               \/ \E label \in SynLabel : Goto(c, label)
                    /\ (label \notin {"acks", "drop"} \/ At(c, "acks"))
        PROVE  Judged'
    BY <1>1, <1>3, <1>5 DEF Return, Goto, Idle, At, CpuTypes, CpuStates
  <1>6. ASSUME NEW c \in CPU, NEW p \in SynPacket, SynArrive(c, p)
        PROVE  Judged'
    BY <1>1, <1>3, <1>6 DEF SynArrive, BeginWithLookup, CpuTypes
  <1>7. ASSUME NEW c \in CPU, SynStamp(c) PROVE Judged'
    BY <1>1, <1>3, <1>7 DEF SynStamp, ThenClock, CpuTypes, CpuStates
  <1>8. ASSUME NEW c \in CPU,
               \/ SynInsert(c) \/ SynCountSynAck(c) \/ SynDrop(c)
                 \/ SynResetOther(c)
               \/ SynJudgeAcks(c)
        PROVE  Judged'
    BY <1>5, <1>8
       DEF SynInsert, SynCountSynAck, SynDrop, SynResetOther, SynJudgeAcks,
           SynPass, SynLabel
  <1>9. ASSUME NEW c \in CPU, SynAge(c) \/ SynCountSyn(c) \/ SynReopen(c)
    \/ SynResetOwn(c)
        PROVE  Judged'
    BY <1>5, <1>9 DEF SynAge, SynCountSyn, SynReopen, SynResetOwn, SynLabel
  <1>10. CASE Evict \/ Tick \/ Finished \/ UNCHANGED vars
    BY <1>3, <1>10 DEF Evict, Tick, Finished
  <1>11. CASE SynIntrude
    BY <1>3, <1>11 DEF SynIntrude, Intrude
  <1> QED
    BY <1>4, <1>6, <1>7, <1>8, <1>9, <1>10, <1>11
       DEF SynNext, SynOwn, SynHandle

LEMMA CountedInit == SynInit => Counted
  <1> SUFFICES ASSUME SynInit PROVE Account /\ Judged
    BY InitTypes DEF Counted
  <1>1. Uncounted = {} /\ SynsOf(received) = {}
    BY DEF SynInit, InitWith, Idle, Uncounted, SynsOf
  <1>2. Cardinality(Uncounted) = 0 /\ Received = 0
    BY <1>1, FS_EmptySet DEF Received
  <1> QED
    BY <1>2 DEF SynInit, InitWith, Idle, Account, Judged

LEMMA CountedStep == Counted /\ [SynNext]_vars => Counted'
  BY TypeStep, AccountStep, JudgedStep DEF Counted

LEMMA CountedSuffices == Counted => SynDropNeedsRate
  BY DEF Counted, Judged, SynDropNeedsRate, Received, At

\* However the CPUs interleave, a SYN is dropped only when the source has
\* sent more than syn_flood_rate SYNs, those included that other sources have
\* counted in an element it shared with them.
THEOREM NoDropBelowRate == SynSpec => []SynDropNeedsRate
  BY CountedInit, CountedStep, CountedSuffices, PTL DEF SynSpec

=============================================================================
