-------------------------- MODULE WsBroadcastProofs --------------------------
(***************************************************************************)
(* Proofs about WsBroadcast for any numbers of producers, connections and  *)
(* calls: the four invariants, and that the broadcast implements the       *)
(* register of the latest message (its safety part).                       *)
(***************************************************************************)
EXTENDS WsBroadcast, TLAPS

\* The three parts of TypeOK: what the lock protects, the threads, and the
\* connections.
BroadcastTypes ==
  /\ lock \in Producer \cup {Service, NoThread}
  /\ msg \in Message \cup {Torn}
  /\ current \in Nat
  /\ calls \in 0 .. MaxCalls
  /\ log \in Seq(Message)

ThreadTypes ==
  /\ prod \in [Producer -> ProdState]
  /\ svc \in SvcState
  /\ server \in Nat

ConnectionTypes ==
  /\ open \in SUBSET Client
  /\ want \in SUBSET open
  /\ last \in [Client -> Nat]
  /\ \A c \in Client : last[c] <= current
  /\ since \in [Client -> Nat]
  /\ got \in [Client -> Seq(Sent)]

LEMMA TypeParts == TypeOK <=> BroadcastTypes /\ ThreadTypes /\ ConnectionTypes
  BY DEF TypeOK, BroadcastTypes, ThreadTypes, ConnectionTypes

\* Who is in a critical section holds the lock.
LockOwner ==
  /\ \A p \in Producer :
       prod[p].at \in {"copy", "copying", "bump", "unlock"} <=> lock = p
  /\ svc.at \in {"joining", "writing", "peeking"} <=> lock = Service

\* The service thread is in a callback of a connection of the right kind.
InCallback ==
  /\ svc.at \in {"join", "joining"} => svc.client \in Client \ open
  /\ svc.at \in {"write", "writing"} => svc.client \in open

\* The buffer holds the latest message except while it is being replaced.
Buffer ==
  /\ current = Len(log)
  /\ (\A p \in Producer : prod[p].at \notin {"copying", "bump"})
       => (current > 0 => msg = log[current])
  /\ \A p \in Producer : prod[p].at = "bump" => msg = prod[p].msg
  /\ \A p \in Producer : prod[p].at # "idle" => prod[p].msg \in Message

\* Nobody is ahead of current_msg_id.
Behind ==
  /\ server <= current
  /\ svc.current <= current
  /\ \A c \in Client : since[c] <= last[c] /\ last[c] <= current

\* The conjunction that the steps preserve.
IInv ==
  /\ TypeOK
  /\ LockOwner
  /\ InCallback
  /\ Buffer
  /\ Behind
  /\ NoLostWakeup
  /\ DeliveredInOrder

-----------------------------------------------------------------------------

\* The invariant holds initially.
LEMMA InitIInv == Init => IInv
  <1> SUFFICES ASSUME Init PROVE IInv
    OBVIOUS
  <1> USE WsBroadcastAssumption DEF Init
  <1>1. TypeOK
    <2>1. BroadcastTypes
      BY DEF BroadcastTypes
    <2>2. ThreadTypes
      BY DEF ThreadTypes, ProdState, SvcState, ProdLabel, SvcLabel
    <2>3. ConnectionTypes
      BY DEF ConnectionTypes
    <2> QED
      BY <2>1, <2>2, <2>3, TypeParts
  <1>2. LockOwner /\ InCallback /\ Behind /\ NoLostWakeup
    BY DEF LockOwner, InCallback, Behind, NoLostWakeup
  <1>3. Buffer
    BY DEF Buffer
  <1>4. DeliveredInOrder
    BY DEF DeliveredInOrder, LV!InOrder
  <1> QED
    BY <1>1, <1>2, <1>3, <1>4 DEF IInv


\* What an assignment to a field of prod[p] or of svc leaves well-typed.
LEMMA ProdUpdate ==
  ASSUME prod \in [Producer -> ProdState], NEW p \in Producer,
         NEW label \in ProdLabel
  PROVE  /\ [prod EXCEPT ![p].at = label] \in [Producer -> ProdState]
         /\ \A m \in Message \cup {Torn} :
              [prod EXCEPT ![p] = [at |-> label, msg |-> m]]
                \in [Producer -> ProdState]
  BY DEF ProdState

LEMMA SvcUpdate ==
  ASSUME svc \in SvcState
  PROVE  /\ svc.current \in Nat
         /\ svc.client \in Client \cup {NoClient}
         /\ \A label \in SvcLabel : [svc EXCEPT !.at = label] \in SvcState
         /\ \A label \in SvcLabel, client \in Client \cup {NoClient} :
              [svc EXCEPT !.at = label, !.client = client] \in SvcState
         /\ \A label \in SvcLabel, n \in Nat :
              [svc EXCEPT !.at = label, !.current = n] \in SvcState
  BY DEF SvcState

\* Every step of a producer keeps the types.
LEMMA ProducerTypes ==
  ASSUME IInv, NEW p \in Producer, Produce(p)
  PROVE  TypeOK'
  <1> USE WsBroadcastAssumption DEF sharedVars, connVars
  <1>1. BroadcastTypes /\ ThreadTypes /\ ConnectionTypes /\ Buffer
    BY TypeParts DEF IInv
  <1>2. prod[p] \in ProdState
    BY <1>1 DEF ThreadTypes
  <1>3. ASSUME Call(p) PROVE BroadcastTypes' /\ ThreadTypes'
    <2>1. calls' \in Message
      BY <1>1, <1>3 DEF Call, Message, BroadcastTypes
    <2>2. prod' \in [Producer -> ProdState]
      BY <1>1, <1>3, <2>1, ProdUpdate DEF Call, ProdLabel, ThreadTypes
    <2> QED
      BY <1>1, <1>3, <2>1, <2>2
         DEF Call, Message, BroadcastTypes, ThreadTypes
  <1>4. ASSUME Lock(p) PROVE BroadcastTypes' /\ ThreadTypes'
    BY <1>1, <1>4, ProdUpdate
       DEF Lock, To, ProdLabel, BroadcastTypes, ThreadTypes
  <1>5. ASSUME BeginCopy(p) PROVE BroadcastTypes' /\ ThreadTypes'
    BY <1>1, <1>5, ProdUpdate
       DEF BeginCopy, To, ProdLabel, BroadcastTypes, ThreadTypes
  <1>6. ASSUME EndCopy(p) PROVE BroadcastTypes' /\ ThreadTypes'
    BY <1>1, <1>2, <1>6, ProdUpdate
       DEF EndCopy, To, ProdLabel, ProdState, BroadcastTypes, ThreadTypes
  <1>7. ASSUME Bump(p) PROVE BroadcastTypes' /\ ThreadTypes'
    <2>1. prod[p].msg \in Message
      BY <1>1, <1>7 DEF Bump, At, Buffer
    <2>2. BroadcastTypes'
      BY <1>1, <1>7, <2>1 DEF Bump, BroadcastTypes
    <2> QED
      BY <1>1, <1>7, <2>2, ProdUpdate DEF Bump, To, ProdLabel, ThreadTypes
  <1>8. ASSUME Unlock(p) PROVE BroadcastTypes' /\ ThreadTypes'
    BY <1>1, <1>8, ProdUpdate
       DEF Unlock, ProdLabel, BroadcastTypes, ThreadTypes
  <1>9. ConnectionTypes'
    <2>1. UNCHANGED connVars /\ current <= current'
      BY <1>1
         DEF Produce, Call, Lock, BeginCopy, EndCopy, Bump, Unlock,
             BroadcastTypes
    <2>2. current' \in Nat
      BY <1>3, <1>4, <1>5, <1>6, <1>7, <1>8 DEF Produce, BroadcastTypes
    <2>3. \A c \in Client : last'[c] <= current'
      BY <1>1, <2>1, <2>2 DEF ConnectionTypes, BroadcastTypes
    <2> QED
      BY <1>1, <2>1, <2>3 DEF ConnectionTypes
  <1>10. TypeOK' <=> BroadcastTypes' /\ ThreadTypes' /\ ConnectionTypes'
    BY TypeParts, PTL
  <1> QED
    BY <1>3, <1>4, <1>5, <1>6, <1>7, <1>8, <1>9, <1>10 DEF Produce

\* Every step of the service thread keeps the types.
LEMMA ServiceTypes ==
  ASSUME IInv,
         Loop \/ \E c \in Client : Accept(c) \/ Writeable(c) \/ Close(c)
  PROVE  TypeOK'
  <1> USE WsBroadcastAssumption DEF sharedVars, connVars
  <1>1. BroadcastTypes /\ ThreadTypes /\ ConnectionTypes /\ InCallback
    BY TypeParts DEF IInv
  <1>2. BroadcastTypes'
    BY <1>1
       DEF Loop, AcquireLock, Acquire, Established, Write, WriteNothing,
           ServiceReturns, Peek, Request, NothingNew, Accept, Writeable,
           Close, BroadcastTypes
  <1>3. ThreadTypes'
    <2> USE <1>1, SvcUpdate
        DEF ThreadTypes, BroadcastTypes, SvcLabel, Return
    <2>1. ASSUME AcquireLock \/ ServiceReturns PROVE ThreadTypes'
      BY <2>1 DEF AcquireLock, Acquire, ServiceReturns
    <2>2. ASSUME Established \/ Write \/ WriteNothing PROVE ThreadTypes'
      <3>1. svc' = [svc EXCEPT !.at = "poll", !.client = NoClient]
        BY <2>2 DEF Established, Write, WriteNothing
      <3> QED
        BY <2>2, <3>1 DEF Established, Write, WriteNothing
    <2>3. ASSUME Peek PROVE ThreadTypes'
      BY <2>3 DEF Peek
    <2>5. ASSUME Request \/ NothingNew PROVE ThreadTypes'
      <3>1. svc' = [svc EXCEPT !.at = "poll", !.client = NoClient]
        BY <2>5 DEF Request, NothingNew
      <3> QED
        BY <2>5, <3>1 DEF Request, NothingNew
    <2>4. ASSUME NEW c \in Client, Accept(c) \/ Writeable(c) \/ Close(c)
          PROVE  ThreadTypes'
      <3>1. CASE Accept(c)
        BY <3>1 DEF Accept
      <3>2. CASE Writeable(c)
        BY <3>2 DEF Writeable
      <3>3. CASE Close(c)
        BY <3>3 DEF Close
      <3> QED
        BY <2>4, <3>1, <3>2, <3>3
    <2> QED
      BY <2>1, <2>2, <2>3, <2>4, <2>5 DEF Loop
  <1>4. ConnectionTypes'
    <2> USE <1>1 DEF ConnectionTypes, BroadcastTypes
    <2>1. ASSUME Established PROVE ConnectionTypes'
      <3>1. svc.client \in Client
        BY <2>1 DEF Established, InService, InCallback
      <3>2. got' \in [Client -> Seq(Sent)]
        BY <2>1, <3>1 DEF Established
      <3>3. /\ last' \in [Client -> Nat]
            /\ \A c \in Client : last'[c] <= current'
            /\ since' \in [Client -> Nat]
        BY <2>1, <3>1 DEF Established
      <3> QED
        BY <2>1, <3>1, <3>2, <3>3 DEF Established
    <2>2. ASSUME Write PROVE ConnectionTypes'
      <3>1. svc.client \in Client
        BY <2>2 DEF Write, InService, InCallback
      <3>2. [id |-> current, value |-> msg] \in Sent
        BY DEF Sent
      <3>3. got' \in [Client -> Seq(Sent)]
        <4>1. Append(got[svc.client], [id |-> current, value |-> msg])
                \in Seq(Sent)
          BY <3>1, <3>2
        <4> QED
          BY <2>2, <3>1, <4>1 DEF Write
      <3>4. /\ last' \in [Client -> Nat]
            /\ \A c \in Client : last'[c] <= current'
        BY <2>2, <3>1 DEF Write
      <3> QED
        BY <2>2, <3>1, <3>3, <3>4 DEF Write
    <2>3. ASSUME AcquireLock \/ WriteNothing \/ ServiceReturns \/ Peek
                   \/ NothingNew
          PROVE  ConnectionTypes'
      BY <2>3
         DEF AcquireLock, Acquire, WriteNothing, ServiceReturns, Peek,
             NothingNew
    <2>4. ASSUME Request PROVE ConnectionTypes'
      BY <2>4 DEF Request
    <2>5. ASSUME NEW c \in Client, Accept(c) \/ Writeable(c) \/ Close(c)
          PROVE  ConnectionTypes'
      <3>1. UNCHANGED <<current, last, since, got>>
        BY <2>5 DEF Accept, Writeable, Close
      <3>2. open' \in SUBSET Client /\ want' \in SUBSET open'
        BY <2>5 DEF Accept, Writeable, Close
      <3> QED
        BY <3>1, <3>2
    <2> QED
      BY <2>1, <2>2, <2>3, <2>4, <2>5 DEF Loop
  <1>5. TypeOK' <=> BroadcastTypes' /\ ThreadTypes' /\ ConnectionTypes'
    BY TypeParts, PTL
  <1> QED
    BY <1>2, <1>3, <1>4, <1>5

\* Every step keeps the types.
LEMMA TypeStep == IInv /\ [Next]_vars => TypeOK'
  <1>1. CASE UNCHANGED vars
    BY <1>1 DEF IInv, TypeOK, vars, sharedVars, connVars
  <1> QED
    BY <1>1, ProducerTypes, ServiceTypes DEF Next

\* The lock keeps its owner.
LEMMA LockStep == IInv /\ [Next]_vars => LockOwner'
  <1> SUFFICES ASSUME IInv, [Next]_vars PROVE LockOwner'
    OBVIOUS
  <1> USE WsBroadcastAssumption
      DEF IInv, LockOwner, TypeOK, ProdState, SvcState, sharedVars, connVars, vars
  <1>1. ASSUME NEW p \in Producer, Produce(p) PROVE LockOwner'
    <2>1. CASE Call(p)
      BY <2>1 DEF Call, At
    <2>5. CASE BeginCopy(p)
      BY <2>5 DEF BeginCopy, At, To
    <2>4. CASE EndCopy(p) \/ Bump(p)
      BY <2>4 DEF EndCopy, Bump, At, To
    <2>2. CASE Lock(p)
      BY <2>2 DEF Lock, At, To
    <2>3. CASE Unlock(p)
      BY <2>3 DEF Unlock, At
    <2> QED
      BY <1>1, <2>1, <2>2, <2>3, <2>4, <2>5 DEF Produce
  <1>2. CASE Loop
    <2>1. CASE AcquireLock
      BY <2>1 DEF AcquireLock, Acquire, InService
    <2>2. CASE Established \/ Write \/ WriteNothing
      <3>1. /\ svc.at \in {"joining", "writing"} /\ svc'.at = "poll"
            /\ lock' = NoThread /\ prod' = prod
        BY <2>2 DEF Established, Write, WriteNothing, InService, Return
      <3> QED
        BY <3>1
    <2>3. CASE Peek
      BY <2>3 DEF Peek, InService
    <2>4. CASE ServiceReturns \/ Request \/ NothingNew
      <3>1. /\ svc.at \in {"poll", "compare"} /\ svc'.at \in {"peek", "poll"}
            /\ lock' = lock /\ prod' = prod
        BY <2>4 DEF ServiceReturns, Request, NothingNew, InService, Return
      <3> QED
        BY <3>1
    <2> QED
      BY <1>2, <2>1, <2>2, <2>3, <2>4 DEF Loop
  <1>3. ASSUME NEW c \in Client, Accept(c) \/ Writeable(c) \/ Close(c)
        PROVE  LockOwner'
    BY <1>3 DEF Accept, Writeable, Close, InService
  <1>4. CASE UNCHANGED vars
    BY <1>4
  <1> QED
    BY <1>1, <1>2, <1>3, <1>4 DEF Next

\* The callbacks keep their connections.
LEMMA CallbackStep == IInv /\ [Next]_vars => InCallback'
  <1> SUFFICES ASSUME IInv, [Next]_vars PROVE InCallback'
    OBVIOUS
  <1> USE WsBroadcastAssumption
      DEF IInv, InCallback, TypeOK, ProdState, SvcState, sharedVars, connVars, vars
  <1>1. ASSUME NEW p \in Producer, Produce(p) PROVE InCallback'
    BY <1>1 DEF Produce, Call, Lock, BeginCopy, EndCopy, Bump, Unlock, At, To
  <1>2. CASE Loop
    <2>1. CASE AcquireLock
      BY <2>1 DEF AcquireLock, Acquire, InService
    <2>2. CASE Established \/ Write \/ WriteNothing
      BY <2>2 DEF Established, Write, WriteNothing, InService, Return
    <2>3. CASE ServiceReturns \/ Peek \/ Request \/ NothingNew
      BY <2>3 DEF ServiceReturns, Peek, Request, NothingNew, InService, Return
    <2> QED
      BY <1>2, <2>1, <2>2, <2>3 DEF Loop
  <1>3. ASSUME NEW c \in Client, Accept(c) \/ Writeable(c) \/ Close(c)
        PROVE  InCallback'
    BY <1>3 DEF Accept, Writeable, Close, InService
  <1>4. CASE UNCHANGED vars
    BY <1>4
  <1> QED
    BY <1>1, <1>2, <1>3, <1>4 DEF Next

\* The buffer is only ever replaced as a whole.
LEMMA BufferStep == IInv /\ [Next]_vars => Buffer'
  <1> SUFFICES ASSUME IInv, [Next]_vars PROVE Buffer'
    OBVIOUS
  <1> USE WsBroadcastAssumption
      DEF IInv, Buffer, TypeOK, ProdState, sharedVars, connVars, vars
  <1>1. ASSUME NEW p \in Producer, Call(p) PROVE Buffer'
    BY <1>1 DEF Call, At, To, Message
  <1>2. ASSUME NEW p \in Producer, Lock(p) PROVE Buffer'
    BY <1>2 DEF Lock, At, To
  <1>3. ASSUME NEW p \in Producer, BeginCopy(p) PROVE Buffer'
    BY <1>3 DEF BeginCopy, At, To, LockOwner
  <1>4. ASSUME NEW p \in Producer, EndCopy(p) PROVE Buffer'
    BY <1>4 DEF EndCopy, At, To, LockOwner
  <1>5. ASSUME NEW p \in Producer, Bump(p) PROVE Buffer'
    BY <1>5 DEF Bump, At, To, LockOwner
  <1>6. ASSUME NEW p \in Producer, Unlock(p) PROVE Buffer'
    BY <1>6 DEF Unlock, At, To, LockOwner
  <1>7. CASE Loop
    BY <1>7 DEF Loop, AcquireLock, Acquire, Established, Write, WriteNothing,
                ServiceReturns, Peek, Request, NothingNew, InService, Return
  <1>8. ASSUME NEW c \in Client, Accept(c) \/ Writeable(c) \/ Close(c)
        PROVE  Buffer'
    BY <1>8 DEF Accept, Writeable, Close, InService
  <1>9. CASE UNCHANGED vars
    BY <1>9
  <1> QED
    BY <1>1, <1>2, <1>3, <1>4, <1>5, <1>6, <1>7, <1>8, <1>9 DEF Next, Produce

\* The ids noticed never get ahead.
LEMMA BehindStep == IInv /\ [Next]_vars => Behind'
  <1> SUFFICES ASSUME IInv, [Next]_vars PROVE Behind'
    OBVIOUS
  <1> USE WsBroadcastAssumption DEF sharedVars, connVars, vars
  <1>1. /\ BroadcastTypes /\ ThreadTypes /\ ConnectionTypes
        /\ InCallback /\ Behind
    BY TypeParts DEF IInv
  <1> USE <1>1 DEF Behind, BroadcastTypes, ThreadTypes, ConnectionTypes,
                   SvcState
  <1>2. ASSUME NEW p \in Producer, Produce(p) PROVE Behind'
    <2>1. UNCHANGED <<svc, server, since, last>>
      BY <1>2 DEF Produce, Call, Lock, BeginCopy, EndCopy, Bump, Unlock
    <2>2. current' \in {current, current + 1}
      BY <1>2 DEF Produce, Call, Lock, BeginCopy, EndCopy, Bump, Unlock
    <2> QED
      BY <2>1, <2>2
  <1>3. CASE AcquireLock \/ WriteNothing \/ ServiceReturns \/ NothingNew
    <2>1. UNCHANGED <<current, server, since, last>>
      BY <1>3 DEF AcquireLock, Acquire, WriteNothing, ServiceReturns,
                  NothingNew
    <2>2. svc'.current = svc.current
      BY <1>3 DEF AcquireLock, Acquire, WriteNothing, ServiceReturns,
                  NothingNew, Return
    <2> QED
      BY <2>1, <2>2
  <1>4. CASE Established
    BY <1>4 DEF Established, Return, InService, InCallback
  <1>5. CASE Write
    BY <1>5 DEF Write, Return, InService, InCallback
  <1>6. CASE Peek
    BY <1>6 DEF Peek
  <1>9. CASE Request
    BY <1>9 DEF Request, Return
  <1>7. ASSUME NEW c \in Client, Accept(c) \/ Writeable(c) \/ Close(c)
        PROVE  Behind'
    <2>1. UNCHANGED <<current, server, since, last>>
      BY <1>7 DEF Accept, Writeable, Close
    <2>2. svc'.current = svc.current
      BY <1>7 DEF Accept, Writeable, Close
    <2> QED
      BY <2>1, <2>2
  <1>8. CASE UNCHANGED vars
    BY <1>8
  <1> QED
    BY <1>2, <1>3, <1>4, <1>5, <1>6, <1>7, <1>8, <1>9 DEF Next, Loop

\* A connection left behind has its callback.
LEMMA WakeupStep == IInv /\ [Next]_vars => NoLostWakeup'
  <1> SUFFICES ASSUME IInv, [Next]_vars PROVE NoLostWakeup'
    OBVIOUS
  <1> USE WsBroadcastAssumption DEF sharedVars, connVars, vars
  <1>1. /\ BroadcastTypes /\ ThreadTypes /\ ConnectionTypes
        /\ InCallback /\ Behind /\ NoLostWakeup
    BY TypeParts DEF IInv
  <1> USE <1>1 DEF NoLostWakeup, BroadcastTypes, ThreadTypes,
                   ConnectionTypes, SvcState
  <1>2. ASSUME NEW p \in Producer, Produce(p) PROVE NoLostWakeup'
    BY <1>2 DEF Produce, Call, Lock, BeginCopy, EndCopy, Bump, Unlock
  <1>3. CASE AcquireLock \/ ServiceReturns \/ Peek \/ NothingNew
    BY <1>3 DEF AcquireLock, Acquire, ServiceReturns, Peek, NothingNew,
                InService, Return
  <1>4. CASE Established
    BY <1>4 DEF Established, Return, InService, InCallback, Behind
  <1>5. CASE Write
    BY <1>5 DEF Write, Return, InService, InCallback, Behind
  <1>6. CASE WriteNothing
    BY <1>6 DEF WriteNothing, Return, InService, InCallback, Behind
  <1>7. CASE Request
    BY <1>7 DEF Request, Return
  <1>8. ASSUME NEW c \in Client, Accept(c) \/ Writeable(c) \/ Close(c)
        PROVE  NoLostWakeup'
    <2>1. CASE Accept(c)
      BY <2>1 DEF Accept, InService
    <2>2. CASE Writeable(c)
      BY <2>2 DEF Writeable, InService
    <2>3. CASE Close(c)
      BY <2>3 DEF Close
    <2> QED
      BY <1>8, <2>1, <2>2, <2>3
  <1>9. CASE UNCHANGED vars
    BY <1>9
  <1> QED
    BY <1>2, <1>3, <1>4, <1>5, <1>6, <1>7, <1>8, <1>9 DEF Next, Loop

\* What was delivered stays in order, and what is delivered comes after it.
LEMMA OrderStep == IInv /\ [Next]_vars => DeliveredInOrder'
  <1> SUFFICES ASSUME IInv, [Next]_vars PROVE DeliveredInOrder'
    OBVIOUS
  <1> USE WsBroadcastAssumption DEF sharedVars, connVars, vars
  <1>1. /\ BroadcastTypes /\ ThreadTypes /\ ConnectionTypes
        /\ LockOwner /\ InCallback /\ Buffer /\ Behind /\ LV!InOrder
    BY TypeParts DEF IInv, DeliveredInOrder
  <1> USE <1>1 DEF DeliveredInOrder, BroadcastTypes, ConnectionTypes
  <1>2. CASE UNCHANGED <<log, since, last, got>>
    BY <1>2 DEF LV!InOrder
  <1>3. ASSUME NEW p \in Producer, Bump(p) PROVE DeliveredInOrder'
    <2>1. \A n \in 1 .. Len(log) : log'[n] = log[n]
      BY <1>3 DEF Bump, Buffer
    <2>2. \A c \in Client : \A i \in DOMAIN got[c] :
            got[c][i].id \in 1 .. Len(log)
      BY DEF LV!InOrder, Behind, Buffer
    <2> QED
      BY <1>3, <2>1, <2>2 DEF Bump, LV!InOrder
  <1>4. CASE Established
    BY <1>4 DEF Established, InService, InCallback, LV!InOrder
  <1>5. CASE Write
    <2> DEFINE c == svc.client
               new == [id |-> current, value |-> msg]
    <2>1. /\ c \in Client
          /\ last[c] < current
          /\ last' = [last EXCEPT ![c] = current]
          /\ UNCHANGED <<log, since>>
          /\ lock = Service
      BY <1>5 DEF Write, InService, InCallback, LockOwner
    <2>2. msg = log[current]
      BY <2>1 DEF LockOwner, Buffer, ThreadTypes, Behind
    <2>3. CASE UNCHANGED got
      BY <2>1, <2>3 DEF LV!InOrder, Behind
    <2>4. CASE got' = [got EXCEPT ![c] = Append(got[c], new)]
      <3>1. new.id \in since[c] + 1 .. current /\ new.value = log[new.id]
        BY <2>1, <2>2 DEF Behind
      <3>2. \A i \in DOMAIN got[c] : got[c][i].id < new.id
        BY <2>1 DEF LV!InOrder, Behind
      <3> HIDE DEF new
      <3>3. /\ DOMAIN got'[c] = 1 .. Len(got[c]) + 1
            /\ got'[c][Len(got[c]) + 1] = new
            /\ \A i \in DOMAIN got[c] : got'[c][i] = got[c][i]
            /\ DOMAIN got[c] = 1 .. Len(got[c])
            /\ Len(got[c]) \in Nat
        BY <2>1, <2>4
      <3>4. \A d \in Client \ {c} :
              got'[d] = got[d] /\ last'[d] = last[d] /\ since'[d] = since[d]
        BY <2>1, <2>4
      <3>8. \A k \in DOMAIN got'[c] : k = Len(got[c]) + 1 \/ k \in DOMAIN got[c]
        BY <3>3
      <3>5. ASSUME NEW i \in DOMAIN got'[c]
            PROVE  /\ got'[c][i].id \in since'[c] + 1 .. last'[c]
                   /\ got'[c][i].value = log'[got'[c][i].id]
        <4>1. CASE i = Len(got[c]) + 1
          BY <2>1, <3>1, <3>3, <4>1
        <4>2. CASE i \in DOMAIN got[c]
          <5>1. got[c][i].id \in since[c] + 1 .. last[c]
            BY <2>1, <4>2 DEF LV!InOrder
          <5>2. got[c][i].value = log[got[c][i].id]
            BY <2>1, <4>2 DEF LV!InOrder
          <5>3. got'[c][i] = got[c][i]
            BY <3>3, <4>2
          <5>4. since[c] \in Nat /\ last[c] \in Nat /\ last'[c] = current
            BY <2>1
          <5>5. got[c][i].id \in since'[c] + 1 .. last'[c]
            BY <2>1, <5>1, <5>4
          <5> QED
            BY <2>1, <5>2, <5>3, <5>5
        <4> QED
          BY <3>8, <4>1, <4>2
      <3>6. ASSUME NEW i \in DOMAIN got'[c], NEW j \in DOMAIN got'[c], i < j
            PROVE  got'[c][i].id < got'[c][j].id
        <4>1. i \in DOMAIN got[c]
          BY <3>3, <3>6
        <4>2. CASE j = Len(got[c]) + 1
          BY <3>2, <3>3, <4>1, <4>2
        <4>3. CASE j \in DOMAIN got[c]
          BY <2>1, <3>3, <3>6, <4>1, <4>3 DEF LV!InOrder
        <4> QED
          BY <3>8, <4>2, <4>3
      <3>7. ASSUME NEW d \in Client
            PROVE  /\ \A i \in DOMAIN got'[d] :
                        /\ got'[d][i].id \in since'[d] + 1 .. last'[d]
                        /\ got'[d][i].value = log'[got'[d][i].id]
                   /\ \A i, j \in DOMAIN got'[d] :
                        i < j => got'[d][i].id < got'[d][j].id
        <4>1. CASE d = c
          BY <3>5, <3>6, <4>1
        <4>2. CASE d # c
          <5>1. /\ got'[d] = got[d] /\ since'[d] = since[d] /\ last'[d] = last[d]
                /\ log' = log
            BY <2>1, <3>4, <4>2
          <5> QED
            BY <2>1, <5>1 DEF LV!InOrder
        <4> QED
          BY <4>1, <4>2
      <3> QED
        BY <3>7 DEF LV!InOrder
    <2> QED
      BY <1>5, <2>3, <2>4 DEF Write
  <1>6. ASSUME NEW p \in Producer,
               Call(p) \/ Lock(p) \/ BeginCopy(p) \/ EndCopy(p) \/ Unlock(p)
        PROVE  DeliveredInOrder'
    BY <1>2, <1>6 DEF Call, Lock, BeginCopy, EndCopy, Unlock
  <1>7. CASE AcquireLock \/ WriteNothing \/ ServiceReturns \/ Peek \/ Request
               \/ NothingNew
    BY <1>2, <1>7 DEF AcquireLock, Acquire, WriteNothing, ServiceReturns, Peek,
                      Request, NothingNew
  <1>8. ASSUME NEW c \in Client, Accept(c) \/ Writeable(c) \/ Close(c)
        PROVE  DeliveredInOrder'
    BY <1>2, <1>8 DEF Accept, Writeable, Close
  <1> QED
    BY <1>2, <1>3, <1>4, <1>5, <1>6, <1>7, <1>8 DEF Next, Produce, Loop

-----------------------------------------------------------------------------

\* The invariant holds in every reachable state.
LEMMA Invariance == Spec => []IInv
  <1>1. IInv /\ [Next]_vars => IInv'
    BY TypeStep, LockStep, CallbackStep, BufferStep, BehindStep, WakeupStep,
       OrderStep
       DEF IInv
  <1> QED
    BY InitIInv, <1>1, PTL DEF Spec

\* Every variable keeps its type, and no connection gets ahead of
\* current_msg_id, however many threads and connections there are.
THEOREM TypeCorrect == Spec => []TypeOK
  BY Invariance, PTL DEF IInv

\* Outside the critical section of ws_broadcast_message the buffer holds the
\* latest message, whole.
THEOREM BufferConsistent == Spec => []Consistent
  <1>1. IInv => Consistent
    BY DEF IInv, Consistent, LockOwner, Buffer
  <1> QED
    BY Invariance, <1>1, PTL

\* An id that the loop has acted on reaches every connection's callback.
THEOREM WakeupNotLost == Spec => []NoLostWakeup
  BY Invariance, PTL DEF IInv

\* What a client is sent was broadcast after it connected, whole, in order and
\* without repetition.
THEOREM InOrderDelivery == Spec => []DeliveredInOrder
  BY Invariance, PTL DEF IInv

\* The broadcast implements the register of the latest message: publishing is
\* the increment of current_msg_id, joining is ESTABLISHED, and being shown a
\* message is the WRITEABLE callback that writes it.
THEOREM Refinement == Spec => LV!LVSpec
  <1>1. Init => LV!LVInit
    BY DEF Init, LV!LVInit
  <1>2. IInv /\ [Next]_vars => [LV!LVNext]_(LV!lvVars)
    <2> SUFFICES ASSUME IInv, [Next]_vars
                 PROVE  [LV!LVNext]_(LV!lvVars)
      OBVIOUS
    <2> USE DEF sharedVars, connVars, vars, LV!lvVars
    <2>1. /\ BroadcastTypes /\ ThreadTypes /\ ConnectionTypes
          /\ LockOwner /\ InCallback /\ Buffer
      BY TypeParts DEF IInv
    <2>2. ASSUME NEW p \in Producer, Bump(p) PROVE LV!LVNext
      <3>1. prod[p].msg \in Message
        BY <2>1, <2>2 DEF Bump, At, Buffer
      <3> QED
        BY <2>2, <3>1 DEF Bump, LV!LVNext, LV!PublishMessage
    <2>3. CASE Established
      <3>1. svc.client \in Client \ open /\ current = Len(log)
        BY <2>1, <2>3 DEF Established, InService, InCallback, Buffer
      <3>2. LV!Join(svc.client)
        BY <2>3, <3>1 DEF Established, LV!Join
      <3> QED
        BY <3>1, <3>2 DEF LV!LVNext
    <2>4. CASE Write
      <3>1. /\ svc.client \in open /\ svc.client \in Client
            /\ current = Len(log)
            /\ last[svc.client] < current
        BY <2>1, <2>4 DEF Write, InService, InCallback, Buffer,
                          ConnectionTypes
      <3>2. msg = log[current]
        BY <2>1, <2>4, <3>1, WsBroadcastAssumption
           DEF Write, InService, LockOwner, Buffer, ThreadTypes,
               ConnectionTypes, BroadcastTypes
      <3>3. LV!Observe(svc.client)
        BY <2>4, <3>1, <3>2 DEF Write, LV!Observe
      <3> QED
        BY <3>1, <3>3 DEF LV!LVNext
    <2>5. ASSUME NEW c \in Client, Close(c) PROVE LV!LVNext
      BY <2>5 DEF Close, LV!LVNext, LV!Leave
    <2>6. ASSUME NEW p \in Producer,
                 Call(p) \/ Lock(p) \/ BeginCopy(p) \/ EndCopy(p) \/ Unlock(p)
          PROVE  UNCHANGED LV!lvVars
      BY <2>6 DEF Call, Lock, BeginCopy, EndCopy, Unlock
    <2>7. CASE AcquireLock \/ WriteNothing \/ ServiceReturns \/ Peek \/ Request
                 \/ NothingNew
      BY <2>7 DEF AcquireLock, Acquire, WriteNothing, ServiceReturns, Peek,
                  Request, NothingNew
    <2>8. ASSUME NEW c \in Client, Accept(c) \/ Writeable(c)
          PROVE  UNCHANGED LV!lvVars
      BY <2>8 DEF Accept, Writeable
    <2>9. CASE UNCHANGED vars
      BY <2>9
    <2> QED
      BY <2>2, <2>3, <2>4, <2>5, <2>6, <2>7, <2>8, <2>9
         DEF Next, Produce, Loop
  <1> QED
    BY Invariance, <1>1, <1>2, PTL DEF Spec, LV!LVSpec

=============================================================================
