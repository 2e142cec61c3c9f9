----------------------------- MODULE WsBroadcast -----------------------------
(***************************************************************************)
(* The broadcast of src/websocket_server.c while the daemon runs.          *)
(*                                                                         *)
(* Producers call ws_broadcast_message from threads of their own (the      *)
(* statistics thread of main.c and the Tetragon monitor): under            *)
(* broadcast_lock they overwrite broadcast_msg and increment               *)
(* current_msg_id.  The service thread alone runs lws_service, which calls *)
(* callback_cyrenus for the connections, and the loop around it, which     *)
(* asks for the WRITEABLE callbacks when it notices a new id.              *)
(*                                                                         *)
(* A message is the number of the call that broadcasts it; Torn is what    *)
(* broadcast_msg holds while snprintf is filling it.  libwebsockets is     *)
(* modelled from how the file uses it: one lws_service handles any number  *)
(* of events, and calls WRITEABLE once for each request when the socket    *)
(* has room.                                                               *)
(***************************************************************************)
EXTENDS Integers, Sequences

CONSTANTS
  Producer,
  Client,
  Service,  \* the service thread
  NoThread, \* nobody holds broadcast_lock
  NoClient,
  MaxCalls  \* bound: calls of ws_broadcast_message in a run

ASSUME WsBroadcastAssumption ==
  /\ MaxCalls \in Nat
  /\ Service \notin Producer
  /\ NoThread \notin Producer \cup {Service}
  /\ NoClient \notin Client

Torn    == 0
Message == 1 .. MaxCalls

VARIABLES
  lock,    \* holder of broadcast_lock
  msg,     \* broadcast_msg
  current, \* current_msg_id
  calls,   \* calls of ws_broadcast_message so far
  prod,    \* program counter of each producer, and its message
  svc,     \* program counter of the service thread, the client of the
           \* callback it is in, and its variable current
  server,  \* server_last_msg_id
  open,    \* connections between ESTABLISHED and CLOSED
  want,    \* connections with a WRITEABLE callback requested
  last,    \* pss->last_msg_id of each connection
  log,     \* history: the messages broadcast, in the order of their ids
  since,   \* history: current_msg_id when the connection was established
  got      \* history: the messages written to each connection

sharedVars == <<lock, msg, current>>
connVars   == <<open, want, last, since, got>>
vars == <<sharedVars, calls, prod, svc, server, log, connVars>>

Init ==
  /\ lock = NoThread
  /\ msg = Torn
  /\ current = 0
  /\ calls = 0
  /\ prod = [p \in Producer |-> [at |-> "idle", msg |-> Torn]]
  /\ svc = [at |-> "poll", client |-> NoClient, current |-> 0]
  /\ server = 0
  /\ open = {}
  /\ want = {}
  /\ last = [c \in Client |-> 0]
  /\ log = <<>>
  /\ since = [c \in Client |-> 0]
  /\ got = [c \in Client |-> <<>>]

-----------------------------------------------------------------------------
(* ws_broadcast_message *)

At(p, label) == prod[p].at = label
To(p, label) == prod' = [prod EXCEPT ![p].at = label]

Call(p) ==
  /\ At(p, "idle")
  /\ calls < MaxCalls
  /\ calls' = calls + 1
  /\ prod' = [prod EXCEPT ![p] = [at |-> "lock", msg |-> calls']]
  /\ UNCHANGED <<sharedVars, svc, server, log, connVars>>

\* Mutation: the message is filled in before the lock is taken.
LockForgotten(p) ==
  /\ At(p, "lock")
  /\ To(p, "copy")
  /\ UNCHANGED <<sharedVars, calls, svc, server, log, connVars>>

Lock(p) ==
  /\ At(p, "lock")
  /\ lock = NoThread
  /\ lock' = p
  /\ To(p, "copy")
  /\ UNCHANGED <<msg, current, calls, svc, server, log, connVars>>

\* snprintf begins, and ends.
BeginCopy(p) ==
  /\ At(p, "copy")
  /\ msg' = Torn
  /\ To(p, "copying")
  /\ UNCHANGED <<lock, current, calls, svc, server, log, connVars>>

EndCopy(p) ==
  /\ At(p, "copying")
  /\ msg' = prod[p].msg
  /\ To(p, "bump")
  /\ UNCHANGED <<lock, current, calls, svc, server, log, connVars>>

Bump(p) ==
  /\ At(p, "bump")
  /\ current' = current + 1
  /\ log' = Append(log, prod[p].msg)
  /\ To(p, "unlock")
  /\ UNCHANGED <<lock, msg, calls, svc, server, connVars>>

Unlock(p) ==
  /\ At(p, "unlock")
  /\ lock' = NoThread
  /\ prod' = [prod EXCEPT ![p] = [at |-> "idle", msg |-> Torn]]
  /\ UNCHANGED <<msg, current, calls, svc, server, log, connVars>>

-----------------------------------------------------------------------------
(* callback_cyrenus, called by lws_service *)

InService(label) == svc.at = label
Return           == svc' = [svc EXCEPT !.at = "poll", !.client = NoClient]

\* pthread_mutex_lock(&broadcast_lock) in the service thread
Acquire(before, after) ==
  /\ InService(before)
  /\ lock = NoThread
  /\ lock' = Service
  /\ svc' = [svc EXCEPT !.at = after]
  /\ UNCHANGED <<msg, current, calls, prod, server, log, connVars>>

\* A client connects: LWS_CALLBACK_ESTABLISHED.
Accept(c) ==
  /\ InService("poll")
  /\ c \notin open
  /\ svc' = [svc EXCEPT !.at = "join", !.client = c]
  /\ UNCHANGED <<sharedVars, calls, prod, server, log, connVars>>

\* Mutation: a new connection starts ahead of the broadcast.
EstablishedAhead ==
  LET c == svc.client
  IN  /\ InService("joining")
      /\ open' = open \cup {c}
      /\ last' = [last EXCEPT ![c] = current + 1]
      /\ since' = [since EXCEPT ![c] = current]
      /\ got' = [got EXCEPT ![c] = <<>>]
      /\ lock' = NoThread
      /\ Return
      /\ UNCHANGED <<msg, current, calls, prod, server, log, want>>

\* The connection starts caught up.
Established ==
  LET c == svc.client
  IN  /\ InService("joining")
      /\ open' = open \cup {c}
      /\ last' = [last EXCEPT ![c] = current]
      /\ since' = [since EXCEPT ![c] = current]
      /\ got' = [got EXCEPT ![c] = <<>>]
      /\ lock' = NoThread
      /\ Return
      /\ UNCHANGED <<msg, current, calls, prod, server, log, want>>

\* The socket of c has room and a callback is due:
\* LWS_CALLBACK_SERVER_WRITEABLE.
Writeable(c) ==
  /\ InService("poll")
  /\ c \in want
  /\ want' = want \ {c}
  /\ svc' = [svc EXCEPT !.at = "write", !.client = c]
  /\ UNCHANGED <<sharedVars, calls, prod, server, log, open, last, since,
                 got>>

\* Mutation: the connection is up to the id that the loop has noticed.
WriteLoopId ==
  LET c == svc.client
  IN  /\ InService("writing")
      /\ last[c] < current
      /\ last' = [last EXCEPT ![c] = svc.current]
      /\ got' = [got EXCEPT ![c] =
                   Append(@, [id |-> current, value |-> msg])]
      /\ lock' = NoThread
      /\ Return
      /\ UNCHANGED <<msg, current, calls, prod, server, log, open, want,
                     since>>

\* A message the connection has not had is written; lws_write may fail, which
\* is reported on stderr and nothing else.
Write ==
  LET c == svc.client
  IN  /\ InService("writing")
      /\ last[c] < current
      /\ last' = [last EXCEPT ![c] = current]
      /\ \/ got' = [got EXCEPT ![c] =
                      Append(@, [id |-> current, value |-> msg])]
         \/ UNCHANGED got
      /\ lock' = NoThread
      /\ Return
      /\ UNCHANGED <<msg, current, calls, prod, server, log, open, want,
                     since>>

\* The connection has the latest message already.
WriteNothing ==
  /\ InService("writing")
  /\ last[svc.client] >= current
  /\ lock' = NoThread
  /\ Return
  /\ UNCHANGED <<msg, current, calls, prod, server, log, connVars>>

\* A client disconnects.
Close(c) ==
  /\ InService("poll")
  /\ c \in open
  /\ open' = open \ {c}
  /\ want' = want \ {c}
  /\ UNCHANGED <<sharedVars, calls, prod, svc, server, log, last, since, got>>

-----------------------------------------------------------------------------
(* ws_server_thread_impl *)

\* lws_service returns, because of an event or after 50 ms.
ServiceReturns ==
  /\ InService("poll")
  /\ svc' = [svc EXCEPT !.at = "peek"]
  /\ UNCHANGED <<sharedVars, calls, prod, server, log, connVars>>

Peek ==
  /\ InService("peeking")
  /\ svc' = [svc EXCEPT !.at = "compare", !.current = current]
  /\ lock' = NoThread
  /\ UNCHANGED <<msg, current, calls, prod, server, log, connVars>>

\* Mutation: the comparison is off by one.
PendingLate == server + 1 < svc.current

\* An id has been noticed that no callbacks were requested for.
Pending == server < svc.current

\* Mutation: no callback is requested while another one is.
RequestOnce ==
  /\ InService("compare")
  /\ Pending
  /\ want' = IF want = {} THEN open ELSE want
  /\ server' = svc.current
  /\ Return
  /\ UNCHANGED <<sharedVars, calls, prod, log, open, last, since, got>>

\* Something new: lws_callback_on_writable_all_protocol
Request ==
  /\ InService("compare")
  /\ Pending
  /\ want' = want \cup open
  /\ server' = svc.current
  /\ Return
  /\ UNCHANGED <<sharedVars, calls, prod, log, open, last, since, got>>

NothingNew ==
  /\ InService("compare")
  /\ ~ Pending
  /\ Return
  /\ UNCHANGED <<sharedVars, calls, prod, server, log, connVars>>

-----------------------------------------------------------------------------

Produce(p) ==
  \/ Call(p)
  \/ Lock(p)
  \/ BeginCopy(p)
  \/ EndCopy(p)
  \/ Bump(p)
  \/ Unlock(p)

AcquireLock ==
  \/ Acquire("join", "joining")
  \/ Acquire("write", "writing")
  \/ Acquire("peek", "peeking")

\* The steps of the service thread that need nothing from outside.
Loop ==
  \/ AcquireLock
  \/ Established
  \/ Write
  \/ WriteNothing
  \/ ServiceReturns
  \/ Peek
  \/ Request
  \/ NothingNew

Next ==
  \/ \E p \in Producer : Produce(p)
  \/ Loop
  \/ \E c \in Client : Accept(c) \/ Writeable(c) \/ Close(c)

Spec == Init /\ [][Next]_vars

\* Both kinds of threads run.  A thread that waits for the lock gets it in the
\* end: the others hold it for a few instructions and come back after a second
\* or 50 ms.  A call of lws_service handles the events there are and returns,
\* whatever else happens meanwhile.  A connection that stays open has room for
\* a message again and again, and every lws_service polls it.  Nobody has to
\* connect, disconnect or call.
Fairness ==
  /\ \A p \in Producer :
       /\ WF_vars(BeginCopy(p) \/ EndCopy(p) \/ Bump(p) \/ Unlock(p))
       /\ SF_vars(Lock(p))
  /\ WF_vars(Loop)
  /\ SF_vars(AcquireLock)
  /\ SF_vars(ServiceReturns)
  /\ \A c \in Client : SF_vars(Writeable(c))

FairSpec == Spec /\ Fairness

-----------------------------------------------------------------------------

ProdLabel == {"idle", "lock", "copy", "copying", "bump", "unlock"}
SvcLabel  == {"poll", "join", "joining", "write", "writing", "peek",
              "peeking", "compare"}
ProdState == [at : ProdLabel, msg : Message \cup {Torn}]
Sent      == [id : Nat, value : Message \cup {Torn}]
SvcState  == [at : SvcLabel, client : Client \cup {NoClient}, current : Nat]

\* Every variable keeps its type; no connection is ahead of the broadcast.
TypeOK ==
  /\ lock \in Producer \cup {Service, NoThread}
  /\ msg \in Message \cup {Torn}
  /\ current \in Nat
  /\ calls \in 0 .. MaxCalls
  /\ prod \in [Producer -> ProdState]
  /\ svc \in SvcState
  /\ server \in Nat
  /\ open \in SUBSET Client
  /\ want \in SUBSET open
  /\ last \in [Client -> Nat]
  /\ \A c \in Client : last[c] <= current
  /\ log \in Seq(Message)
  /\ since \in [Client -> Nat]
  /\ got \in [Client -> Seq(Sent)]

\* Whenever no producer is inside ws_broadcast_message's critical section, the
\* buffer holds the message of the current id, whole (lines 105-112): what the
\* WRITEABLE callback copies is what it records the connection to have got.
Consistent ==
  lock \notin Producer =>
    /\ current = Len(log)
    /\ current > 0 => msg = log[current]

\* What the loop has noticed is never forgotten: a connection that is behind
\* the id the loop last acted on has a callback requested or is in it, although
\* the id was read and acted on without the lock in between (lines 158-169).
NoLostWakeup ==
  \A c \in open : last[c] < server =>
    c \in want \/ (svc.at \in {"write", "writing"} /\ svc.client = c)

\* The broadcast implements the register of the latest message, its fairness
\* included; what a connection has been written is what the register shows.
LV == INSTANCE LatestValue WITH seen <- last

Implements == LV!LVFairSpec

\* What a client is sent is genuine and in order: whole messages broadcast
\* after it connected, in the order of their ids, none twice (lines 27-55).
DeliveredInOrder == LV!InOrder

\* A client that stays connected is brought up to every id: to its message or
\* to a later one (lines 158-171).
CaughtUp ==
  \A c \in Client, n \in Message :
    (c \in open /\ current >= n) ~> (last[c] >= n \/ c \notin open)

=============================================================================
