----------------------------- MODULE LatestValue -----------------------------
(***************************************************************************)
(* What the broadcast of src/websocket_server.c promises: a register of    *)
(* the latest message.  Messages are published in one order; a client is   *)
(* shown the latest one from time to time, never one older than it has     *)
(* seen or than its connection, and a client that stays connected sees     *)
(* each message or a later one.  Messages in between are skipped.          *)
(***************************************************************************)
EXTENDS Integers, Sequences

CONSTANTS
  Client, \* connections there can be
  Message \* what can be published

VARIABLES
  log,   \* the messages published, in order
  open,  \* the clients connected
  since, \* the length of log when each client connected
  seen,  \* the position in log of the latest message each client is up to
  got    \* the messages shown to each client, with their positions

lvVars == <<log, open, since, seen, got>>

LVInit ==
  /\ log = <<>>
  /\ open = {}
  /\ since = [c \in Client |-> 0]
  /\ seen = [c \in Client |-> 0]
  /\ got = [c \in Client |-> <<>>]

PublishMessage(m) ==
  /\ log' = Append(log, m)
  /\ UNCHANGED <<open, since, seen, got>>

Join(c) ==
  /\ c \notin open
  /\ open' = open \cup {c}
  /\ since' = [since EXCEPT ![c] = Len(log)]
  /\ seen' = [seen EXCEPT ![c] = Len(log)]
  /\ got' = [got EXCEPT ![c] = <<>>]
  /\ UNCHANGED log

Leave(c) ==
  /\ c \in open
  /\ open' = open \ {c}
  /\ UNCHANGED <<log, since, seen, got>>

\* The latest message is shown to c, or is lost on the way.
Observe(c) ==
  /\ c \in open
  /\ seen[c] < Len(log)
  /\ seen' = [seen EXCEPT ![c] = Len(log)]
  /\ \/ got' = [got EXCEPT ![c] =
                  Append(@, [id |-> Len(log), value |-> log[Len(log)]])]
     \/ UNCHANGED got
  /\ UNCHANGED <<log, open, since>>

LVNext ==
  \/ \E m \in Message : PublishMessage(m)
  \/ \E c \in Client : Join(c) \/ Leave(c) \/ Observe(c)

LVSpec == LVInit /\ [][LVNext]_lvVars

\* A client is not left behind for ever.
LVFairSpec == LVSpec /\ \A c \in Client : WF_lvVars(Observe(c))

-----------------------------------------------------------------------------

\* What a client has been shown is genuine and in order: messages published
\* after it connected, in the order of their publication, none twice.
InOrder ==
  \A c \in Client :
    /\ \A i \in DOMAIN got[c] :
         /\ got[c][i].id \in since[c] + 1 .. seen[c]
         /\ got[c][i].value = log[got[c][i].id]
    /\ \A i, j \in DOMAIN got[c] : i < j => got[c][i].id < got[c][j].id

=============================================================================
