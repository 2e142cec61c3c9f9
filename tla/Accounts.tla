------------------------------ MODULE Accounts ------------------------------
(***************************************************************************)
(* Who may use the API: the sessions of src/api/auth.c, the API keys of    *)
(* src/api/keys.c, and the test in front of the protected routes           *)
(* (src/http_server.c:164-197).  Both are tables of the database, which    *)
(* outlives the process.  A session lasts an hour; nothing deletes one,    *)
(* logging out included, and its token is as good as unique: it is the     *)
(* number of the login.  A key is generated with rand(), which nothing     *)
(* seeds: it is the number of keys this process has generated.             *)
(*                                                                         *)
(* last_used_at is only shown, and is left out.  Console starts and stops  *)
(* the process that these actions belong to.                               *)
(***************************************************************************)
EXTENDS Integers, Sequences

CONSTANTS
  Hour,      \* what a session lasts, in ticks of the clock
  Day,       \* 86400, in ticks
  IntMax,    \* the largest int
  Days,      \* what requests give for expires_in_days
  Epoch,     \* time(NULL) at the beginning
  MaxClock,  \* bound: ticks of a run
  MaxLogins, \* bound: logins of a run
  MaxKeys    \* bound: keys generated in a run

ASSUME AccountsAssumption ==
  /\ {Hour, Day, IntMax, Epoch} \subseteq Nat \ {0}
  /\ Days \subseteq Int
  /\ {MaxClock, MaxLogins, MaxKeys} \subseteq Nat

Never == 0 \* NULL in the column expires_at

VARIABLES
  now,       \* time(NULL)
  sessions,  \* expires_at of each session, by token
  keys,      \* rows of api_keys; days is what the request asked for
  generated, \* keys that this process has generated
  lastId     \* AUTOINCREMENT of api_keys, with the failed insertions

sessionVars == <<sessions>>
keyVars     == <<keys, generated, lastId>>

AccountsInit ==
  /\ now = Epoch
  /\ sessions = <<>>
  /\ keys = {}
  /\ generated = 0
  /\ lastId = 0

Tick ==
  /\ now < Epoch + MaxClock
  /\ now' = now + 1

-----------------------------------------------------------------------------
(* Sessions *)

\* database_get_session finds the token, and it has not expired.
SessionValid(token) ==
  /\ token \in DOMAIN sessions
  /\ now < sessions[token]

\* A session is inserted; its token is Len(sessions').
OpenSession ==
  /\ Len(sessions) < MaxLogins
  /\ sessions' = Append(sessions, now + Hour)

-----------------------------------------------------------------------------
(* API keys *)

\* A product of ints, stored in an int.
AsInt(n) == ((n + IntMax + 1) % (2 * (IntMax + 1))) - (IntMax + 1)

\* The date stored for a key: NULL unless it is positive.
Expiry(days) ==
  LET date == IF days > 0 THEN now + AsInt(days * Day) ELSE Never
  IN  IF date > 0 THEN date ELSE Never

\* The key is generated, then inserted, which may fail.
CreateKey ==
  /\ lastId < MaxKeys
  /\ generated' = generated + 1
  /\ lastId' = lastId + 1
  /\ \E days \in Days :
       keys' \in {keys \cup {[id      |-> lastId',
                              value   |-> generated',
                              expires |-> Expiry(days),
                              created |-> now,
                              days    |-> days]},
                  keys}

\* The row is deleted, unless that fails; the answer is the same.
DeleteKey(id) ==
  /\ keys' \in {{k \in keys : k.id # id}, keys}
  /\ UNCHANGED <<generated, lastId>>

\* Mutation: the second in which a key expires is one more.
AcceptsAtExpiry(k) == k.expires = Never \/ k.expires >= now

\* The row k lets a request in.
Accepts(k) == k.expires = Never \/ k.expires > now

\* Some row lets a request with the key value in.
KeyValid(value) == \E k \in keys : k.value = value /\ Accepts(k)

\* The process has been started again; its generator begins anew.
Reseed ==
  /\ generated' = 0
  /\ UNCHANGED <<keys, lastId>>

-----------------------------------------------------------------------------

AccountsTypeOK ==
  /\ now \in Epoch .. Epoch + MaxClock
  /\ sessions \in Seq(Nat)
  /\ keys \subseteq [id : 1 .. lastId, value : Nat, expires : Nat,
                     created : Nat, days : Days]
  /\ \A k, l \in keys : k.id = l.id => k = l
  /\ generated \in 0 .. lastId
  /\ lastId \in 0 .. MaxKeys

\* A key lets requests in for exactly the days it was asked for, or for ever if
\* none were given, across restarts of the daemon; provided that the product
\* of the days and 86400 fits in an int, and that no other row holds the same
\* key, as rows do that are added after a restart (src/api/keys.c:24, 113-116,
\* src/database.c:469-472, 546).
KeyLastsItsDays ==
  \A k \in keys :
    k.days * Day <= IntMax /\ (\A l \in keys : l.value = k.value => l = k) =>
      (KeyValid(k.value) <=> k.days <= 0 \/ now < k.created + k.days * Day)

=============================================================================
