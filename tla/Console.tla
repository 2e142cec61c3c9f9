------------------------------- MODULE Console -------------------------------
(***************************************************************************)
(* What the daemon's HTTP server offers to its clients (src/http_server.c) *)
(* across crashes and restarts: the page, the files of Tetragon and the    *)
(* API keys.  All routes but those of the page's own files and the login   *)
(* ask for a session or a key first; a request that is refused there       *)
(* changes nothing, and is modelled where the refusal itself matters, in   *)
(* Dashboard.                                                              *)
(*                                                                         *)
(* The rules and the events that the page shows, the policies and the keys *)
(* share the daemon and its clock and nothing else, so a behaviour is      *)
(* about a client of one of them.                                          *)
(***************************************************************************)
EXTENDS Dashboard, PolicyStore

CONSTANT MaxKills \* bound: how often the daemon is killed

ASSUME ConsoleAssumption == MaxKills \in Nat

VARIABLES
  client, \* what this behaviour is about
  up,     \* the daemon runs
  kills   \* how often it was killed

Clients == {"rules", "events", "policies", "keys"}

vars == <<client, up, kills, now, sessions, keyVars, dashboardVars, policyVars>>

Init ==
  /\ client \in Clients
  /\ up = TRUE
  /\ kills = 0
  /\ AccountsInit
  /\ DashboardInit
  /\ PolicyInit
  /\ client # "policies" => store = Nothing /\ deployed = Nothing

-----------------------------------------------------------------------------

KeptDaemon == UNCHANGED <<client, up, kills>>

\* The page is opened; its calls may fail at any time, and do when nobody
\* accepts connections.
Browse ==
  /\ client \in {"rules", "events"}
  /\ \/ up /\ LogIn({client})
     \/ (\E c \in calls : Lose(c)) /\ UNCHANGED sessions
  /\ KeptDaemon
  /\ UNCHANGED <<now, keyVars, policyVars>>

\* The user edits the rules, and others do.
Edit ==
  /\ client = "rules"
  /\ \/ AddRule
     \/ DeleteRule
     \/ BlockIP
     \/ up /\ \E r \in Rule : Change(r)
  /\ KeptDaemon
  /\ UNCHANGED <<now, sessions, keyVars, policyVars>>

\* Events are stored while the page is connected or not.
Watch ==
  /\ client = "events"
  /\ up
  /\ \/ Store
     \/ Connect
     \/ Disconnect
     \/ TellTraffic
  /\ KeptDaemon
  /\ UNCHANGED <<now, sessions, keyVars, policyVars>>

\* What happens to calls and messages that are under way.
Serve ==
  /\ up
  /\ \E c \in calls : Handle(c)
  /\ KeptDaemon
  /\ UNCHANGED <<now, sessions, keyVars, policyVars>>

Answer ==
  /\ \E c \in calls : Deliver(c)
  /\ KeptDaemon
  /\ UNCHANGED <<now, sessions, keyVars, policyVars>>

Broadcast ==
  /\ Tell
  /\ KeptDaemon
  /\ UNCHANGED <<now, sessions, keyVars, policyVars>>

See ==
  /\ SeeEvent \/ SeeTraffic
  /\ KeptDaemon
  /\ UNCHANGED <<now, sessions, keyVars, policyVars>>

\* Requests about policies and the configuration.
Operate ==
  /\ client = "policies"
  /\ \/ up /\ PolicyRequest
     \/ Read
     \/ StartAnew
  /\ KeptDaemon
  /\ UNCHANGED <<now, sessions, keyVars, dashboardVars>>

Proceed ==
  /\ PolicyStep
  /\ KeptDaemon
  /\ UNCHANGED <<now, sessions, keyVars, dashboardVars>>

\* Requests about keys.
Manage ==
  /\ client = "keys"
  /\ up
  /\ CreateKey \/ \E k \in keys : DeleteKey(k.id)
  /\ KeptDaemon
  /\ UNCHANGED <<now, sessions, dashboardVars, policyVars>>

\* Time passes; an hour is enough to end a session.
Pass ==
  /\ \/ client \in {"rules", "events"} /\ now < Epoch + Hour
     \/ client = "keys"
  /\ Tick
  /\ KeptDaemon
  /\ UNCHANGED <<sessions, keyVars, dashboardVars, policyVars>>

-----------------------------------------------------------------------------
(* Crash and restart *)

Down ==
  /\ up
  /\ kills < MaxKills
  /\ kills' = kills + 1
  /\ up' = FALSE
  /\ DaemonGone
  /\ UNCHANGED <<client, now, sessions, keyVars>>

Kill == Down /\ KillJob

\* The machine goes down with the daemon; but for the policies, whose files are
\* not synced, that is as if the daemon were killed.
PowerCut == client = "policies" /\ Down /\ Reboot

\* The daemon is started again: the map of rules is empty, the database is not.
Launch ==
  /\ ~ up
  /\ up' = TRUE
  /\ Reseed
  /\ UNCHANGED <<client, kills, now, sessions, dashboardVars, policyVars>>

Next ==
  \/ Browse
  \/ Edit
  \/ Watch
  \/ Serve
  \/ Answer
  \/ Broadcast
  \/ See
  \/ Operate
  \/ Proceed
  \/ Manage
  \/ Pass
  \/ Kill
  \/ PowerCut
  \/ Launch

Spec == Init /\ [][Next]_vars

-----------------------------------------------------------------------------

\* Every variable keeps its type; in particular calls are told apart by their
\* numbers, and a page that is left keeps no connection.
TypeOK ==
  /\ client \in Clients
  /\ up \in BOOLEAN
  /\ kills \in 0 .. MaxKills
  /\ AccountsTypeOK
  /\ DashboardTypeOK
  /\ PolicyTypeOK
  /\ ~ up => job = NoJob /\ ~ telling /\ rules = {}

\* As long as the daemon runs, the copy of a policy that has no file, and whose
\* deletion is not under way, stays as it is: no request removes or replaces it,
\* another deletion and a deployment included, unless it names the copy itself
\* (security.c:319, 339, 352).
OrphansStay ==
  [][\A p \in Policy :
       /\ up' /\ Orphan(p) /\ ~ (JobAt("unlink") /\ job.item = p)
       /\ ~ NamesCopy(p) /\ ~ NamesCopy(p)'
       => deployed'[p] = deployed[p]]_vars

=============================================================================
