------------------------------ MODULE Dashboard ------------------------------
(***************************************************************************)
(* The page of the web interface (src/web/src/app.ts, login.html) and what *)
(* it works on: the rules, which only the kernel's map holds               *)
(* (src/api/rules.c), and the security events of the database.             *)
(*                                                                         *)
(* The page calls the server without waiting for the calls before, so      *)
(* calls are in flight together; the server handles them one at a time, in *)
(* any order, and an answer or the whole call may be lost.  What the page  *)
(* does next depends on the call that is answered.  The page learns of     *)
(* events from a WebSocket, a register of the latest message that          *)
(* WsBroadcast implements.  Of the lists that the page shows, the traffic, *)
(* the attacks, the settings, the keys and the statistics are left out:    *)
(* they are asked for like the two that are modelled, and never change     *)
(* these.                                                                  *)
(***************************************************************************)
EXTENDS Accounts, FiniteSets

CONSTANTS
  Ip,         \* addresses that rules are about
  ZeroIp,     \* what a rule without a valid address is about
  First,      \* the rules that come first in the hash map, when they are in it
  MaxActs,    \* bound: what the user does with a page
  MaxChanges, \* bound: rules changed by others
  EventLimit, \* how many events the page asks for
  MaxEvents   \* bound: security events

Rule == [ip : Ip, proto : {"tcp", "udp", "other"}]
          \cup [ip : {ZeroIp}, proto : {"other"}]

\* A rule whose key is all zeros.
ZeroRule == [ip |-> ZeroIp, proto |-> "other"]

ASSUME DashboardAssumption ==
  /\ IsFiniteSet(Ip)
  /\ ZeroIp \notin Ip
  /\ First \subseteq Rule \ {ZeroRule}
  /\ {EventLimit, MaxActs, MaxChanges, MaxEvents} \subseteq Nat

VARIABLES
  rules,     \* keys of the map of rules
  stored,    \* the timestamps of the rows of security_events
  telling,   \* the monitor has stored an event and not broadcast it yet
  page,      \* the browser: where it is, the token, the lists it shows
  calls,     \* the calls in flight
  message,   \* the message that is broadcast and not yet seen by the page
  acts,      \* what the user has done
  changes,   \* rules changed by others
  fresh,     \* history: the lists that show the answer to the last call for
             \* them
  elsewhere, \* history: the rules changed without the page being told
  missed     \* history: an event was stored without the page being told

dashboardVars == <<rules, stored, telling, page, calls, message, acts, changes,
                   fresh, elsewhere, missed>>

Lists == {"rules", "events"}
Edits == {"add", "delete", "block", "block udp"}

\* n tells calls apart that are the same otherwise; latest is a history: no
\* later call has asked for the same list; gone says that the page that has
\* made the call is.
Call == [n : Nat \ {0}, kind : Lists \cup Edits, rule : Rule, token : Nat,
         at : {"sent", "answered"}, ok : BOOLEAN, rules : SUBSET Rule,
         events : SUBSET Nat, latest : BOOLEAN, gone : BOOLEAN]

LoginPage(token) == [at |-> "login", token |-> token, rules |-> {},
                     events |-> {}, connected |-> FALSE]

DashboardInit ==
  /\ rules = {}
  /\ stored = <<>>
  /\ telling = FALSE
  /\ page = LoginPage(0)
  /\ calls = {}
  /\ message = "none"
  /\ acts = 0
  /\ changes = 0
  /\ fresh = {}
  /\ elsewhere = FALSE
  /\ missed = FALSE

-----------------------------------------------------------------------------
(* Calls of the page *)

\* The calls with c as one more, told apart from those that are the same.
AddCall(some, c) ==
  LET n == CHOOSE n \in 1 .. Cardinality(some) + 1 :
             /\ [c EXCEPT !.n = n] \notin some
             /\ \A m \in 1 .. n - 1 : [c EXCEPT !.n = m] \in some
  IN  some \cup {[c EXCEPT !.n = n]}

\* The calls when one more is made, with the token that the browser keeps.
Calling(some, kind, rule) ==
  AddCall(some, [n |-> 1, kind |-> kind, rule |-> rule, token |-> page'.token,
                 at |-> "sent", ok |-> FALSE, rules |-> {}, events |-> {},
                 latest |-> kind \in Lists, gone |-> FALSE])

\* The same for a list: the call before it is not the latest any more.
CallingList(some, list) ==
  LET before == {c \in some : c.kind = list /\ c.latest}
      others == some \ before
  IN  Calling(IF before = {} THEN some
              ELSE AddCall(others, [(CHOOSE c \in before : TRUE)
                                      EXCEPT !.latest = FALSE]),
              list, ZeroRule)

\* The calls that the server may still get to when the page is left.
Abandoned == {[c EXCEPT !.gone = TRUE] :
                c \in {d \in calls : d.kind \in Edits /\ d.at = "sent"}}

\* The login page has got a token, and opens the page: the rules are asked for
\* by init and by the element that shows them, and so are the events, unless
\* the behaviour is not about them.
LogIn(lists) ==
  /\ page.at = "login"
  /\ OpenSession
  /\ page' = [LoginPage(Len(sessions')) EXCEPT !.at = "open"]
  /\ LET asked == CallingList(CallingList(calls, "rules"), "rules")
     IN  calls' = IF "events" \in lists THEN CallingList(asked, "events")
                  ELSE asked
  /\ fresh' = {}
  /\ UNCHANGED <<rules, stored, telling, message, acts, changes, elsewhere,
                 missed>>

\* What the user does with the page.
Act(kind, rule) ==
  /\ page.at = "open"
  /\ acts < MaxActs
  /\ acts' = acts + 1
  /\ UNCHANGED page
  /\ calls' = Calling(calls, kind, rule)
  /\ UNCHANGED <<rules, stored, telling, message, changes, fresh, elsewhere,
                 missed>>

\* The form knows the protocols by name.
AddRule == \E r \in Rule : r.proto # "other" /\ Act("add", r)

\* The identifier of a shown rule; a protocol without a name is taken for TCP.
Identifier(r) == IF r.proto = "other" THEN [r EXCEPT !.proto = "tcp"] ELSE r

DeleteRule == \E r \in page.rules : Act("delete", Identifier(r))

BlockIP == \E ip \in Ip : Act("block", [ip |-> ip, proto |-> "tcp"])

-----------------------------------------------------------------------------
(* The server *)

\* The walk begins behind the all-zero key, if there is one.
Listed(some) ==
  IF ZeroRule \in some THEN some \ (First \cup {ZeroRule}) ELSE some

\* What the query for events may answer: the newest, as many as were asked for.
\* Among rows of the same second SQL leaves the choice open.
Newest(dates) ==
  {some \in SUBSET DOMAIN dates :
     /\ Cardinality(some) = IF Len(dates) < EventLimit THEN Len(dates)
                            ELSE EventLimit
     /\ \A i \in some, j \in DOMAIN dates \ some : dates[j] <= dates[i]}

\* The rules when the call c has been handled, and whether it is granted: a
\* query and an update may fail, a deletion is not looked at.
Effect(c) ==
  IF ~ SessionValid(c.token) THEN {<<FALSE, rules>>}
  ELSE CASE c.kind = "rules"  -> {<<TRUE, rules>>}
         [] c.kind = "events" -> {<<TRUE, rules>>, <<FALSE, rules>>}
         [] c.kind = "delete" -> {<<TRUE, rules \ {c.rule}>>}
         [] OTHER             -> {<<TRUE, rules \cup {c.rule}>>,
                                  <<FALSE, rules>>}

\* The call c when it has been answered, with the events that were found.
AnswerTo(c, granted, found) ==
  [c EXCEPT !.at = "answered",
            !.ok = granted,
            !.rules = IF granted /\ c.kind = "rules" THEN Listed(rules) ELSE {},
            !.events = found]

\* The server handles the call c.
Handle(c) ==
  /\ c.at = "sent"
  /\ \E e \in Effect(c) :
       /\ rules' = e[2]
       /\ \E found \in
               IF e[1] /\ c.kind = "events" THEN Newest(stored) ELSE {{}} :
            calls' = IF c.gone THEN calls \ {c}
                     ELSE AddCall(calls \ {c}, AnswerTo(c, e[1], found))
       /\ elsewhere' =
            IF e[1] /\ c.kind = "rules" /\ c.latest THEN FALSE
            ELSE elsewhere \/ (c.gone /\ rules' # rules)
       /\ missed' = (missed /\ ~ (e[1] /\ c.kind = "events" /\ c.latest))
  /\ UNCHANGED <<stored, telling, page, message, acts, changes, fresh>>

\* Others change the rules.
Change(r) ==
  /\ changes < MaxChanges
  /\ changes' = changes + 1
  /\ rules' \in {rules \cup {r}, rules \ {r}} \ {rules}
  /\ elsewhere' = TRUE
  /\ UNCHANGED <<stored, telling, page, calls, message, acts, fresh, missed>>

-----------------------------------------------------------------------------
(* Answers *)

Answered(c, kind) == c.at = "answered" /\ c.kind = kind

\* The rules are shown.
ShowRules(c) ==
  /\ Answered(c, "rules")
  /\ c.ok
  /\ page' = [page EXCEPT !.rules = c.rules]
  /\ calls' = calls \ {c}
  /\ fresh' = IF c.latest THEN fresh \cup {"rules"} ELSE fresh \ {"rules"}
  /\ UNCHANGED <<rules, stored, telling, message, acts, changes, elsewhere,
                 missed>>

\* 401: the page is left for the login page, and its connection is closed.
Leave(c) ==
  /\ Answered(c, "rules")
  /\ ~ c.ok
  /\ page' = LoginPage(page.token)
  /\ calls' = Abandoned
  /\ message' = "none"
  /\ UNCHANGED <<rules, stored, telling, acts, changes, fresh, elsewhere,
                 missed>>

\* The events are shown; nothing looks at the status here, and an error shows
\* none.
ShowEvents(c) ==
  /\ Answered(c, "events")
  /\ page' = [page EXCEPT !.events = c.events]
  /\ calls' = calls \ {c}
  /\ fresh' = IF c.latest /\ c.ok THEN fresh \cup {"events"}
              ELSE fresh \ {"events"}
  /\ UNCHANGED <<rules, stored, telling, message, acts, changes, elsewhere,
                 missed>>

\* Mutation: the list is not asked for again.
EditedQuietly(c) ==
  /\ \/ Answered(c, "add")
     \/ Answered(c, "delete")
  /\ calls' = calls \ {c}
  /\ UNCHANGED <<rules, stored, telling, page, message, acts, changes, fresh,
                 elsewhere, missed>>

\* A rule was added or deleted: the list is asked for again, unless the server
\* has refused.
Edited(c) ==
  /\ \/ Answered(c, "add")
     \/ Answered(c, "delete")
  /\ UNCHANGED page
  /\ calls' = IF c.ok THEN CallingList(calls \ {c}, "rules") ELSE calls \ {c}
  /\ UNCHANGED <<rules, stored, telling, message, acts, changes, fresh,
                 elsewhere, missed>>

\* TCP is blocked, or the server has refused: UDP is next.
BlockedTcp(c) ==
  /\ Answered(c, "block")
  /\ UNCHANGED page
  /\ calls' = Calling(calls \ {c}, "block udp", [c.rule EXCEPT !.proto = "udp"])
  /\ UNCHANGED <<rules, stored, telling, message, acts, changes, fresh,
                 elsewhere, missed>>

\* UDP is, or the server has refused: the list is asked for.
BlockedUdp(c) ==
  /\ Answered(c, "block udp")
  /\ UNCHANGED page
  /\ calls' = CallingList(calls \ {c}, "rules")
  /\ UNCHANGED <<rules, stored, telling, message, acts, changes, fresh,
                 elsewhere, missed>>

Deliver(c) ==
  \/ ShowRules(c)
  \/ Leave(c)
  \/ ShowEvents(c)
  \/ Edited(c)
  \/ BlockedTcp(c)
  \/ BlockedUdp(c)

\* The call c or its answer is lost: fetch throws, and nothing more is asked.
Lose(c) ==
  /\ calls' = calls \ {c}
  /\ elsewhere' = (elsewhere \/ (~ c.gone /\ c.kind \in Edits
                                 /\ (c.ok \/ c.kind = "block udp")))
  /\ fresh' = IF c.latest THEN fresh \ {c.kind} ELSE fresh
  /\ UNCHANGED <<rules, stored, telling, page, message, acts, changes, missed>>

-----------------------------------------------------------------------------
(* Events and the WebSocket *)

\* The monitor stores an event, with the date, or with none if the line has no
\* time.
Store ==
  /\ ~ telling
  /\ Len(stored) < MaxEvents
  /\ \E date \in {now, 0} : stored' = Append(stored, date)
  /\ telling' = TRUE
  /\ UNCHANGED <<rules, page, calls, message, acts, changes, fresh, elsewhere,
                 missed>>

\* It broadcasts it then.
Tell ==
  /\ telling
  /\ telling' = FALSE
  /\ IF page.connected THEN message' = "event" /\ UNCHANGED missed
     ELSE missed' = TRUE /\ UNCHANGED message
  /\ UNCHANGED <<rules, stored, page, calls, acts, changes, fresh, elsewhere>>

Unseen == missed \/ message = "event"

\* The statistics thread broadcasts the traffic, over what was not yet seen.
TellTraffic ==
  /\ page.connected
  /\ message' = "traffic"
  /\ missed' = Unseen
  /\ UNCHANGED <<rules, stored, telling, page, calls, acts, changes, fresh,
                 elsewhere>>

\* Mutation: only the notification is shown.
SeeEventQuietly ==
  /\ message = "event"
  /\ message' = "none"
  /\ UNCHANGED <<rules, stored, telling, page, calls, acts, changes, fresh,
                 elsewhere, missed>>

\* The page receives the message about an event, and asks for the events.
SeeEvent ==
  /\ message = "event"
  /\ message' = "none"
  /\ UNCHANGED page
  /\ calls' = CallingList(calls, "events")
  /\ UNCHANGED <<rules, stored, telling, acts, changes, fresh, elsewhere,
                 missed>>

SeeTraffic ==
  /\ message = "traffic"
  /\ message' = "none"
  /\ UNCHANGED <<rules, stored, telling, page, calls, acts, changes, fresh,
                 elsewhere, missed>>

\* The page opens a WebSocket, the first time and 3 s after it was closed.
Connect ==
  /\ page.at = "open"
  /\ ~ page.connected
  /\ page' = [page EXCEPT !.connected = TRUE]
  /\ UNCHANGED <<rules, stored, telling, calls, message, acts, changes, fresh,
                 elsewhere, missed>>

\* Mutation: the message waits for the next connection.
CutPageOnly ==
  /\ page' = [page EXCEPT !.connected = FALSE]
  /\ UNCHANGED message

\* The connection is gone, and what was to be sent over it.
Cut ==
  /\ page' = [page EXCEPT !.connected = FALSE]
  /\ message' = "none"

Disconnect ==
  /\ page.connected
  /\ Cut
  /\ missed' = Unseen
  /\ UNCHANGED <<rules, stored, telling, calls, acts, changes, fresh,
                 elsewhere>>

\* The daemon is gone, and the map with it; the page and the events stay.
DaemonGone ==
  /\ Cut
  /\ rules' = {}
  /\ telling' = FALSE
  /\ elsewhere' = (elsewhere \/ rules # {})
  /\ missed' = (Unseen \/ telling)
  /\ UNCHANGED <<stored, calls, acts, changes, fresh>>

-----------------------------------------------------------------------------

DashboardTypeOK ==
  /\ rules \subseteq Rule
  /\ stored \in Seq(Nat) /\ Len(stored) <= MaxEvents
  /\ telling \in BOOLEAN
  /\ page \in [at : {"login", "open"}, token : 0 .. Len(sessions),
               rules : SUBSET Rule, events : SUBSET Nat, connected : BOOLEAN]
  /\ page.connected => page.at = "open"
  /\ page.at = "open" => page.token # 0
  /\ calls \subseteq Call
  /\ message \in {"none", "event", "traffic"}
  /\ message # "none" => page.connected
  /\ acts \in 0 .. MaxActs
  /\ changes \in 0 .. MaxChanges
  /\ fresh \subseteq Lists
  /\ elsewhere \in BOOLEAN
  /\ missed \in BOOLEAN

\* Nothing is under way between the server and the page.
AtRest == calls = {} /\ message # "event" /\ ~ telling

\* When nothing is under way, the page shows the rules that the server lists,
\* whatever calls were in flight together, were refused or failed; provided
\* that the answer to its last question arrived, and last, and that nobody
\* else has changed the rules (app.ts:166-176, 240-275, 277-333).
RulesShown ==
  page.at = "open" /\ AtRest /\ "rules" \in fresh /\ ~ elsewhere =>
    page.rules = Listed(rules)

\* And it shows the events that are stored, but for those that are no newer than
\* any of the EventLimit that it shows, although the answer and the message
\* about an event overtake each other; provided that no message was replaced by
\* the next, or was sent to nobody, and that the last query did not fail
\* (app.ts:127-135, 477-489; src/database.c:677; src/tetragon_events.c:205-264).
EventsShown ==
  page.at = "open" /\ AtRest /\ "events" \in fresh /\ ~ missed =>
    /\ page.events \subseteq DOMAIN stored
    /\ \A late \in DOMAIN stored \ page.events :
         /\ Cardinality(page.events) = EventLimit
         /\ \A i \in page.events : stored[late] <= stored[i]

=============================================================================
