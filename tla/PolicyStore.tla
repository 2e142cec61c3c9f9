---------------------------- MODULE PolicyStore ----------------------------
(***************************************************************************)
(* The policies of Tetragon (src/api/security.c:261-355) and its           *)
(* configuration (lines 436-481).  A policy is a file that is saved in one *)
(* directory, copied to another one when it is deployed, and read by       *)
(* Tetragon some time after it has been started.  The configuration goes   *)
(* the same way, from a temporary file.  Requests are handled one at a     *)
(* time; each step of one may fail, and the daemon may be killed between   *)
(* two steps.                                                              *)
(*                                                                         *)
(* The name of a policy is the rest of the URL as it came, and is put into *)
(* a path as it is (src/http_server.c:290): it may also lead from the      *)
(* directory of the files to that of the copies.                           *)
(*                                                                         *)
(* What is external: a file opened for writing is empty until it has been  *)
(* written; cp opens its target after it has found its source, and refuses *)
(* to copy a file to itself; that systemctl succeeds says that Tetragon    *)
(* was started, not that it has read its files or accepted them; systemd   *)
(* stops what the daemon has started together with the daemon; and nothing *)
(* is synced, so that no file need be what it was when power has failed.   *)
(***************************************************************************)
EXTENDS Integers

CONSTANTS
  Policy,  \* names of policies
  Config,  \* tetragon.yaml
  Content, \* what a request may save
  NoFile,  \* there is no file
  Torn,    \* a file written in part, or empty
  NoJob    \* no request is being handled

Item == Policy \cup {Config}
File == Content \cup {NoFile, Torn}

\* Where a name leads to: the files saved, or the copies.
Place == {"store", "deployed"}

\* A request being handled: what it asks, and its next step.
Jobs == [op : {"save", "deploy", "delete", "config"}, item : Item,
         place : Place, file : File,
         at : {"write", "copy", "fill", "unlink", "restart"}]

ASSUME PolicyStoreAssumption ==
  /\ Config \notin Policy
  /\ NoFile \notin Content \cup {Torn}
  /\ Torn \notin Content
  /\ NoJob \notin Jobs

VARIABLES
  store,    \* the files saved, and the temporary file of the configuration
  deployed, \* the files of /etc/tetragon
  enforced, \* what Tetragon has read and accepted since it was last started
  starting, \* Tetragon has been started and has not read its files yet
  job,      \* the request being handled: what it asks, and its next step
  answer,   \* the answer to the last request, if it was answered
  left      \* history: policies with a copy and no file when the machine came
            \* up, since their deletion was cut short, or since a name that
            \* leads to the copy was saved

policyVars == <<store, deployed, enforced, starting, job, answer, left>>

Answers == [op : {"none", "save", "deploy", "delete", "config"}, item : Item,
            ok : BOOLEAN]

NoAnswer == [op |-> "none", item |-> Config, ok |-> FALSE]
Nothing  == [i \in Item |-> NoFile]

Orphan(p) == store[p] = NoFile /\ deployed[p] # NoFile

\* The directories are as the installation or an earlier process left them, and
\* Tetragon starts with the machine.
PolicyInit ==
  /\ store \in [Item -> File]
  /\ deployed \in [Item -> File]
  /\ enforced = Nothing
  /\ starting = TRUE
  /\ job = NoJob
  /\ answer = NoAnswer
  /\ left = {p \in Policy : Orphan(p)}

-----------------------------------------------------------------------------

Start(op, item, place, file, at) ==
  /\ job' = [op |-> op, item |-> item, place |-> place, file |-> file,
             at |-> at]
  /\ answer' = NoAnswer

JobAt(label) == job # NoJob /\ job.at = label

Reply(op, item, ok) ==
  /\ job' = NoJob
  /\ answer' = [op |-> op, item |-> item, ok |-> ok]

\* The file that the name of a request leads to becomes the one given.
Put(place, item, file) ==
  IF place = "store"
  THEN store' = [store EXCEPT ![item] = file] /\ UNCHANGED deployed
  ELSE deployed' = [deployed EXCEPT ![item] = file] /\ UNCHANGED store

Exists(place, item) ==
  (IF place = "store" THEN store[item] ELSE deployed[item]) # NoFile

\* fopen with "w" leaves an empty file, or fails and changes nothing.
Save(op, item, place, content) ==
  /\ job = NoJob
  /\ \/ /\ Put(place, item, Torn)
        /\ Start(op, item, place, content, "write")
        /\ left' = IF place = "store" THEN left \ {item}
                   ELSE left \cup {p \in {item} : store[p] = NoFile}
     \/ /\ Reply(op, item, FALSE)
        /\ UNCHANGED <<store, deployed, left>>
  /\ UNCHANGED <<enforced, starting>>

\* The content is written and the file closed; whether that worked is not
\* looked at.  The configuration is then copied.
Write ==
  /\ JobAt("write")
  /\ \E file \in {job.file, Torn} : Put(job.place, job.item, file)
  /\ IF job.op = "config"
     THEN job' = [job EXCEPT !.at = "copy"] /\ UNCHANGED answer
     ELSE Reply("save", job.item, TRUE)
  /\ UNCHANGED <<enforced, starting, left>>

\* A request to deploy policy p.
Deploy(p, place) ==
  /\ job = NoJob
  /\ Start("deploy", p, place, NoFile, "copy")
  /\ UNCHANGED <<store, deployed, enforced, starting, left>>

\* Mutation: the target is opened first ("cat '%s' > '%s'").
CopyOverwrites ==
  /\ JobAt("copy")
  /\ deployed' = [deployed EXCEPT ![job.item] = Torn]
  /\ \/ /\ store[job.item] # NoFile
        /\ job' = [job EXCEPT !.at = "fill"]
        /\ UNCHANGED answer
     \/ Reply(job.op, job.item, FALSE)
  /\ UNCHANGED <<store, enforced, starting, left>>

\* cp: it opens a source that is not the target, and empties the target; or it
\* fails, and so does the command.
Copy ==
  /\ JobAt("copy")
  /\ \/ /\ job.place = "store" /\ store[job.item] # NoFile
        /\ deployed' = [deployed EXCEPT ![job.item] = Torn]
        /\ job' = [job EXCEPT !.at = "fill"]
        /\ UNCHANGED answer
     \/ /\ Reply(job.op, job.item, FALSE)
        /\ UNCHANGED deployed
  /\ UNCHANGED <<store, enforced, starting, left>>

\* It has written the target, or fails half-way.
Fill ==
  /\ JobAt("fill")
  /\ \/ /\ deployed' = [deployed EXCEPT ![job.item] = store[job.item]]
        /\ job' = [job EXCEPT !.at = "restart"]
        /\ UNCHANGED answer
     \/ /\ Reply(job.op, job.item, FALSE)
        /\ UNCHANGED deployed
  /\ UNCHANGED <<store, enforced, starting, left>>

\* A request to delete policy p: its file goes first.  Without one, or if that
\* fails, nothing else is tried.
Delete(p, place) ==
  /\ job = NoJob
  /\ \/ /\ Exists(place, p)
        /\ Put(place, p, NoFile)
        /\ Start("delete", p, place, NoFile, "unlink")
     \/ /\ Reply("delete", p, FALSE)
        /\ UNCHANGED <<store, deployed>>
  /\ UNCHANGED <<enforced, starting, left>>

\* The policy whose deletion stops here, if it has still a copy.
Unfinished == {p \in Policy : JobAt("unlink") /\ job.item = p /\ Orphan(p)}

\* Mutation: the deployed copy is forgotten.
UnlinkNothing ==
  /\ JobAt("unlink")
  /\ job' = [job EXCEPT !.at = "restart"]
  /\ UNCHANGED <<store, deployed, enforced, starting, answer, left>>

\* Its copy goes next; a failure is ignored.
Unlink ==
  /\ JobAt("unlink")
  /\ \/ /\ deployed' = [deployed EXCEPT ![job.item] = NoFile]
        /\ UNCHANGED left
     \/ /\ left' = left \cup Unfinished
        /\ UNCHANGED deployed
  /\ job' = [job EXCEPT !.at = "restart"]
  /\ UNCHANGED <<store, enforced, starting, answer>>

-----------------------------------------------------------------------------
(* Tetragon *)

Stopped(again) == enforced' = Nothing /\ starting' = again

\* Mutation: nothing looks at the result.
RestartUnchecked ==
  /\ JobAt("restart")
  /\ Stopped(TRUE) \/ UNCHANGED <<enforced, starting>>
  /\ Reply(job.op, job.item, TRUE)
  /\ UNCHANGED <<store, deployed, left>>

\* systemctl restart: Tetragon is stopped and started; or it is not, or not
\* started again, or not in time.  A deletion does not look at the result.
Restart ==
  /\ JobAt("restart")
  /\ \/ /\ Stopped(TRUE)
        /\ Reply(job.op, job.item, TRUE)
     \/ /\ \/ UNCHANGED <<enforced, starting>>
           \/ \E again \in BOOLEAN : Stopped(again)
        /\ Reply(job.op, job.item, job.op = "delete")
  /\ UNCHANGED <<store, deployed, left>>

\* Tetragon reads its files.  It may refuse some of them, or all and give up.
Read ==
  /\ starting
  /\ starting' = FALSE
  /\ \E accepted \in SUBSET Item :
       enforced' =
         [i \in Item |-> IF i \in accepted THEN deployed[i] ELSE NoFile]
  /\ UNCHANGED <<store, deployed, job, answer, left>>

\* It is started by someone else.
StartAnew ==
  /\ Stopped(TRUE)
  /\ UNCHANGED <<store, deployed, job, answer, left>>

-----------------------------------------------------------------------------
(* Crashes *)

\* The daemon is killed: the request is not answered, and what it has begun is
\* left half-way.  A restart that was asked for may still happen.
KillJob ==
  /\ job' = NoJob
  /\ left' = left \cup Unfinished
  /\ (JobAt("restart") /\ Stopped(TRUE)) \/ UNCHANGED <<enforced, starting>>
  /\ UNCHANGED <<store, deployed, answer>>

\* Power fails: files come back as they were at some time or in part, or not at
\* all, deleted ones too, and no answer holds for longer than that.
Reboot ==
  /\ store' \in [Item -> File]
  /\ deployed' \in [Item -> File]
  /\ Stopped(TRUE)
  /\ job' = NoJob
  /\ answer' = NoAnswer
  /\ left' = {p \in Policy : Orphan(p)'}

PolicyStep == Write \/ Copy \/ Fill \/ Unlink \/ Restart

PolicyRequest ==
  \/ \E content \in Content : Save("config", Config, "store", content)
  \/ \E p \in Policy, place \in Place :
       \/ \E content \in Content : Save("save", p, place, content)
       \/ Deploy(p, place)
       \/ Delete(p, place)

PolicyNext ==
  \/ PolicyRequest
  \/ PolicyStep
  \/ Read
  \/ StartAnew
  \/ KillJob
  \/ Reboot

-----------------------------------------------------------------------------

PolicyTypeOK ==
  /\ store \in [Item -> File]
  /\ deployed \in [Item -> File]
  /\ enforced \in [Item -> File]
  /\ starting \in BOOLEAN
  /\ job \in Jobs \cup {NoJob}
  /\ answer \in Answers
  /\ left \subseteq Policy

\* As long as the answer to the last request is that a policy was deployed or
\* the configuration saved, and power has not failed, the copy is what is
\* saved, whole or torn, and Tetragon enforces no other version of it, although
\* the copy and the restart may fail separately and be cut short.  It may have
\* refused this one, or not have read it yet (security.c:319-328, 470-480).
DeployedIsCurrent ==
  LET i == answer.item
  IN  answer.ok /\ answer.op \in {"deploy", "config"} =>
        /\ deployed[i] # NoFile
        /\ deployed[i] = store[i]
        /\ enforced[i] \in {NoFile, deployed[i]}

\* A policy has a deployed copy and no file, so that it may be enforced and is
\* not listed, only since power has failed, since its deletion was cut short,
\* because the second unlink failed or the process did not live to try it, or
\* since a request named the copy itself (security.c:289-291, 339-349).
NoOrphan ==
  \A p \in Policy : Orphan(p) => p \in left \/ (JobAt("unlink") /\ job.item = p)

\* The request being handled names the copy of p itself.
NamesCopy(p) == job # NoJob /\ job.item = p /\ job.place = "deployed"

=============================================================================
