---------------------------- MODULE ConsoleProofs ----------------------------
(***************************************************************************)
(* Proofs about what the daemon offers, for any policies, rules and        *)
(* contents.  First the policies: what the answer to a deployment says,    *)
(* when a policy is left behind without a file, and that it then stays.    *)
(* Then the dates of the keys.  Then the page: that it shows the rules,    *)
(* and the newest events, that the server has.                             *)
(***************************************************************************)
EXTENDS Console, FiniteSetTheorems, WellFoundedInduction, TLAPS

\* The steps of a request come in their order, and belong to a request that
\* has them; while it is handled, the last one is not answered.
JobOrder ==
  job # NoJob =>
    /\ answer = NoAnswer
    /\ job.op # "config" => job.item \in Policy
    /\ job.op = "config" => job.item = Config /\ job.place = "store"
    /\ job.at = "write" => /\ job.op \in {"save", "config"} /\ job.file \in Content
                           /\ Exists(job.place, job.item)
    /\ job.at \in {"copy", "fill"} => job.op \in {"deploy", "config"}
    /\ job.at = "fill" => store[job.item] # NoFile
    /\ job.at = "unlink" => job.op = "delete"
    /\ job.at = "restart" => job.op # "save"
    /\ job.at = "restart" /\ job.op # "delete" =>
         deployed[job.item] # NoFile /\ deployed[job.item] = store[job.item]

PolicyInv == PolicyTypeOK /\ JobOrder /\ DeployedIsCurrent /\ NoOrphan

Labels == {"write", "copy", "fill", "unlink", "restart"}

\* What the actions assign has the types.
LEMMA PolicyTypes ==
  /\ Torn \in File /\ NoFile \in File /\ Content \subseteq File
  /\ Config \in Item /\ Policy \subseteq Item
  /\ Nothing \in [Item -> File]
  /\ NoAnswer \in Answers /\ ~ NoAnswer.ok
  /\ \A op \in {"save", "deploy", "delete", "config"}, item \in Item :
       /\ \A place \in Place, file \in File, at \in Labels :
            [op |-> op, item |-> item, place |-> place, file |-> file, at |-> at]
              \in Jobs
       /\ \A ok \in BOOLEAN : [op |-> op, item |-> item, ok |-> ok] \in Answers
  BY DEF File, Item, Place, Nothing, NoAnswer, Answers, Jobs, Labels

LEMMA Distinct ==
  /\ NoJob \notin Jobs
  /\ Torn # NoFile /\ NoFile \notin Content
  /\ Config \notin Policy
  BY PolicyStoreAssumption

LEMMA JobTypes ==
  ASSUME job \in Jobs
  PROVE  /\ job # NoJob
         /\ job.op \in {"save", "deploy", "delete", "config"}
         /\ job.item \in Item /\ job.place \in Place /\ job.file \in File
         /\ \A at \in Labels :
              /\ [job EXCEPT !.at = at] \in Jobs
              /\ [job EXCEPT !.at = at].op = job.op
              /\ [job EXCEPT !.at = at].item = job.item
              /\ [job EXCEPT !.at = at].place = job.place
              /\ [job EXCEPT !.at = at].file = job.file
              /\ [job EXCEPT !.at = at].at = at
  BY Distinct DEF Jobs, Labels

\* What a request leaves behind when it starts, and when it is answered.
LEMMA Started ==
  ASSUME NEW op \in {"save", "deploy", "delete", "config"}, NEW item \in Item,
         NEW place \in Place, NEW file \in File, NEW at \in Labels,
         Start(op, item, place, file, at)
  PROVE  /\ job' \in Jobs /\ job' # NoJob
         /\ job'.op = op /\ job'.item = item /\ job'.place = place
         /\ job'.file = file /\ job'.at = at
         /\ answer' = NoAnswer
  BY PolicyTypes, Distinct DEF Start

LEMMA Replied ==
  ASSUME NEW op \in {"save", "deploy", "delete", "config"}, NEW item \in Item,
         NEW ok \in BOOLEAN, Reply(op, item, ok)
  PROVE  /\ job' = NoJob
         /\ answer' \in Answers
         /\ answer'.op = op /\ answer'.item = item /\ answer'.ok = ok
  BY PolicyTypes DEF Reply

\* Where a file is put, it is, and nothing else has changed.
LEMMA PutFile ==
  ASSUME PolicyTypeOK, NEW place \in Place, NEW item \in Item, NEW file \in File,
         Put(place, item, file)
  PROVE  /\ store' \in [Item -> File] /\ deployed' \in [Item -> File]
         /\ \A i \in Item \ {item} : store'[i] = store[i] /\ deployed'[i] = deployed[i]
         /\ place = "store" => store'[item] = file /\ deployed' = deployed
         /\ place = "deployed" => deployed'[item] = file /\ store' = store
  BY DEF Put, Place, PolicyTypeOK

LEMMA PolicyInitInv == PolicyInit => PolicyInv
  <1> SUFFICES ASSUME PolicyInit PROVE PolicyInv
    OBVIOUS
  <1> USE DEF PolicyInit
  <1>1. PolicyTypeOK
    BY PolicyTypes DEF PolicyTypeOK
  <1>2. JobOrder /\ DeployedIsCurrent /\ NoOrphan
    BY PolicyTypes DEF JobOrder, DeployedIsCurrent, NoOrphan
  <1> QED
    BY <1>1, <1>2 DEF PolicyInv

LEMMA SaveInv ==
  ASSUME PolicyInv, NEW op \in {"save", "config"}, NEW item \in Item,
         NEW place \in Place, NEW content \in Content,
         op = "save" => item \in Policy,
         op = "config" => item = Config /\ place = "store",
         Save(op, item, place, content)
  PROVE  PolicyInv'
  <1> USE DEF PolicyInv
  <1>1. content \in File /\ Torn \in File /\ Torn # NoFile
    BY PolicyTypes, Distinct
  <1>2. UNCHANGED <<enforced, starting>>
    BY DEF Save
  <1>3. CASE /\ Put(place, item, Torn)
             /\ Start(op, item, place, content, "write")
             /\ left' = IF place = "store" THEN left \ {item}
                        ELSE left \cup {p \in {item} : store[p] = NoFile}
    <2>1. /\ job' \in Jobs /\ job' # NoJob
          /\ job'.op = op /\ job'.item = item /\ job'.place = place
          /\ job'.file = content /\ job'.at = "write"
          /\ answer' = NoAnswer
      BY <1>1, <1>3, Started DEF Labels
    <2>2. /\ store' \in [Item -> File] /\ deployed' \in [Item -> File]
          /\ \A i \in Item \ {item} : store'[i] = store[i] /\ deployed'[i] = deployed[i]
          /\ place = "store" => store'[item] = Torn /\ deployed' = deployed
          /\ place = "deployed" => deployed'[item] = Torn /\ store' = store
      BY <1>1, <1>3, PutFile
    <2>3. PolicyTypeOK'
      BY <1>2, <1>3, <2>1, <2>2, PolicyTypes DEF PolicyTypeOK, Place
    <2>4. JobOrder'
      BY <1>1, <2>1, <2>2 DEF JobOrder, Exists, Place
    <2>5. DeployedIsCurrent'
      BY <2>1, PolicyTypes DEF DeployedIsCurrent
    <2>6. NoOrphan'
      <3>1. job = NoJob
        BY DEF Save
      <3>2. ASSUME NEW p \in Policy, Orphan(p)' PROVE p \in left'
        <4>1. CASE p = item
          BY <1>1, <1>3, <2>2, <3>2, <4>1 DEF Orphan, Place
        <4>2. CASE p # item
          BY <1>3, <2>2, <3>1, <3>2, <4>2, PolicyTypes DEF Orphan, NoOrphan, JobAt
        <4> QED
          BY <4>1, <4>2
      <3> QED
        BY <3>2 DEF NoOrphan
    <2> QED
      BY <2>3, <2>4, <2>5, <2>6
  <1>4. CASE Reply(op, item, FALSE) /\ UNCHANGED <<store, deployed, left>>
    <2>1. job' = NoJob /\ answer' \in Answers /\ ~ answer'.ok
      BY <1>4, Replied
    <2>2. job = NoJob
      BY DEF Save
    <2> QED
      BY <1>2, <1>4, <2>1, <2>2
         DEF PolicyTypeOK, JobOrder, DeployedIsCurrent, NoOrphan, Orphan, JobAt
  <1> QED
    BY <1>3, <1>4 DEF Save

LEMMA DeployInv ==
  ASSUME PolicyInv, NEW p \in Policy, NEW place \in Place, Deploy(p, place)
  PROVE  PolicyInv'
  <1> USE DEF PolicyInv
  <1>1. /\ job' \in Jobs /\ job' # NoJob
        /\ job'.op = "deploy" /\ job'.item = p /\ job'.at = "copy"
        /\ answer' = NoAnswer
    BY PolicyTypes, Started DEF Deploy, Labels
  <1>2. job = NoJob /\ UNCHANGED <<store, deployed, enforced, starting, left>>
    BY DEF Deploy
  <1> QED
    BY <1>1, <1>2, PolicyTypes
       DEF PolicyTypeOK, JobOrder, DeployedIsCurrent, NoOrphan, Orphan, JobAt

LEMMA DeleteInv ==
  ASSUME PolicyInv, NEW p \in Policy, NEW place \in Place, Delete(p, place)
  PROVE  PolicyInv'
  <1> USE DEF PolicyInv
  <1>1. job = NoJob /\ UNCHANGED <<enforced, starting, left>>
    BY DEF Delete
  <1>2. CASE Put(place, p, NoFile) /\ Start("delete", p, place, NoFile, "unlink")
    <2>1. /\ job' \in Jobs /\ job' # NoJob
          /\ job'.op = "delete" /\ job'.item = p /\ job'.at = "unlink"
          /\ answer' = NoAnswer
      BY <1>2, PolicyTypes, Started DEF Labels
    <2>2. /\ store' \in [Item -> File] /\ deployed' \in [Item -> File]
          /\ \A i \in Item \ {p} : store'[i] = store[i] /\ deployed'[i] = deployed[i]
      BY <1>2, PolicyTypes, PutFile
    <2>3. PolicyTypeOK'
      BY <1>1, <2>1, <2>2, PolicyTypes DEF PolicyTypeOK
    <2>4. JobOrder' /\ DeployedIsCurrent'
      BY <2>1, PolicyTypes DEF JobOrder, DeployedIsCurrent
    <2>5. NoOrphan'
      <3>1. \A q \in Policy \ {p} : Orphan(q)' => Orphan(q)
        BY <2>2, PolicyTypes DEF Orphan
      <3> QED
        BY <1>1, <2>1, <3>1 DEF NoOrphan, JobAt
    <2> QED
      BY <2>3, <2>4, <2>5
  <1>3. CASE Reply("delete", p, FALSE) /\ UNCHANGED <<store, deployed>>
    <2>1. job' = NoJob /\ answer' \in Answers /\ ~ answer'.ok
      BY <1>3, PolicyTypes, Replied
    <2> QED
      BY <1>1, <1>3, <2>1
         DEF PolicyTypeOK, JobOrder, DeployedIsCurrent, NoOrphan, Orphan, JobAt
  <1> QED
    BY <1>2, <1>3 DEF Delete

LEMMA WriteInv ==
  ASSUME PolicyInv, Write
  PROVE  PolicyInv'
  <1> USE DEF PolicyInv
  <1>0. job \in Jobs /\ job.at = "write"
    BY DEF Write, PolicyTypeOK, JobAt
  <1>1. /\ job # NoJob /\ job.op \in {"save", "config"}
        /\ job.op # "config" => job.item \in Policy
        /\ job.op = "config" => job.item = Config /\ job.place = "store"
        /\ answer = NoAnswer
        /\ job.item \in Item /\ job.place \in Place
        /\ job.file \in File \ {NoFile} /\ Exists(job.place, job.item)
    BY <1>0, JobTypes, PolicyTypes, Distinct DEF JobOrder
  <1>2. UNCHANGED <<enforced, starting, left>>
    BY DEF Write
  <1>3. PICK file \in {job.file, Torn} : Put(job.place, job.item, file)
    BY DEF Write
  <1>4. file \in File /\ file # NoFile
    BY <1>1, PolicyTypes, Distinct
  <1>5. /\ store' \in [Item -> File] /\ deployed' \in [Item -> File]
        /\ \A i \in Item \ {job.item} :
             store'[i] = store[i] /\ deployed'[i] = deployed[i]
        /\ job.place = "store" => store'[job.item] = file /\ deployed' = deployed
        /\ job.place = "deployed" => deployed'[job.item] = file /\ store' = store
    BY <1>1, <1>3, <1>4, PutFile
  <1>6. \A p \in Policy : Orphan(p)' => Orphan(p)
    BY <1>1, <1>4, <1>5, PolicyTypes DEF Orphan, Exists, Place
  <1>7. CASE job.op = "config"
    <2>1. job' = [job EXCEPT !.at = "copy"] /\ answer' = answer
      BY <1>7 DEF Write
    <2>2. /\ job' \in Jobs /\ job' # NoJob /\ job'.op = job.op /\ job'.at = "copy"
          /\ job'.item = job.item /\ job'.place = job.place
      BY <1>0, <2>1, JobTypes, Distinct DEF Labels
    <2>3. PolicyTypeOK'
      BY <1>2, <1>5, <2>1, <2>2 DEF PolicyTypeOK
    <2>4. JobOrder' /\ DeployedIsCurrent'
      BY <1>1, <1>7, <2>1, <2>2, PolicyTypes DEF JobOrder, DeployedIsCurrent
    <2>5. NoOrphan'
      BY <1>0, <1>2, <1>6 DEF NoOrphan, JobAt
    <2> QED
      BY <2>3, <2>4, <2>5
  <1>8. CASE job.op # "config"
    <2>1. Reply("save", job.item, TRUE)
      BY <1>8 DEF Write
    <2>2. job' = NoJob /\ answer' \in Answers /\ answer'.op = "save"
      BY <1>1, <2>1, Replied
    <2>3. PolicyTypeOK'
      BY <1>2, <1>5, <2>2 DEF PolicyTypeOK
    <2>4. JobOrder' /\ DeployedIsCurrent'
      BY <2>2 DEF JobOrder, DeployedIsCurrent
    <2>5. NoOrphan'
      BY <1>0, <1>2, <1>6 DEF NoOrphan, JobAt
    <2> QED
      BY <2>3, <2>4, <2>5
  <1> QED
    BY <1>7, <1>8

LEMMA CopyInv ==
  ASSUME PolicyInv, Copy
  PROVE  PolicyInv'
  <1> USE DEF PolicyInv
  <1>0. /\ job \in Jobs /\ job # NoJob /\ job.at = "copy"
        /\ job.op \in {"deploy", "config"} /\ job.item \in Item
        /\ job.op # "config" => job.item \in Policy
        /\ job.op = "config" => job.item = Config /\ job.place = "store"
        /\ answer = NoAnswer
    BY JobTypes DEF Copy, PolicyTypeOK, JobAt, JobOrder
  <1>1. UNCHANGED <<store, enforced, starting, left>>
    BY DEF Copy
  <1>2. CASE /\ store[job.item] # NoFile
             /\ deployed' = [deployed EXCEPT ![job.item] = Torn]
             /\ job' = [job EXCEPT !.at = "fill"]
             /\ UNCHANGED answer
    <2>1. /\ job' \in Jobs /\ job' # NoJob /\ job'.op = job.op /\ job'.at = "fill"
          /\ job'.item = job.item /\ job'.place = job.place
      BY <1>0, <1>2, JobTypes, Distinct DEF Labels
    <2>2. PolicyTypeOK'
      BY <1>0, <1>1, <1>2, <2>1, PolicyTypes DEF PolicyTypeOK
    <2>3. JobOrder' /\ DeployedIsCurrent'
      BY <1>0, <1>1, <1>2, <2>1, PolicyTypes DEF JobOrder, DeployedIsCurrent
    <2>4. \A p \in Policy : Orphan(p)' => Orphan(p)
      BY <1>1, <1>2, PolicyTypes DEF Orphan, PolicyTypeOK
    <2>5. NoOrphan'
      BY <1>0, <1>1, <2>4 DEF NoOrphan, JobAt
    <2> QED
      BY <2>2, <2>3, <2>5
  <1>3. CASE Reply(job.op, job.item, FALSE) /\ UNCHANGED deployed
    <2>1. job' = NoJob /\ answer' \in Answers /\ ~ answer'.ok
      BY <1>0, <1>3, Replied
    <2> QED
      BY <1>0, <1>1, <1>3, <2>1
         DEF PolicyTypeOK, JobOrder, DeployedIsCurrent, NoOrphan, Orphan, JobAt
  <1> QED
    BY <1>2, <1>3 DEF Copy

LEMMA FillInv ==
  ASSUME PolicyInv, Fill
  PROVE  PolicyInv'
  <1> USE DEF PolicyInv
  <1>0. /\ job \in Jobs /\ job # NoJob /\ job.at = "fill"
        /\ job.op \in {"deploy", "config"} /\ job.item \in Item
        /\ job.op # "config" => job.item \in Policy
        /\ job.op = "config" => job.item = Config /\ job.place = "store"
        /\ answer = NoAnswer
        /\ store[job.item] # NoFile
    BY JobTypes DEF Fill, PolicyTypeOK, JobAt, JobOrder
  <1>1. UNCHANGED <<store, enforced, starting, left>>
    BY DEF Fill
  <1>2. CASE /\ deployed' = [deployed EXCEPT ![job.item] = store[job.item]]
             /\ job' = [job EXCEPT !.at = "restart"]
             /\ UNCHANGED answer
    <2>1. /\ job' \in Jobs /\ job' # NoJob /\ job'.op = job.op /\ job'.at = "restart"
          /\ job'.item = job.item /\ job'.place = job.place
      BY <1>0, <1>2, JobTypes, Distinct DEF Labels
    <2>2. store[job.item] \in File
      BY <1>0 DEF PolicyTypeOK
    <2>3. /\ deployed' \in [Item -> File]
          /\ deployed'[job.item] = store[job.item]
          /\ \A i \in Item \ {job.item} : deployed'[i] = deployed[i]
      BY <1>0, <1>2, <2>2 DEF PolicyTypeOK
    <2>4. PolicyTypeOK'
      BY <1>1, <1>2, <2>1, <2>3 DEF PolicyTypeOK
    <2>5. JobOrder' /\ DeployedIsCurrent'
      BY <1>0, <1>1, <1>2, <2>1, <2>3, PolicyTypes DEF JobOrder, DeployedIsCurrent
    <2>6. \A p \in Policy : Orphan(p)' => Orphan(p)
      BY <1>0, <1>1, <2>3, PolicyTypes DEF Orphan
    <2>7. NoOrphan'
      BY <1>0, <1>1, <2>6 DEF NoOrphan, JobAt
    <2> QED
      BY <2>4, <2>5, <2>7
  <1>3. CASE Reply(job.op, job.item, FALSE) /\ UNCHANGED deployed
    <2>1. job' = NoJob /\ answer' \in Answers /\ ~ answer'.ok
      BY <1>0, <1>3, Replied
    <2> QED
      BY <1>0, <1>1, <1>3, <2>1
         DEF PolicyTypeOK, JobOrder, DeployedIsCurrent, NoOrphan, Orphan, JobAt
  <1> QED
    BY <1>2, <1>3 DEF Fill

LEMMA UnlinkInv ==
  ASSUME PolicyInv, Unlink
  PROVE  PolicyInv'
  <1> USE DEF PolicyInv
  <1>0. /\ job \in Jobs /\ job # NoJob /\ job.at = "unlink"
        /\ job.op = "delete" /\ job.item \in Policy
        /\ answer = NoAnswer
    BY JobTypes DEF Unlink, PolicyTypeOK, JobAt, JobOrder
  <1>1. UNCHANGED <<store, enforced, starting, answer>>
    BY DEF Unlink
  <1>2. /\ job' \in Jobs /\ job' # NoJob /\ job'.op = "delete" /\ job'.at = "restart"
        /\ job'.item = job.item
    BY <1>0, JobTypes, Distinct DEF Unlink, Labels
  <1>3. /\ deployed' \in [Item -> File] /\ left' \subseteq Policy
        /\ \A p \in Policy : Orphan(p)' => p \in left'
    <2>1. CASE deployed' = [deployed EXCEPT ![job.item] = NoFile] /\ UNCHANGED left
      <3>1. /\ deployed' \in [Item -> File] /\ deployed'[job.item] = NoFile
            /\ \A i \in Item \ {job.item} : deployed'[i] = deployed[i]
        BY <1>0, <2>1, PolicyTypes DEF PolicyTypeOK
      <3>2. ASSUME NEW p \in Policy, Orphan(p)' PROVE p \in left
        <4>1. p # job.item /\ Orphan(p)
          BY <1>1, <3>1, <3>2, PolicyTypes DEF Orphan
        <4> QED
          BY <4>1 DEF NoOrphan
      <3> QED
        BY <2>1, <3>1, <3>2 DEF PolicyTypeOK
    <2>2. CASE left' = left \cup Unfinished /\ UNCHANGED deployed
      <3>1. Unfinished = {p \in Policy : job.item = p /\ Orphan(p)}
        BY <1>0 DEF Unfinished, JobAt
      <3>2. ASSUME NEW p \in Policy, Orphan(p)' PROVE p \in left \/ p \in Unfinished
        <4>1. Orphan(p)
          BY <1>1, <2>2, <3>2 DEF Orphan
        <4> QED
          BY <3>1, <4>1 DEF NoOrphan
      <3> QED
        BY <2>2, <3>1, <3>2 DEF PolicyTypeOK
    <2> QED
      BY <2>1, <2>2 DEF Unlink
  <1>4. PolicyTypeOK'
    BY <1>1, <1>2, <1>3 DEF PolicyTypeOK
  <1>5. JobOrder' /\ DeployedIsCurrent'
    BY <1>0, <1>1, <1>2, PolicyTypes DEF JobOrder, DeployedIsCurrent
  <1>6. NoOrphan'
    BY <1>3 DEF NoOrphan, JobAt
  <1> QED
    BY <1>4, <1>5, <1>6

LEMMA RestartInv ==
  ASSUME PolicyInv, Restart
  PROVE  PolicyInv'
  <1> USE DEF PolicyInv
  <1>0. /\ job \in Jobs /\ job # NoJob /\ job.at = "restart"
        /\ job.op \in {"save", "deploy", "delete", "config"} /\ job.item \in Item
        /\ job.op # "save"
        /\ job.op # "delete" =>
             deployed[job.item] # NoFile /\ deployed[job.item] = store[job.item]
    BY JobTypes DEF Restart, PolicyTypeOK, JobAt, JobOrder
  <1>1. UNCHANGED <<store, deployed, left>>
    BY DEF Restart
  <1>2. PICK ok \in BOOLEAN :
          /\ Reply(job.op, job.item, ok)
          /\ ok => job.op = "delete" \/ enforced' = Nothing
          /\ enforced' \in {enforced, Nothing} /\ starting' \in BOOLEAN
    <2>1. CASE Stopped(TRUE) /\ Reply(job.op, job.item, TRUE)
      BY <2>1 DEF Stopped
    <2>2. CASE /\ UNCHANGED <<enforced, starting>> \/ \E again \in BOOLEAN : Stopped(again)
               /\ Reply(job.op, job.item, job.op = "delete")
      <3>1. (job.op = "delete") \in BOOLEAN
        OBVIOUS
      <3>2. enforced' \in {enforced, Nothing} /\ starting' \in BOOLEAN
        BY <2>2 DEF Stopped, PolicyTypeOK
      <3> QED
        BY <2>2, <3>1, <3>2
    <2> QED
      BY <2>1, <2>2 DEF Restart
  <1>3. /\ job' = NoJob /\ answer' \in Answers
        /\ answer'.op = job.op /\ answer'.item = job.item /\ answer'.ok = ok
    BY <1>0, <1>2, Replied
  <1>4. PolicyTypeOK'
    BY <1>1, <1>2, <1>3, PolicyTypes DEF PolicyTypeOK
  <1>5. JobOrder'
    BY <1>3 DEF JobOrder
  <1>6. DeployedIsCurrent'
    BY <1>0, <1>1, <1>2, <1>3 DEF DeployedIsCurrent, Nothing
  <1>7. NoOrphan'
    BY <1>0, <1>1 DEF NoOrphan, Orphan, JobAt
  <1> QED
    BY <1>4, <1>5, <1>6, <1>7

\* Tetragon reads its files, or is started by someone else.
LEMMA TetragonInv ==
  ASSUME PolicyInv, Read \/ StartAnew
  PROVE  PolicyInv'
  <1> USE DEF PolicyInv
  <1>1. UNCHANGED <<store, deployed, job, answer, left>>
    BY DEF Read, StartAnew
  <1>2. /\ enforced' \in [Item -> File] /\ starting' \in BOOLEAN
        /\ \A i \in Item : enforced'[i] \in {NoFile, deployed[i]}
    <2>1. CASE Read
      <3>1. PICK accepted \in SUBSET Item :
              enforced' = [i \in Item |-> IF i \in accepted THEN deployed[i] ELSE NoFile]
        BY <2>1 DEF Read
      <3> QED
        BY <2>1, <3>1, PolicyTypes DEF Read, PolicyTypeOK
    <2>2. CASE StartAnew
      BY <2>2, PolicyTypes DEF StartAnew, Stopped, Nothing
    <2> QED
      BY <2>1, <2>2
  <1>3. PolicyTypeOK'
    BY <1>1, <1>2 DEF PolicyTypeOK
  <1>4. answer.item \in Item
    BY DEF PolicyTypeOK, Answers
  <1> QED
    BY <1>1, <1>2, <1>3, <1>4
       DEF JobOrder, Exists, DeployedIsCurrent, NoOrphan, Orphan, JobAt

LEMMA EndInv ==
  ASSUME PolicyInv, KillJob \/ Reboot
  PROVE  PolicyInv'
  <1> USE DEF PolicyInv
  <1>1. CASE KillJob
    <2>1. /\ job' = NoJob /\ UNCHANGED <<store, deployed, answer>>
          /\ left' = left \cup Unfinished
          /\ enforced' \in {enforced, Nothing} /\ starting' \in BOOLEAN
      BY <1>1 DEF KillJob, Stopped, PolicyTypeOK
    <2>2. PolicyTypeOK'
      BY <2>1, PolicyTypes DEF PolicyTypeOK, Unfinished
    <2>3. JobOrder'
      BY <2>1 DEF JobOrder
    <2>4. DeployedIsCurrent'
      <3>1. answer.item \in Item
        BY DEF PolicyTypeOK, Answers
      <3> QED
        BY <2>1, <3>1 DEF DeployedIsCurrent, Nothing
    <2>5. NoOrphan'
      BY <2>1 DEF NoOrphan, Orphan, Unfinished
    <2> QED
      BY <2>2, <2>3, <2>4, <2>5
  <1>2. CASE Reboot
    <2>1. /\ store' \in [Item -> File] /\ deployed' \in [Item -> File]
          /\ enforced' = Nothing /\ starting' = TRUE
          /\ job' = NoJob /\ answer' = NoAnswer
          /\ left' = {p \in Policy : Orphan(p)'}
      BY <1>2 DEF Reboot, Stopped
    <2>2. PolicyTypeOK'
      BY <2>1, PolicyTypes DEF PolicyTypeOK
    <2>3. JobOrder' /\ DeployedIsCurrent'
      BY <2>1, PolicyTypes DEF JobOrder, DeployedIsCurrent
    <2>4. NoOrphan'
      BY <2>1 DEF NoOrphan, Orphan
    <2> QED
      BY <2>2, <2>3, <2>4
  <1> QED
    BY <1>1, <1>2

LEMMA PolicyStepInv == PolicyInv /\ [PolicyNext]_policyVars => PolicyInv'
  <1> SUFFICES ASSUME PolicyInv, [PolicyNext]_policyVars PROVE PolicyInv'
    OBVIOUS
  <1>1. CASE PolicyRequest
    <2>1. CASE \E content \in Content : Save("config", Config, "store", content)
      BY <2>1, SaveInv, PolicyTypes DEF Place
    <2>2. CASE \E p \in Policy, place \in Place :
                 \E content \in Content : Save("save", p, place, content)
      BY <2>2, SaveInv, PolicyTypes
    <2>3. CASE \E p \in Policy, place \in Place : Deploy(p, place) \/ Delete(p, place)
      BY <2>3, DeployInv, DeleteInv
    <2> QED
      BY <1>1, <2>1, <2>2, <2>3 DEF PolicyRequest
  <1>2. CASE PolicyStep
    BY <1>2, WriteInv, CopyInv, FillInv, UnlinkInv, RestartInv DEF PolicyStep
  <1>3. CASE Read \/ StartAnew \/ KillJob \/ Reboot
    BY <1>3, TetragonInv, EndInv
  <1>4. CASE UNCHANGED policyVars
    BY <1>4 DEF policyVars, PolicyInv, PolicyTypeOK, JobOrder, Exists,
                DeployedIsCurrent, NoOrphan, Orphan, JobAt
  <1> QED
    BY <1>1, <1>2, <1>3, <1>4 DEF PolicyNext

\* No step but a power cut removes or replaces the copy of a policy that has no
\* file, unless its deletion is under way or it is named itself.
LEMMA OrphanStep ==
  ASSUME PolicyInv, NEW p \in Policy, Orphan(p),
         ~ (JobAt("unlink") /\ job.item = p), ~ NamesCopy(p), ~ NamesCopy(p)',
         \/ PolicyRequest \/ PolicyStep \/ Read \/ StartAnew \/ KillJob
         \/ UNCHANGED policyVars
  PROVE  deployed'[p] = deployed[p]
  <1> USE DEF PolicyInv
  <1>0. p \in Item /\ store[p] = NoFile
    BY PolicyTypes DEF Orphan
  <1>1. CASE \E op \in {"save", "config"}, item \in Item, place \in Place,
                content \in Content :
               Save(op, item, place, content)
    <2>1. PICK op \in {"save", "config"}, item \in Item, place \in Place,
               content \in Content :
                 Save(op, item, place, content)
      BY <1>1
    <2>2. CASE Put(place, item, Torn) /\ Start(op, item, place, content, "write")
      <3>1. content \in File /\ Torn \in File
        BY PolicyTypes
      <3>2. /\ \A i \in Item \ {item} : deployed'[i] = deployed[i]
            /\ place = "store" => deployed' = deployed
        BY <2>2, <3>1, PutFile
      <3>3. job' # NoJob /\ job'.item = item /\ job'.place = place
        BY <2>2, <3>1, Started DEF Labels
      <3> QED
        BY <1>0, <3>2, <3>3 DEF NamesCopy, Place
    <2>3. CASE UNCHANGED deployed
      BY <2>3
    <2> QED
      BY <2>1, <2>2, <2>3 DEF Save
  <1>2. CASE \E q \in Policy, place \in Place : Delete(q, place)
    <2>1. PICK q \in Policy, place \in Place : Delete(q, place)
      BY <1>2
    <2>2. CASE Put(place, q, NoFile) /\ Start("delete", q, place, NoFile, "unlink")
      <3>1. q \in Item /\ NoFile \in File
        BY PolicyTypes
      <3>2. /\ \A i \in Item \ {q} : deployed'[i] = deployed[i]
            /\ place = "store" => deployed' = deployed
        BY <2>2, <3>1, PutFile
      <3>3. job' # NoJob /\ job'.item = q /\ job'.place = place
        BY <2>2, <3>1, Started DEF Labels
      <3> QED
        BY <1>0, <3>2, <3>3 DEF NamesCopy, Place
    <2>3. CASE UNCHANGED deployed
      BY <2>3
    <2> QED
      BY <2>1, <2>2, <2>3 DEF Delete
  <1>3. CASE PolicyRequest
    <2>1. CASE \E content \in Content : Save("config", Config, "store", content)
      BY <1>1, <2>1, PolicyTypes DEF Place
    <2>2. CASE \E q \in Policy, place \in Place :
                 \E content \in Content : Save("save", q, place, content)
      BY <1>1, <2>2, PolicyTypes
    <2>3. CASE \E q \in Policy, place \in Place : Deploy(q, place)
      BY <2>3 DEF Deploy
    <2> QED
      BY <1>2, <1>3, <2>1, <2>2, <2>3 DEF PolicyRequest
  <1>4. CASE Write
    <2>1. /\ job \in Jobs /\ job # NoJob /\ job.item \in Item /\ job.place \in Place
          /\ job.file \in File /\ Torn \in File
      BY <1>4, JobTypes, PolicyTypes DEF Write, PolicyTypeOK, JobAt
    <2>2. PICK file \in {job.file, Torn} : Put(job.place, job.item, file)
      BY <1>4 DEF Write
    <2>3. /\ \A i \in Item \ {job.item} : deployed'[i] = deployed[i]
          /\ job.place = "store" => deployed' = deployed
      BY <2>1, <2>2, PutFile
    <2> QED
      BY <1>0, <2>1, <2>3 DEF NamesCopy, Place
  <1>5. CASE Copy
    BY <1>0, <1>5 DEF Copy, PolicyTypeOK
  <1>6. CASE Fill
    <2>1. store[job.item] # NoFile
      BY <1>6 DEF Fill, JobAt, JobOrder
    <2> QED
      BY <1>0, <1>6, <2>1 DEF Fill, PolicyTypeOK
  <1>7. CASE Unlink
    BY <1>0, <1>7 DEF Unlink, PolicyTypeOK
  <1>8. CASE Restart \/ Read \/ StartAnew \/ KillJob \/ UNCHANGED policyVars
    BY <1>8 DEF Restart, Read, StartAnew, KillJob, policyVars
  <1> QED
    BY <1>3, <1>4, <1>5, <1>6, <1>7, <1>8 DEF PolicyStep

-----------------------------------------------------------------------------

\* A step of the Console is one of the policies, or leaves them alone; and the
\* power only fails with the daemon.
LEMMA StepOfPolicies ==
  [Next]_vars => /\ [PolicyNext]_policyVars
                 /\ up' => \/ PolicyRequest \/ PolicyStep \/ Read \/ StartAnew
                           \/ UNCHANGED policyVars
  <1> SUFFICES ASSUME [Next]_vars
               PROVE  /\ [PolicyNext]_policyVars
                      /\ up' => \/ PolicyRequest \/ PolicyStep \/ Read \/ StartAnew
                                \/ UNCHANGED policyVars
    OBVIOUS
  <1>1. CASE \/ Browse \/ Edit \/ Watch \/ Serve \/ Answer \/ Broadcast \/ See
             \/ Manage \/ Pass \/ Launch
    BY <1>1 DEF Browse, Edit, Watch, Serve, Answer, Broadcast, See, Manage, Pass,
                Launch
  <1>2. CASE Operate \/ Proceed
    BY <1>2 DEF Operate, Proceed, PolicyNext
  <1>3. CASE Kill \/ PowerCut
    BY <1>3 DEF Kill, PowerCut, Down, PolicyNext
  <1>4. CASE UNCHANGED vars
    BY <1>4 DEF vars
  <1> QED
    BY <1>1, <1>2, <1>3, <1>4 DEF Next

LEMMA PolicyInvAlways == Spec => []PolicyInv
  <1>1. Init => PolicyInv
    BY PolicyInitInv DEF Init
  <1>2. PolicyInv /\ [Next]_vars => PolicyInv'
    BY StepOfPolicies, PolicyStepInv
  <1> QED
    BY <1>1, <1>2, PTL DEF Spec

\* As long as the last answer is that a policy was deployed or the
\* configuration saved, and power has not failed, the copy is what is saved,
\* and Tetragon enforces no other version of it (security.c:319-328, 470-480).
THEOREM DeployedIsCurrentAlways == Spec => []DeployedIsCurrent
  <1>1. PolicyInv => DeployedIsCurrent
    BY DEF PolicyInv
  <1> QED
    BY <1>1, PolicyInvAlways, PTL

\* A policy keeps a deployed copy without a file only since power has failed, a
\* deletion was cut short, or a request named the copy (security.c:289-291,
\* 339-349).
THEOREM NoOrphanAlways == Spec => []NoOrphan
  <1>1. PolicyInv => NoOrphan
    BY DEF PolicyInv
  <1> QED
    BY <1>1, PolicyInvAlways, PTL

\* And as long as the daemon runs, no request but a deletion under way or one
\* that names the copy removes or replaces it (security.c:319, 339, 352).
THEOREM OrphansStayAlways == Spec => OrphansStay
  <1> DEFINE Stays == \A p \in Policy :
                        /\ up' /\ Orphan(p) /\ ~ (JobAt("unlink") /\ job.item = p)
                        /\ ~ NamesCopy(p) /\ ~ NamesCopy(p)'
                        => deployed'[p] = deployed[p]
  <1>1. PolicyInv /\ [Next]_vars => [Stays]_vars
    BY StepOfPolicies, OrphanStep
  <1> HIDE DEF Stays
  <1>2. Spec => [][Stays]_vars
    BY <1>1, PolicyInvAlways, PTL DEF Spec
  <1> QED
    BY <1>2 DEF OrphansStay, Stays

-----------------------------------------------------------------------------

\* The keys have the dates that they were asked for, unless the product of the
\* days does not fit.
KeyDates ==
  /\ now \in Nat \ {0}
  /\ \A k \in keys :
       /\ k.days \in Days
       /\ k.created \in Nat \ {0}
       /\ k.days * Day <= IntMax =>
            k.expires = IF k.days > 0 THEN k.created + k.days * Day ELSE Never

LEMMA Fits ==
  ASSUME NEW n \in 0 .. IntMax
  PROVE  AsInt(n) = n
  <1>1. IntMax \in Nat
    BY AccountsAssumption
  <1> DEFINE m == 2 * (IntMax + 1)
             x == n + IntMax + 1
  <1>2. m \in Nat \ {0} /\ x \in 0 .. m - 1
    BY <1>1
  <1>3. x % m = x
    BY <1>2
  <1> QED
    BY <1>1, <1>3 DEF AsInt

LEMMA PositiveProduct ==
  ASSUME NEW d \in Days, d > 0
  PROVE  d * Day \in Nat \ {0}
  <1>1. d \in Nat \ {0} /\ Day \in Nat \ {0}
    BY AccountsAssumption
  <1> QED
    BY <1>1

LEMMA ExpiryFits ==
  ASSUME NEW d \in Days, d * Day <= IntMax, now \in Nat \ {0}
  PROVE  Expiry(d) = IF d > 0 THEN now + d * Day ELSE Never
  <1>1. CASE d > 0
    <2>1. d * Day \in 0 .. IntMax
      BY <1>1, PositiveProduct, AccountsAssumption
    <2>2. AsInt(d * Day) = d * Day
      BY <2>1, Fits
    <2> HIDE DEF AsInt
    <2> QED
      BY <1>1, <2>1, <2>2 DEF Expiry, Never
  <1>2. CASE ~ (d > 0)
    BY <1>2 DEF Expiry, Never
  <1> QED
    BY <1>1, <1>2

LEMMA KeyDatesStep == KeyDates /\ [Next]_vars => KeyDates'
  <1> SUFFICES ASSUME KeyDates, [Next]_vars PROVE KeyDates'
    OBVIOUS
  <1>1. CASE Manage /\ CreateKey
    <2>1. now' = now
      BY <1>1 DEF Manage
    <2> DEFINE new(d) == [id      |-> lastId',
                          value   |-> generated',
                          expires |-> Expiry(d),
                          created |-> now,
                          days    |-> d]
    <2>2. PICK d \in Days : keys' \in {keys \cup {new(d)}, keys}
      BY <1>1 DEF CreateKey
    <2>3. new(d).days = d /\ new(d).created = now /\ new(d).expires = Expiry(d)
      BY Zenon
    <2> HIDE DEF new
    <2> QED
      BY <2>1, <2>2, <2>3, ExpiryFits DEF KeyDates
  <1>2. CASE Manage /\ \E k \in keys : DeleteKey(k.id)
    BY <1>2 DEF Manage, DeleteKey, KeyDates
  <1>3. CASE Pass
    BY <1>3 DEF Pass, Tick, keyVars, KeyDates
  <1>4. CASE \/ Browse \/ Edit \/ Watch \/ Serve \/ Answer \/ Broadcast \/ See
             \/ Operate \/ Proceed \/ Kill \/ PowerCut \/ Launch \/ UNCHANGED vars
    BY <1>4 DEF Browse, Edit, Watch, Serve, Answer, Broadcast, See, Operate, Proceed,
                Kill, PowerCut, Down, Launch, Reseed, vars, keyVars, KeyDates
  <1> QED
    BY <1>1, <1>2, <1>3, <1>4 DEF Next, Manage

\* A key lets requests in for exactly the days that it was asked for, whatever
\* their number and the length of a day, if the product fits
\* (keys.c:113-116, database.c:469-472, 546).
THEOREM KeyLastsItsDaysAlways == Spec => []KeyLastsItsDays
  <1>1. Init => KeyDates
    BY AccountsAssumption DEF Init, AccountsInit, KeyDates
  <1>2. KeyDates => KeyLastsItsDays
    <2> SUFFICES ASSUME KeyDates, NEW k \in keys, k.days * Day <= IntMax,
                        \A l \in keys : l.value = k.value => l = k
                 PROVE  KeyValid(k.value) <=>
                          k.days <= 0 \/ now < k.created + k.days * Day
      BY DEF KeyLastsItsDays
    <2>1. k.days \in Int
      BY AccountsAssumption DEF KeyDates
    <2>2. KeyValid(k.value) <=> Accepts(k)
      BY DEF KeyValid
    <2>3. CASE k.days > 0
      BY <2>1, <2>2, <2>3, PositiveProduct DEF KeyDates, Accepts, Never
    <2>4. CASE k.days <= 0
      BY <2>1, <2>2, <2>4, PositiveProduct DEF KeyDates, Accepts, Never
    <2> QED
      BY <2>1, <2>3, <2>4
  <1> QED
    BY <1>1, <1>2, KeyDatesStep, PTL DEF Spec

-----------------------------------------------------------------------------
(* The calls of the page *)

\* A set of numbers has a least one.
LEMMA Least ==
  ASSUME NEW S \in SUBSET Nat, S # {}
  PROVE  \E n \in S : \A m \in S : n <= m
  <1> DEFINE T == {0 .. n : n \in S}
  <1>1. T \subseteq FiniteSubsetsOf(Nat) /\ T # {}
    <2>1. ASSUME NEW n \in S PROVE 0 .. n \in FiniteSubsetsOf(Nat)
      BY FS_Interval DEF FiniteSubsetsOf
    <2> QED
      BY <2>1
  <1>2. PICK x \in T : \A y \in T : ~ (<<y, x>> \in StrictSubsetOrdering(Nat))
    <2> HIDE DEF T
    <2> QED
      BY <1>1, WFMin, FS_StrictSubsetOrderingWellFounded
  <1>3. PICK n \in S : x = 0 .. n
    OBVIOUS
  <1>4. ASSUME NEW m \in S, m < n PROVE FALSE
    <2>1. /\ 0 .. m \in T /\ 0 .. m \in SUBSET Nat /\ 0 .. n \in SUBSET Nat
          /\ 0 .. m \subseteq 0 .. n
      BY <1>4
    <2>2. n \in 0 .. n /\ n \notin 0 .. m
      BY <1>4
    <2>3. 0 .. m # 0 .. n
      BY <2>2
    <2>4. <<0 .. m, 0 .. n>> \in StrictSubsetOrdering(Nat)
      BY <2>1, <2>3 DEF StrictSubsetOrdering
    <2> QED
      BY <1>2, <1>3, <2>1, <2>4
  <1> QED
    BY <1>4

\* A call with another number is a call.
LEMMA Numbered ==
  ASSUME NEW c \in Call, NEW n \in Nat \ {0}
  PROVE  /\ [c EXCEPT !.n = n] \in Call
         /\ [c EXCEPT !.n = n].n = n
  BY DEF Call

\* Some number tells the call c apart from the others, so there is a first.
LEMMA AddCallAdds ==
  ASSUME NEW some \in SUBSET Call, IsFiniteSet(some), NEW c \in Call
  PROVE  \E n \in Nat \ {0} : AddCall(some, c) = some \cup {[c EXCEPT !.n = n]}
  <1> DEFINE k == Cardinality(some) + 1
             as(n) == [c EXCEPT !.n = n]
             free == {n \in 1 .. k : as(n) \notin some}
             f == [n \in 1 .. k |-> as(n)]
  <1>1. Cardinality(some) \in Nat
    BY FS_CardinalityType
  <1>2. free # {}
    <2> SUFFICES ASSUME free = {} PROVE FALSE
      OBVIOUS
    <2>1. f \in [1 .. k -> some]
      OBVIOUS
    <2>2. IsFiniteSet(1 .. k) /\ Cardinality(1 .. k) = k
      BY <1>1, FS_Interval
    <2>3. \A m \in 1 .. k : f[m].n = m
      <3> TAKE m \in 1 .. k
      <3>1. m \in Nat \ {0} /\ f[m] = as(m)
        BY <1>1
      <3> QED
        BY <3>1, Numbered
    <2>4. Cardinality(some) < Cardinality(1 .. k)
      BY <1>1, <2>2
    <2> DEFINE K == 1 .. k
    <2> HIDE DEF f, as, K
    <2>5. \E x, y \in K : x # y /\ f[x] = f[y]
      <3>1. f \in [K -> some] /\ IsFiniteSet(K) /\ Cardinality(some) < Cardinality(K)
        BY <2>1, <2>2, <2>4 DEF K
      <3> QED
        BY <3>1, FS_PigeonHole
    <2> QED
      BY <2>3, <2>5 DEF K
  <1>3. PICK n \in free : \A m \in free : n <= m
    <2>1. free \in SUBSET Nat
      OBVIOUS
    <2> QED
      BY <1>2, <2>1, Least
  <1>4. n \in 1 .. k /\ as(n) \notin some /\ \A m \in 1 .. n - 1 : as(m) \in some
    <2>1. n \in 1 .. k /\ as(n) \notin some
      OBVIOUS
    <2>2. ASSUME NEW m \in 1 .. n - 1, as(m) \notin some PROVE FALSE
      <3>1. m \in 1 .. k /\ m < n
        BY <1>1, <2>1
      <3>2. m \in free
        BY <2>2, <3>1
      <3>3. n <= m
        BY <1>3, <3>2
      <3> QED
        BY <1>1, <2>1, <3>1, <3>3
    <2> QED
      BY <2>1, <2>2
  <1> DEFINE first == CHOOSE i \in 1 .. k :
                        as(i) \notin some /\ \A m \in 1 .. i - 1 : as(m) \in some
  <1>5. first \in 1 .. k
    <2>1. \E i \in 1 .. k : as(i) \notin some /\ \A m \in 1 .. i - 1 : as(m) \in some
      BY <1>4
    <2> QED
      BY <2>1
  <1>6. AddCall(some, c) = some \cup {as(first)}
    BY DEF AddCall
  <1>7. first \in Nat \ {0}
    <2> HIDE DEF first
    <2> QED
      BY <1>1, <1>5
  <1> QED
    BY <1>6, <1>7

\* The call d has just been made.
Asked(d, kind) ==
  /\ d \in Call
  /\ d.kind = kind
  /\ d.at = "sent" /\ ~ d.ok /\ ~ d.gone
  /\ d.latest <=> kind \in Lists
  /\ d.rules = {}

\* Asking adds one call.
LEMMA CallingAdds ==
  ASSUME NEW some \in SUBSET Call, IsFiniteSet(some), page'.token \in Nat,
         NEW kind \in Lists \cup Edits, NEW rule \in Rule
  PROVE  \E d : /\ Asked(d, kind) /\ d.rule = rule
                /\ Calling(some, kind, rule) = some \cup {d}
  <1> DEFINE c == [n |-> 1, kind |-> kind, rule |-> rule, token |-> page'.token,
                   at |-> "sent", ok |-> FALSE, rules |-> {}, events |-> {},
                   latest |-> kind \in Lists, gone |-> FALSE]
  <1>1. c \in Call
    BY DEF Call
  <1>2. Asked(c, kind) /\ c.rule = rule
    BY <1>1 DEF Asked
  <1>3. Calling(some, kind, rule) = AddCall(some, c)
    BY DEF Calling
  <1> HIDE DEF c
  <1>4. PICK n \in Nat \ {0} : AddCall(some, c) = some \cup {[c EXCEPT !.n = n]}
    BY <1>1, AddCallAdds
  <1>5. Asked([c EXCEPT !.n = n], kind) /\ [c EXCEPT !.n = n].rule = rule
    BY <1>1, <1>2 DEF Asked, Call
  <1> QED
    BY <1>3, <1>4, <1>5

\* No two calls are the latest for the same list.
OneLatest(some) ==
  \A c, d \in some : c.latest /\ d.latest /\ c.kind = d.kind => c = d

\* The calls r are the calls in some and one for the list, which is the latest
\* now; the one that was before is only not the latest any more.
Joined(r, some, list) ==
  /\ r \subseteq Call /\ IsFiniteSet(r)
  /\ \E d \in r : Asked(d, list)
  /\ \A c \in r : c.latest /\ c.kind = list => Asked(c, list)
  /\ \A c \in some : c.kind # list => c \in r
  /\ \A c \in r : \/ c \in some
                  \/ Asked(c, list)
                  \/ \E d \in some : /\ c.kind = list /\ d.kind = list
                                     /\ d.latest /\ ~ c.latest
                                     /\ c.gone = d.gone /\ c.at = d.at /\ c.ok = d.ok
                                     /\ c.rules = d.rules

\* Asking for a list adds one call, which is the latest for it.
LEMMA CallingListJoins ==
  ASSUME NEW some \in SUBSET Call, IsFiniteSet(some), OneLatest(some),
         page'.token \in Nat, NEW list \in Lists
  PROVE  /\ Joined(CallingList(some, list), some, list)
         /\ OneLatest(CallingList(some, list))
  <1> DEFINE before == {c \in some : c.kind = list /\ c.latest}
             others == some \ before
             b == CHOOSE c \in before : TRUE
             old == [b EXCEPT !.latest = FALSE]
             rest == IF before = {} THEN some ELSE AddCall(others, old)
  <1>0. ZeroRule \in Rule
    BY DEF ZeroRule, Rule
  <1>1. others \subseteq Call /\ IsFiniteSet(others)
    BY FS_Subset
  <1>2. before # {} => b \in before /\ before = {b}
    BY DEF OneLatest
  <1>3. before # {} =>
          /\ old \in Call /\ ~ old.latest /\ old.kind = list
          /\ old.gone = b.gone /\ old.at = b.at /\ old.ok = b.ok /\ old.rules = b.rules
    <2> HIDE DEF b
    <2> SUFFICES ASSUME before # {} PROVE old \in Call /\ old.kind = list
                                          /\ ~ old.latest
                                          /\ old.gone = b.gone /\ old.at = b.at
                                          /\ old.ok = b.ok /\ old.rules = b.rules
      OBVIOUS
    <2>1. b \in Call /\ b.kind = list
      BY <1>2
    <2> HIDE DEF before
    <2> QED
      BY <2>1 DEF Call
  <1>4. /\ rest \subseteq Call /\ IsFiniteSet(rest)
        /\ others \subseteq rest
        /\ \A c \in rest : \/ c \in others
                           \/ /\ before # {}
                              /\ c.kind = list /\ ~ c.latest
                              /\ c.gone = b.gone /\ c.at = b.at /\ c.ok = b.ok
                              /\ c.rules = b.rules
    <2>1. CASE before = {}
      BY <2>1
    <2>2. CASE before # {}
      <3> HIDE DEF old, b, others
      <3>1. PICK n \in Nat \ {0} :
              AddCall(others, old) = others \cup {[old EXCEPT !.n = n]}
        BY <1>1, <1>3, <2>2, AddCallAdds
      <3>2. /\ [old EXCEPT !.n = n] \in Call
            /\ [old EXCEPT !.n = n].kind = list /\ ~ [old EXCEPT !.n = n].latest
            /\ [old EXCEPT !.n = n].gone = b.gone /\ [old EXCEPT !.n = n].at = b.at
            /\ [old EXCEPT !.n = n].ok = b.ok /\ [old EXCEPT !.n = n].rules = b.rules
        BY <1>3, <2>2 DEF Call
      <3>3. rest = others \cup {[old EXCEPT !.n = n]}
        BY <2>2, <3>1
      <3> HIDE DEF rest
      <3>4. IsFiniteSet(rest)
        BY <1>1, <3>3, FS_AddElement
      <3> QED
        BY <1>1, <2>2, <3>2, <3>3, <3>4
    <2> QED
      BY <2>1, <2>2
  <1>5. CallingList(some, list) = Calling(rest, list, ZeroRule)
    BY DEF CallingList
  <1>6. \A c \in others : ~ (c.kind = list /\ c.latest)
    OBVIOUS
  <1>7. before # {} => b \in some /\ b.kind = list /\ b.latest
    BY <1>2
  <1>8. \A c \in some : c.kind # list => c \in others
    OBVIOUS
  <1>9. others \subseteq some
    OBVIOUS
  <1> HIDE DEF rest, before, others, b, old
  <1>10. PICK d : Asked(d, list) /\ Calling(rest, list, ZeroRule) = rest \cup {d}
    BY <1>0, <1>4, CallingAdds
  <1> DEFINE r == rest \cup {d}
  <1>11. r \subseteq Call /\ IsFiniteSet(r)
    BY <1>4, <1>10, FS_AddElement DEF Asked
  <1>12. \A c \in rest : ~ (c.kind = list /\ c.latest)
    BY <1>4, <1>6
  <1>13. Joined(r, some, list)
    <2>1. \A c \in r : \/ c \in some
                  \/ Asked(c, list)
                  \/ \E e \in some : /\ c.kind = list /\ e.kind = list
                                     /\ e.latest /\ ~ c.latest
                                     /\ c.gone = e.gone /\ c.at = e.at /\ c.ok = e.ok
                                     /\ c.rules = e.rules
      BY <1>4, <1>7, <1>9, <1>10
    <2> QED
      BY <1>4, <1>8, <1>10, <1>11, <1>12, <2>1 DEF Joined
  <1>14. OneLatest(r)
    BY <1>4, <1>9, <1>10, <1>12 DEF OneLatest, Asked
  <1> QED
    BY <1>5, <1>10, <1>13, <1>14

-----------------------------------------------------------------------------
(* What the page shows, and what the calls in flight will make it show *)

Latest(some, list) == {c \in some : c.kind = list /\ c.latest}

\* An edit that has perhaps changed the rules, after which the page will ask
\* for them.
Editing(c) == ~ c.gone /\ c.kind \in Edits /\ (c.ok \/ c.kind = "block udp")

CallsInOrder ==
  /\ IsFiniteSet(calls)
  /\ OneLatest(calls)
  /\ \A c \in calls : /\ c.gone => c.kind \in Edits /\ c.at = "sent"
                      /\ c.at = "sent" => ~ c.ok
                      /\ page.at = "login" => c.gone
                      /\ c.latest => c.kind \in Lists
                      /\ c.kind \in Edits => c.rule.ip \in Ip
                      /\ ZeroRule \notin c.rules
  /\ ZeroRule \notin page.rules

\* Unless an edit is under way, the latest answer, in flight or shown, lists
\* the rules.
RulesFollowed ==
  page.at = "open" /\ ~ elsewhere /\ (\A c \in calls : ~ Editing(c)) =>
    /\ \A c \in Latest(calls, "rules") : c.ok => c.rules = Listed(rules)
    /\ "rules" \in fresh =>
         Latest(calls, "rules") # {} \/ page.rules = Listed(rules)

\* The same for the events, unless a message about one is under way.
EventsFollowed ==
  page.at = "open" /\ ~ missed /\ ~ telling /\ message # "event" =>
    /\ \A c \in Latest(calls, "events") : c.ok => c.events \in Newest(stored)
    /\ "events" \in fresh =>
         Latest(calls, "events") # {} \/ page.events \in Newest(stored)

Followed == CallsInOrder /\ RulesFollowed /\ EventsFollowed

LEMMA ListNames ==
  /\ "rules" \in Lists /\ "events" \in Lists
  /\ Lists \cap Edits = {}
  /\ \A k \in {"add", "delete", "block", "block udp"} : k \in Edits /\ k \notin Lists
  BY DEF Lists, Edits

LEMMA PageTypes ==
  ASSUME DashboardTypeOK
  PROVE  /\ page.at \in {"login", "open"} /\ page.token \in Nat
         /\ page.rules \in SUBSET Rule /\ page.events \in SUBSET Nat
         /\ page.connected \in BOOLEAN
  BY DEF DashboardTypeOK

\* An edit is asked for, after another one or not.
LEMMA AskedEdit ==
  ASSUME DashboardTypeOK, Followed,
         NEW some \in SUBSET calls,
         \A c \in calls : c.kind \notin Edits => c \in some,
         NEW kind \in Edits, NEW rule \in Rule, rule.ip \in Ip,
         page.at = "open", page' = page,
         calls' = Calling(some, kind, rule),
         kind = "block udp" \/ \A c \in calls : Editing(c) => c \in some,
         UNCHANGED <<rules, stored, telling, message, fresh, elsewhere, missed>>
  PROVE  calls' \subseteq Call /\ Followed'
  <1>1. some \subseteq Call /\ IsFiniteSet(some)
    BY FS_Subset DEF DashboardTypeOK, Followed, CallsInOrder
  <1>2. page'.token \in Nat
    BY PageTypes
  <1>0. kind \in Lists \cup Edits
    OBVIOUS
  <1>3. PICK d : Asked(d, kind) /\ d.rule = rule /\ calls' = some \cup {d}
    <2>1. \E d : /\ Asked(d, kind) /\ d.rule = rule
                /\ Calling(some, kind, rule) = some \cup {d}
      BY <1>0, <1>1, <1>2, CallingAdds
    <2> QED
      BY <2>1
  <1>4. calls' \subseteq Call
    BY <1>1, <1>3 DEF Asked
  <1>5. d.kind \in Edits /\ ~ d.latest
    BY <1>3, ListNames DEF Asked
  <1>6. CallsInOrder'
    <2>1. IsFiniteSet(calls')
      <3>1. IsFiniteSet(some \cup {d})
        BY <1>1, FS_AddElement
      <3> QED
        BY <1>3, <3>1
    <2>2. OneLatest(calls')
      BY <1>3, <1>5 DEF OneLatest, Followed, CallsInOrder
    <2> QED
      BY <1>3, <2>1, <2>2 DEF Followed, CallsInOrder, Asked
  <1>7. \A list \in Lists : Latest(calls', list) = Latest(calls, list)
    BY <1>3, <1>5, ListNames DEF Latest
  <1>8. (\A c \in calls' : ~ Editing(c)) => (\A c \in calls : ~ Editing(c))
    BY <1>3 DEF Asked, Editing
  <1>9. RulesFollowed'
    BY <1>7, <1>8, ListNames DEF Followed, RulesFollowed
  <1>10. EventsFollowed'
    BY <1>7, ListNames DEF Followed, EventsFollowed
  <1> QED
    BY <1>4, <1>6, <1>9, <1>10 DEF Followed

\* A list is asked for, after an edit or not.
LEMMA AskedList ==
  ASSUME DashboardTypeOK, Followed,
         NEW some \in SUBSET calls, NEW list \in Lists,
         \A c \in calls : c.kind # list => c \in some \/ c.kind \in Edits,
         list = "rules" \/ some = calls,
         page.at = "open", page' = page,
         calls' = CallingList(some, list),
         UNCHANGED <<rules, stored, fresh, elsewhere, missed>>,
         list = "events" \/ UNCHANGED <<telling, message>>
  PROVE  calls' \subseteq Call /\ Followed'
  <1>1. some \subseteq Call /\ IsFiniteSet(some) /\ OneLatest(some)
    BY FS_Subset DEF DashboardTypeOK, Followed, CallsInOrder, OneLatest
  <1>2. page'.token \in Nat
    BY PageTypes
  <1>3. Joined(calls', some, list) /\ OneLatest(calls')
    BY <1>1, <1>2, CallingListJoins
  <1>4. calls' \subseteq Call
    BY <1>3 DEF Joined
  <1>5. CallsInOrder'
    <2>1. ASSUME NEW c \in calls'
          PROVE  /\ c.gone => c.kind \in Edits /\ c.at = "sent"
                 /\ c.at = "sent" => ~ c.ok
                 /\ c.latest => c.kind \in Lists
                 /\ c.kind \in Edits => c.rule.ip \in Ip
                 /\ ZeroRule \notin c.rules
      <3>1. CASE c \in some
        BY <3>1 DEF Followed, CallsInOrder
      <3>2. CASE Asked(c, list)
        BY <3>2, ListNames DEF Asked
      <3>3. CASE \E d \in some : /\ c.kind = list /\ d.kind = list
                                 /\ d.latest /\ ~ c.latest
                                 /\ c.gone = d.gone /\ c.at = d.at /\ c.ok = d.ok
                                 /\ c.rules = d.rules
        BY <3>3, ListNames DEF Followed, CallsInOrder
      <3> QED
        BY <1>3, <3>1, <3>2, <3>3 DEF Joined
    <2>2. IsFiniteSet(calls')
      BY <1>3 DEF Joined
    <2> QED
      BY <1>3, <2>1, <2>2 DEF Followed, CallsInOrder
  <1>6. \A l \in Lists : l # list => Latest(calls', l) = Latest(calls, l)
    <2> SUFFICES ASSUME NEW l \in Lists, l # list
                 PROVE  Latest(calls', l) = Latest(calls, l)
      OBVIOUS
    <2>1. \A c \in calls' : c.kind = l => c \in calls
      BY <1>3 DEF Joined, Asked
    <2>2. \A c \in calls : c.kind = l => c \in calls'
      BY <1>3, ListNames DEF Joined
    <2> QED
      BY <2>1, <2>2 DEF Latest
  <1>7. Latest(calls', list) # {} /\ \A c \in Latest(calls', list) : ~ c.ok
    BY <1>3 DEF Latest, Joined, Asked
  <1>8. CASE list = "rules"
    BY <1>4, <1>5, <1>6, <1>7, <1>8, ListNames
       DEF Followed, RulesFollowed, EventsFollowed
  <1>9. CASE list = "events"
    <2>1. (\A c \in calls' : ~ Editing(c)) => (\A c \in calls : ~ Editing(c))
      BY <1>3, <1>9, ListNames DEF Joined, Editing
    <2>2. RulesFollowed'
      BY <1>6, <1>9, <2>1, ListNames DEF Followed, RulesFollowed
    <2>3. EventsFollowed'
      BY <1>7, <1>9 DEF EventsFollowed
    <2> QED
      BY <1>4, <1>5, <2>2, <2>3 DEF Followed
  <1> QED
    BY <1>8, <1>9 DEF Lists

PageInv == DashboardTypeOK /\ Followed

LEMMA NewestTypes ==
  ASSUME NEW dates \in Seq(Nat)
  PROVE  Newest(dates) \subseteq SUBSET Nat
  BY DEF Newest

\* What the query leaves out is no newer than what it finds, and it only leaves
\* something out when it has found as much as was asked for.
LEMMA NewestLeavesOut ==
  ASSUME NEW dates \in Seq(Nat), NEW some \in Newest(dates)
  PROVE  /\ some \subseteq DOMAIN dates
         /\ \A late \in DOMAIN dates \ some :
              /\ Cardinality(some) = EventLimit
              /\ \A i \in some : dates[late] <= dates[i]
  <1>1. /\ some \subseteq DOMAIN dates
        /\ Cardinality(some) =
             IF Len(dates) < EventLimit THEN Len(dates) ELSE EventLimit
        /\ \A i \in some, j \in DOMAIN dates \ some : dates[j] <= dates[i]
    BY DEF Newest
  <1>2. Len(dates) \in Nat /\ DOMAIN dates = 1 .. Len(dates)
    OBVIOUS
  <1>3. IsFiniteSet(DOMAIN dates) /\ Cardinality(DOMAIN dates) = Len(dates)
    <2>1. ASSUME NEW n \in Nat PROVE IsFiniteSet(1 .. n) /\ Cardinality(1 .. n) = n
      BY FS_Interval
    <2> QED
      BY <1>2, <2>1
  <1>4. ASSUME NEW late \in DOMAIN dates \ some
        PROVE  Cardinality(some) # Len(dates)
    <2>1. some # DOMAIN dates
      BY <1>4
    <2> QED
      BY <1>1, <1>3, <2>1, FS_Subset
  <1> QED
    BY <1>1, <1>4

\* The fields of a call in flight.
LEMMA CallTypes ==
  ASSUME DashboardTypeOK, NEW c \in calls
  PROVE  /\ c \in Call
         /\ c.kind \in Lists \cup Edits /\ c.rule \in Rule
         /\ c.at \in {"sent", "answered"}
         /\ {c.ok, c.latest, c.gone} \subseteq BOOLEAN
         /\ c.rules \in SUBSET Rule /\ c.events \in SUBSET Nat
  BY DEF DashboardTypeOK, Call

\* The page that has just been opened shows nothing and has asked for all that
\* the behaviour is about.
LEMMA LogInInv ==
  ASSUME AccountsTypeOK, PageInv, NEW mine \in Lists, LogIn({mine})
  PROVE  PageInv'
  <1> USE DEF PageInv
  <1> DEFINE asked == CallingList(CallingList(calls, "rules"), "rules")
             some == CallingList(calls, "rules")
  <1>1. /\ sessions' \in Seq(Nat) /\ Len(sessions') = Len(sessions) + 1
        /\ Len(sessions) \in Nat
    BY AccountsAssumption DEF LogIn, OpenSession, AccountsTypeOK
  <1>2. page' = [LoginPage(Len(sessions')) EXCEPT !.at = "open"]
    BY DEF LogIn
  <1>3. /\ page'.at = "open" /\ page'.token = Len(sessions') /\ ~ page'.connected
        /\ page'.rules = {}
        /\ page' \in [at : {"login", "open"}, token : 0 .. Len(sessions'),
               rules : SUBSET Rule, events : SUBSET Nat, connected : BOOLEAN]
    <2>1. page' = [at |-> "open", token |-> Len(sessions'), rules |-> {},
                   events |-> {}, connected |-> FALSE]
      BY <1>2 DEF LoginPage
    <2>2. Len(sessions') \in 0 .. Len(sessions')
      BY <1>1
    <2> QED
      BY <2>1, <2>2
  <1>4. page'.token \in Nat
    BY <1>1, <1>3
  <1>5. calls \subseteq Call /\ IsFiniteSet(calls) /\ OneLatest(calls)
    BY DEF DashboardTypeOK, Followed, CallsInOrder
  <1>6. Joined(some, calls, "rules") /\ OneLatest(some)
    BY <1>4, <1>5, CallingListJoins, ListNames
  <1>7. Joined(asked, some, "rules") /\ OneLatest(asked)
    <2> HIDE DEF some
    <2>1. some \subseteq Call /\ IsFiniteSet(some)
      BY <1>6 DEF Joined
    <2>2. Joined(CallingList(some, "rules"), some, "rules")
          /\ OneLatest(CallingList(some, "rules"))
      BY <1>4, <1>6, <2>1, CallingListJoins, ListNames
    <2> QED
      BY <2>2 DEF some
  <1>8. \A c \in calls : /\ c.gone /\ c.kind \in Edits /\ c.at = "sent" /\ ~ c.ok
                         /\ c.latest => c.kind \in Lists
                         /\ c.rule.ip \in Ip /\ ZeroRule \notin c.rules
    BY DEF LogIn, Followed, CallsInOrder
  <1>9. \A c \in some : /\ c.gone => c.kind \in Edits /\ c.at = "sent"
                        /\ ~ c.ok /\ c.kind # "events"
                        /\ c.latest => c.kind \in Lists
                        /\ c.kind \in Edits => c.rule.ip \in Ip
                        /\ ZeroRule \notin c.rules
    BY <1>6, <1>8, ListNames DEF Joined, Asked, Edits
  <1>10. \A c \in asked : /\ c.gone => c.kind \in Edits /\ c.at = "sent"
                          /\ ~ c.ok /\ c.kind # "events"
                          /\ c.latest => c.kind \in Lists
                          /\ c.kind \in Edits => c.rule.ip \in Ip
                          /\ ZeroRule \notin c.rules
    BY <1>7, <1>9, ListNames DEF Joined, Asked
  <1>11. /\ calls' \subseteq Call /\ IsFiniteSet(calls') /\ OneLatest(calls')
         /\ \A c \in calls' : /\ c.gone => c.kind \in Edits /\ c.at = "sent"
                              /\ ~ c.ok
                              /\ c.latest => c.kind \in Lists
                              /\ c.kind \in Edits => c.rule.ip \in Ip
                              /\ ZeroRule \notin c.rules
    <2> HIDE DEF asked
    <2>1. CASE mine = "events"
      <3>1. calls' = CallingList(asked, "events")
        BY <2>1 DEF LogIn, asked
      <3>2. asked \subseteq Call /\ IsFiniteSet(asked)
        BY <1>7 DEF Joined
      <3>3. Joined(calls', asked, "events") /\ OneLatest(calls')
        BY <1>4, <1>7, <3>1, <3>2, CallingListJoins, ListNames
      <3> QED
        BY <1>10, <3>3, ListNames DEF Joined, Asked
    <2>2. CASE mine = "rules"
      <3>1. calls' = asked
        BY <2>2 DEF LogIn, asked
      <3> QED
        BY <1>7, <1>10, <3>1 DEF Joined
    <2> QED
      BY <2>1, <2>2 DEF Lists
  <1>12. fresh' = {} /\ UNCHANGED <<rules, stored, telling, message, acts, changes,
                                    elsewhere, missed>>
    BY DEF LogIn
  <1>13. DashboardTypeOK'
    <2>1. message = "none"
      BY DEF LogIn, DashboardTypeOK
    <2>2. page'.token # 0
      BY <1>1, <1>3
    <2> QED
      BY <1>3, <1>11, <1>12, <2>1, <2>2 DEF DashboardTypeOK
  <1>14. Followed'
    BY <1>3, <1>11, <1>12
       DEF Followed, CallsInOrder, RulesFollowed, EventsFollowed, Latest
  <1> QED
    BY <1>13, <1>14

\* A call is lost.
LEMMA LoseInv ==
  ASSUME PageInv, NEW c \in calls, Lose(c), UNCHANGED sessions
  PROVE  PageInv'
  <1> USE DEF PageInv
  <1>1. DashboardTypeOK'
    BY CallTypes DEF DashboardTypeOK, Lose
  <1>2. CallsInOrder'
    BY FS_RemoveElement DEF Lose, Followed, CallsInOrder, OneLatest
  <1>3. RulesFollowed'
    BY CallTypes DEF Lose, Followed, RulesFollowed, Latest, Editing
  <1>4. EventsFollowed'
    BY CallTypes DEF Lose, Followed, EventsFollowed, Latest
  <1> QED
    BY <1>1, <1>2, <1>3, <1>4 DEF Followed

\* The user adds, deletes or blocks.
LEMMA ActInv ==
  ASSUME PageInv, NEW kind \in {"add", "delete", "block"}, NEW r \in Rule, r.ip \in Ip,
         Act(kind, r), UNCHANGED sessions
  PROVE  PageInv'
  <1> USE DEF PageInv
  <1>1. kind \in Edits
    BY ListNames
  <1>2. calls' \subseteq Call /\ Followed'
    BY <1>1, AskedEdit DEF Act
  <1>3. DashboardTypeOK'
    BY <1>2, DashboardAssumption DEF DashboardTypeOK, Act
  <1> QED
    BY <1>2, <1>3

\* Others change the rules.
LEMMA ChangeInv ==
  ASSUME PageInv, NEW r \in Rule, Change(r), UNCHANGED sessions
  PROVE  PageInv'
  <1> USE DEF PageInv
  <1>1. DashboardTypeOK'
    BY DashboardAssumption DEF DashboardTypeOK, Change
  <1>2. Followed'
    BY DEF Change, Followed, CallsInOrder, RulesFollowed, EventsFollowed
  <1> QED
    BY <1>1, <1>2

\* An event is stored, broadcast, or its message replaced or lost.
LEMMA MessageInv ==
  ASSUME AccountsTypeOK, PageInv, UNCHANGED sessions,
         Store \/ Connect \/ Disconnect \/ TellTraffic \/ Tell \/ SeeTraffic
  PROVE  PageInv'
  <1> USE DEF PageInv
  <1>1. CASE Store
    <2>1. PICK date \in {now, 0} : stored' = Append(stored, date)
      BY <1>1 DEF Store
    <2>2. date \in Nat
      BY AccountsAssumption DEF AccountsTypeOK
    <2>3. stored' \in Seq(Nat) /\ Len(stored') = Len(stored) + 1 /\ Len(stored) \in Nat
      BY <2>1, <2>2 DEF DashboardTypeOK
    <2>4. Len(stored') <= MaxEvents
      BY <1>1, <2>3, DashboardAssumption DEF Store
    <2> QED
      BY <1>1, <2>3, <2>4
         DEF Store, DashboardTypeOK, Followed, CallsInOrder, RulesFollowed,
             EventsFollowed
  <1>2. CASE Connect
    BY <1>2 DEF Connect, DashboardTypeOK, Followed, CallsInOrder, RulesFollowed,
                EventsFollowed
  <1>3. CASE Disconnect
    BY <1>3 DEF Disconnect, Cut, Unseen, DashboardTypeOK, Followed, CallsInOrder,
                RulesFollowed, EventsFollowed
  <1>4. CASE TellTraffic
    BY <1>4 DEF TellTraffic, Unseen, DashboardTypeOK, Followed, CallsInOrder,
                RulesFollowed, EventsFollowed
  <1>5. CASE Tell
    BY <1>5 DEF Tell, DashboardTypeOK, Followed, CallsInOrder, RulesFollowed,
                EventsFollowed
  <1>6. CASE SeeTraffic
    BY <1>6 DEF SeeTraffic, DashboardTypeOK, Followed, CallsInOrder, RulesFollowed,
                EventsFollowed
  <1> QED
    BY <1>1, <1>2, <1>3, <1>4, <1>5, <1>6

\* The page asks for the events that the message is about.
LEMMA SeeEventInv ==
  ASSUME PageInv, SeeEvent, UNCHANGED sessions
  PROVE  PageInv'
  <1> USE DEF PageInv
  <1>1. page.at = "open"
    BY DEF SeeEvent, DashboardTypeOK
  <1>2. calls' \subseteq Call /\ Followed'
    BY <1>1, AskedList, ListNames DEF SeeEvent
  <1>3. DashboardTypeOK'
    BY <1>2 DEF DashboardTypeOK, SeeEvent
  <1> QED
    BY <1>2, <1>3

\* The answer c is shown, or is a reason to ask again.
LEMMA DeliverInv ==
  ASSUME PageInv, NEW c \in calls, Deliver(c), UNCHANGED sessions
  PROVE  PageInv'
  <1> USE DEF PageInv
  <1>0. /\ c.at = "answered" /\ ~ c.gone /\ page.at = "open"
        /\ calls \subseteq Call /\ c \in Call
    BY PageTypes DEF Deliver, ShowRules, Leave, ShowEvents, Edited, BlockedTcp,
       BlockedUdp, Answered, Followed, CallsInOrder, DashboardTypeOK
  <1>1. CASE ShowRules(c)
    <2>1. DashboardTypeOK'
      BY <1>0, <1>1, CallTypes, ListNames DEF ShowRules, DashboardTypeOK
    <2>2. CallsInOrder'
      BY <1>1, FS_RemoveElement DEF ShowRules, Followed, CallsInOrder, OneLatest
    <2>3. page'.at = page.at /\ page'.rules = c.rules /\ page'.events = page.events
      BY <1>1 DEF ShowRules, DashboardTypeOK
    <2>4. RulesFollowed'
      BY <1>1, <2>3, ListNames
         DEF ShowRules, Answered, Followed, RulesFollowed, Latest, Editing,
             CallsInOrder, OneLatest
    <2>5. EventsFollowed'
      BY <1>1, <2>3 DEF ShowRules, Answered, Followed, EventsFollowed, Latest
    <2> QED
      BY <2>1, <2>2, <2>4, <2>5 DEF Followed
  <1>2. CASE Leave(c)
    <2>1. /\ calls' \subseteq Call
          /\ \A d \in calls' : d.gone /\ d.kind \in Edits /\ d.at = "sent" /\ ~ d.ok
                               /\ ~ d.latest /\ d.rule.ip \in Ip
                               /\ ZeroRule \notin d.rules
        <3>1. ASSUME NEW d \in calls, d.kind \in Edits, d.at = "sent", NEW e,
                 e = [d EXCEPT !.gone = TRUE]
          PROVE  /\ e \in Call /\ e.gone /\ e.kind \in Edits /\ e.at = "sent"
                 /\ ~ e.ok /\ ~ e.latest /\ e.rule.ip \in Ip
                 /\ ZeroRule \notin e.rules
      <4>1. /\ e.kind = d.kind /\ e.at = d.at /\ e.ok = d.ok /\ e.latest = d.latest
            /\ e.rule = d.rule /\ e.rules = d.rules /\ e.gone /\ e \in Call
        BY <1>0, <3>1 DEF Call
      <4> QED
        BY <3>1, <4>1, ListNames, CallTypes DEF Followed, CallsInOrder
      <3> QED
      BY <1>2, <3>1 DEF Leave, Abandoned
    <2>2. IsFiniteSet(calls')
      <3> DEFINE S == {d \in calls : d.kind \in Edits /\ d.at = "sent"}
                 f == [d \in S |-> [d EXCEPT !.gone = TRUE]]
      <3>1. IsFiniteSet(S)
        BY FS_Subset DEF Followed, CallsInOrder
      <3>2. f \in Surjection(S, calls')
        BY <1>2 DEF Leave, Abandoned, Surjection
      <3> HIDE DEF f, S
      <3> QED
        BY <3>1, <3>2, FS_Surjection
    <2>3. page'.at = "login" /\ page'.rules = {}
      BY <1>2 DEF Leave, LoginPage
    <2>4. DashboardTypeOK'
      BY <1>2, <2>1 DEF Leave, LoginPage, DashboardTypeOK
    <2> QED
      BY <2>1, <2>2, <2>3, <2>4
         DEF Followed, CallsInOrder, OneLatest, RulesFollowed, EventsFollowed
  <1>3. CASE ShowEvents(c)
    <2>1. DashboardTypeOK'
      BY <1>0, <1>3, CallTypes, ListNames DEF ShowEvents, DashboardTypeOK
    <2>2. CallsInOrder'
      BY <1>3, FS_RemoveElement DEF ShowEvents, Followed, CallsInOrder, OneLatest
    <2>3. page'.at = page.at /\ page'.rules = page.rules /\ page'.events = c.events
      BY <1>3 DEF ShowEvents, DashboardTypeOK
    <2>4. RulesFollowed'
      BY <1>3, <2>3, ListNames
         DEF ShowEvents, Answered, Followed, RulesFollowed, Latest, Editing
    <2>5. EventsFollowed'
      BY <1>3, <2>3
         DEF ShowEvents, Answered, Followed, EventsFollowed, Latest, CallsInOrder,
             OneLatest
    <2> QED
      BY <2>1, <2>2, <2>4, <2>5 DEF Followed
  <1>4. CASE Edited(c)
    <2>1. c.kind \in Edits
      BY <1>4, ListNames DEF Edited, Answered
    <2>2. CASE c.ok
      <3>1. calls' \subseteq Call /\ Followed'
        <4>1. calls' = CallingList(calls \ {c}, "rules")
          BY <1>4, <2>2 DEF Edited
        <4> QED
          BY <1>0, <1>4, <2>1, <4>1, AskedList, ListNames DEF Edited
      <3> QED
        BY <1>4, <3>1 DEF DashboardTypeOK, Edited
    <2>3. CASE ~ c.ok
      <3>1. calls' = calls \ {c}
        BY <1>4, <2>3 DEF Edited
      <3>2. DashboardTypeOK'
        BY <1>4, <3>1 DEF Edited, DashboardTypeOK
      <3>3. CallsInOrder'
        BY <1>4, <3>1, FS_RemoveElement DEF Edited, Followed, CallsInOrder, OneLatest
      <3>4. ~ Editing(c)
        BY <1>4, <2>3 DEF Edited, Answered, Editing
      <3>5. RulesFollowed'
        BY <1>4, <2>1, <3>1, <3>4, ListNames DEF Edited, Followed, RulesFollowed, Latest
      <3>6. EventsFollowed'
        BY <1>4, <2>1, <3>1, ListNames DEF Edited, Followed, EventsFollowed, Latest
      <3> QED
        BY <3>2, <3>3, <3>5, <3>6 DEF Followed
    <2> QED
      BY <2>2, <2>3
  <1>5. CASE BlockedTcp(c)
    <2>1. c.kind \in Edits
      BY <1>5, ListNames DEF BlockedTcp, Answered
    <2> DEFINE r == [c.rule EXCEPT !.proto = "udp"]
    <2>2. r \in Rule /\ r.ip \in Ip
      <3>1. c.rule \in Rule /\ c.rule.ip \in Ip
        BY <2>1, CallTypes DEF Followed, CallsInOrder
      <3> QED
        BY <3>1 DEF Rule
    <2>3. calls' \subseteq Call /\ Followed'
      BY <1>0, <1>5, <2>1, <2>2, AskedEdit, ListNames DEF BlockedTcp
    <2> QED
      BY <1>5, <2>3 DEF DashboardTypeOK, BlockedTcp
  <1>6. CASE BlockedUdp(c)
    <2>1. c.kind \in Edits
      BY <1>6, ListNames DEF BlockedUdp, Answered
    <2>2. calls' \subseteq Call /\ Followed'
      <3>1. calls' = CallingList(calls \ {c}, "rules")
        BY <1>6 DEF BlockedUdp
      <3>2. \A d \in calls : d.kind # "rules" => d \in calls \ {c} \/ d.kind \in Edits
        BY <2>1
      <3>3. /\ page' = page
            /\ UNCHANGED <<rules, stored, fresh, elsewhere, missed>>
            /\ UNCHANGED <<telling, message>>
        BY <1>6 DEF BlockedUdp
      <3>4. calls \ {c} \in SUBSET calls /\ "rules" \in Lists
        BY ListNames
      <3> QED
        BY <1>0, <3>1, <3>2, <3>3, <3>4, AskedList
    <2> QED
      BY <1>6, <2>2 DEF DashboardTypeOK, BlockedUdp
  <1> QED
    BY <1>1, <1>2, <1>3, <1>4, <1>5, <1>6 DEF Deliver

\* The daemon is gone.
LEMMA GoneInv ==
  ASSUME PageInv, DaemonGone, UNCHANGED sessions
  PROVE  PageInv'
  <1> USE DEF PageInv
  <1>1. page'.at = page.at /\ page'.rules = page.rules /\ page'.events = page.events
    BY DEF DaemonGone, Cut, DashboardTypeOK
  <1>2. DashboardTypeOK'
    BY DEF DaemonGone, Cut, Unseen, DashboardTypeOK
  <1>3. Followed'
    BY <1>1 DEF DaemonGone, Cut, Unseen, Followed, CallsInOrder, RulesFollowed,
                EventsFollowed, Latest, DashboardTypeOK
  <1> QED
    BY <1>2, <1>3

\* The server handles the call c.
LEMMA HandleInv ==
  ASSUME PageInv, NEW c \in calls, Handle(c), UNCHANGED sessions
  PROVE  PageInv'
  <1> USE DEF PageInv
  <1>0. /\ c \in Call /\ calls \subseteq Call /\ c.at = "sent" /\ ~ c.ok
        /\ c.kind \in Edits => c.rule.ip \in Ip
        /\ rules \subseteq Rule /\ stored \in Seq(Nat)
        /\ UNCHANGED <<stored, telling, page, message, acts, changes, fresh>>
    BY DEF Handle, DashboardTypeOK, Followed, CallsInOrder
  <1>a. PICK e \in Effect(c) :
          /\ rules' = e[2]
          /\ \E found \in IF e[1] /\ c.kind = "events" THEN Newest(stored) ELSE {{}} :
               calls' = IF c.gone THEN calls \ {c}
                        ELSE AddCall(calls \ {c}, AnswerTo(c, e[1], found))
          /\ elsewhere' =
               IF e[1] /\ c.kind = "rules" /\ c.latest THEN FALSE
               ELSE elsewhere \/ (c.gone /\ rules' # rules)
          /\ missed' = (missed /\ ~ (e[1] /\ c.kind = "events" /\ c.latest))
    BY DEF Handle
  <1>b. PICK found \in IF e[1] /\ c.kind = "events" THEN Newest(stored) ELSE {{}} :
          calls' = IF c.gone THEN calls \ {c}
                   ELSE AddCall(calls \ {c}, AnswerTo(c, e[1], found))
    BY <1>a
  <1>1. /\ rules' = e[2]
        /\ calls' = IF c.gone THEN calls \ {c}
                    ELSE AddCall(calls \ {c}, AnswerTo(c, e[1], found))
        /\ elsewhere' =
             IF e[1] /\ c.kind = "rules" /\ c.latest THEN FALSE
             ELSE elsewhere \/ (c.gone /\ rules' # rules)
        /\ missed' = (missed /\ ~ (e[1] /\ c.kind = "events" /\ c.latest))
    BY <1>a, <1>b
  <1>2. /\ e[1] \in BOOLEAN /\ e[2] \subseteq Rule
        /\ c.kind \in Lists => e[2] = rules
        /\ ~ e[1] => e[2] = rules
    <2>1. c.rule \in Rule
      BY CallTypes
    <2>2. CASE ~ SessionValid(c.token)
      <3>1. e = <<FALSE, rules>>
        BY <2>2 DEF Effect
      <3> QED
        BY <1>0, <3>1
    <2>3. CASE SessionValid(c.token) /\ c.kind \in Lists
      <3>1. e = <<TRUE, rules>> \/ e = <<FALSE, rules>>
        BY <2>3, ListNames DEF Effect, Lists
      <3>2. CASE e = <<TRUE, rules>>
        BY <1>0, <3>2
      <3>3. CASE e = <<FALSE, rules>>
        BY <1>0, <3>3
      <3> QED
        BY <3>1, <3>2, <3>3
    <2>4. CASE SessionValid(c.token) /\ c.kind = "delete"
      <3>1. e = <<TRUE, rules \ {c.rule}>>
        BY <2>4, ListNames DEF Effect
      <3> QED
        BY <1>0, <2>4, <3>1, ListNames
    <2>5. CASE SessionValid(c.token) /\ c.kind \notin Lists /\ c.kind # "delete"
      <3>1. e = <<TRUE, rules \cup {c.rule}>> \/ e = <<FALSE, rules>>
        <4>1. c.kind # "rules" /\ c.kind # "events" /\ c.kind # "delete"
          BY <2>5, ListNames
        <4>2. Effect(c) = {<<TRUE, rules \cup {c.rule}>>, <<FALSE, rules>>}
          BY <2>5, <4>1 DEF Effect
        <4> QED
          BY <4>2
      <3>2. CASE e = <<TRUE, rules \cup {c.rule}>>
        BY <1>0, <2>1, <2>5, <3>2
      <3>3. CASE e = <<FALSE, rules>>
        BY <1>0, <3>3
      <3> QED
        BY <3>1, <3>2, <3>3
    <2> QED
      BY <2>2, <2>3, <2>4, <2>5
  <1>3. CASE c.gone
    <2>1. /\ c.kind \in Edits /\ ~ Editing(c) /\ ~ c.latest
          /\ calls' = calls \ {c}
          /\ elsewhere' = (elsewhere \/ rules' # rules) /\ missed' = missed
      BY <1>1, <1>3, CallTypes, ListNames, <1>2
         DEF Followed, CallsInOrder, Editing, Lists, DashboardTypeOK
    <2>2. DashboardTypeOK'
      BY <1>0, <1>1, <1>2, <2>1 DEF DashboardTypeOK
    <2>3. CallsInOrder'
      BY <1>0, <2>1, FS_RemoveElement DEF Followed, CallsInOrder, OneLatest
    <2>4. RulesFollowed'
      BY <1>0, <2>1 DEF Followed, RulesFollowed, Latest
    <2>5. EventsFollowed'
      BY <1>0, <2>1 DEF Followed, EventsFollowed, Latest
    <2> QED
      BY <2>2, <2>3, <2>4, <2>5 DEF Followed
  <1>4. CASE ~ c.gone
    <2> DEFINE answer0 == AnswerTo(c, e[1], found)
               others == calls \ {c}
    <2>1. /\ answer0 \in Call
          /\ answer0.kind = c.kind /\ answer0.latest = c.latest
          /\ answer0.gone = c.gone /\ answer0.rule = c.rule
          /\ answer0.at = "answered" /\ answer0.ok = e[1]
          /\ c.kind = "rules" /\ e[1] => answer0.rules = Listed(rules)
          /\ ZeroRule \notin answer0.rules
          /\ c.kind = "events" /\ e[1] => answer0.events \in Newest(stored)
      <3>1. Listed(rules) \in SUBSET Rule /\ ZeroRule \notin Listed(rules)
        BY <1>0 DEF Listed
      <3>2. Newest(stored) \subseteq SUBSET Nat
        BY <1>0, NewestTypes
      <3>3. found \in SUBSET Nat
        BY <1>1, <3>2
      <3> HIDE DEF Newest
      <3> QED
        BY <1>0, <1>1, <1>2, <3>1, <3>3 DEF AnswerTo, Call
    <2>2. others \subseteq Call /\ IsFiniteSet(others)
      BY <1>0, FS_RemoveElement DEF Followed, CallsInOrder
    <2>3. calls' = AddCall(others, answer0)
      BY <1>1, <1>4
    <2> HIDE DEF answer0
    <2>4. PICK n \in Nat \ {0} :
            AddCall(others, answer0) = others \cup {[answer0 EXCEPT !.n = n]}
      BY <2>1, <2>2, AddCallAdds
    <2> DEFINE a == [answer0 EXCEPT !.n = n]
    <2>5. /\ a \in Call
          /\ a.kind = c.kind /\ a.latest = c.latest
          /\ ~ a.gone /\ a.rule = c.rule
          /\ a.at = "answered" /\ a.ok = e[1]
          /\ c.kind = "rules" /\ e[1] => a.rules = Listed(rules)
          /\ ZeroRule \notin a.rules
          /\ c.kind = "events" /\ e[1] => a.events \in Newest(stored)
      BY <1>4, <2>1 DEF Call
    <2> HIDE DEF a
    <2>6. calls' = others \cup {a}
      BY <2>3, <2>4 DEF a
    <2>7. calls' \subseteq Call
      BY <2>2, <2>5, <2>6
    <2>8. elsewhere' = IF e[1] /\ c.kind = "rules" /\ c.latest THEN FALSE ELSE elsewhere
      BY <1>1, <1>4 DEF DashboardTypeOK
    <2>9. DashboardTypeOK'
      BY <1>0, <1>1, <1>2, <2>7, <2>8 DEF DashboardTypeOK
    <2>10. CallsInOrder'
      <3>1. IsFiniteSet(others \cup {a})
        BY <2>2, FS_AddElement
      <3>2. OneLatest(calls')
        BY <2>5, <2>6 DEF OneLatest, Followed, CallsInOrder
      <3>3. page.at = "login" => FALSE
        BY <1>4 DEF Followed, CallsInOrder
      <3> QED
        BY <1>0, <2>5, <2>6, <3>1, <3>2, <3>3 DEF Followed, CallsInOrder
    <2>11. \A l \in Lists : Latest(calls', l) = {} => Latest(calls, l) = {}
      BY <2>5, <2>6 DEF Latest
    <2>12. RulesFollowed'
      <3>1. SUFFICES ASSUME page.at = "open", ~ elsewhere',
                            \A d \in calls' : ~ Editing(d)
                     PROVE  /\ \A d \in Latest(calls', "rules") :
                                 d.ok => d.rules = Listed(rules')
                            /\ "rules" \in fresh =>
                                 \/ Latest(calls', "rules") # {}
                                 \/ page.rules = Listed(rules')
        BY <1>0 DEF RulesFollowed
      <3>2. rules' = rules /\ \A d \in calls : ~ Editing(d)
        <4>1. ~ Editing(a)
          BY <2>6, <3>1
        <4>2. c.kind \in Edits => ~ e[1]
          BY <2>5, <4>1 DEF Editing
        <4>3. ~ Editing(c)
          BY <1>0, <2>5, <4>1 DEF Editing
        <4> QED
          BY <1>1, <1>2, <2>6, <3>1, <4>2, <4>3, CallTypes
      <3>3. CASE c.kind = "rules" /\ c.latest
        <4>1. Latest(calls', "rules") = {a}
          BY <2>5, <2>6, <3>3 DEF Latest, OneLatest, Followed, CallsInOrder
        <4> QED
          BY <2>5, <3>2, <3>3, <4>1
      <3>4. CASE ~ (c.kind = "rules" /\ c.latest)
        <4>1. Latest(calls', "rules") = Latest(calls, "rules") /\ elsewhere' = elsewhere
          BY <2>5, <2>6, <2>8, <3>4 DEF Latest
        <4> QED
          BY <3>1, <3>2, <4>1 DEF Followed, RulesFollowed
      <3> QED
        BY <3>3, <3>4
    <2>13. EventsFollowed'
      <3>1. CASE c.kind = "events" /\ c.latest
        <4>1. Latest(calls', "events") = {a}
          BY <2>5, <2>6, <3>1 DEF Latest, OneLatest, Followed, CallsInOrder
        <4> QED
          BY <1>0, <2>5, <3>1, <4>1 DEF EventsFollowed
      <3>2. CASE ~ (c.kind = "events" /\ c.latest)
        <4>1. Latest(calls', "events") = Latest(calls, "events") /\ missed' = missed
          BY <1>1, <2>5, <2>6, <3>2 DEF Latest, DashboardTypeOK
        <4> QED
          BY <1>0, <4>1 DEF Followed, EventsFollowed
      <3> QED
        BY <3>1, <3>2
    <2> QED
      BY <2>9, <2>10, <2>12, <2>13 DEF Followed
  <1> QED
    BY <1>3, <1>4

-----------------------------------------------------------------------------
(* Types, and the page, of the whole Console *)

\* The date of a key is NULL or positive, whatever wraps.
LEMMA ExpiryType ==
  ASSUME AccountsTypeOK, NEW d \in Days
  PROVE  Expiry(d) \in Nat
  <1>1. d \in Int /\ Day \in Int /\ IntMax \in Nat /\ now \in Int
    BY AccountsAssumption DEF AccountsTypeOK
  <1> DEFINE m == d * Day
  <1>2. m \in Int
    BY <1>1
  <1> HIDE DEF m
  <1>3. (m + IntMax + 1) % (2 * (IntMax + 1)) \in Int
    BY <1>1, <1>2
  <1>4. AsInt(m) \in Int
    BY <1>1, <1>3 DEF AsInt
  <1> HIDE DEF AsInt
  <1>5. now + AsInt(m) \in Int
    BY <1>1, <1>4
  <1> QED
    BY <1>5 DEF Expiry, Never, m

\* The keys of the database, and the generator.
LEMMA KeyTypes ==
  ASSUME AccountsTypeOK, CreateKey \/ \E k \in keys : DeleteKey(k.id),
         UNCHANGED <<now, sessions>>
  PROVE  AccountsTypeOK'
  <1>1. CASE CreateKey
    <2>1. PICK d \in Days :
            keys' \in {keys \cup {[id      |-> lastId',
                                   value   |-> generated',
                                   expires |-> Expiry(d),
                                   created |-> now,
                                   days    |-> d]},
                       keys}
      BY <1>1 DEF CreateKey
    <2>2. Expiry(d) \in Nat /\ now \in Nat
      BY ExpiryType, AccountsAssumption DEF AccountsTypeOK
    <2>3. /\ lastId' = lastId + 1 /\ generated' = generated + 1
          /\ lastId \in Nat /\ generated \in Nat /\ generated <= lastId
          /\ lastId' \in 0 .. MaxKeys
      BY <1>1, AccountsAssumption DEF CreateKey, AccountsTypeOK
    <2>4. \A k \in keys : k.id \in 1 .. lastId
      BY DEF AccountsTypeOK
    <2>5. keys' \subseteq [id : 1 .. lastId', value : Nat, expires : Nat,
                           created : Nat, days : Days]
      <3>1. lastId' \in 1 .. lastId' /\ generated' \in Nat
        BY <2>3
      <3>2. keys \subseteq [id : 1 .. lastId', value : Nat, expires : Nat,
                            created : Nat, days : Days]
        <4>1. 1 .. lastId \subseteq 1 .. lastId'
          BY <2>3
        <4> QED
          BY <4>1 DEF AccountsTypeOK
      <3> HIDE DEF Expiry
      <3> QED
        BY <2>1, <2>2, <3>1, <3>2
    <2>6. \A k, l \in keys' : k.id = l.id => k = l
      <3>1. lastId' \notin 1 .. lastId
        BY <2>3
      <3> QED
        BY <2>1, <2>4, <3>1 DEF AccountsTypeOK
    <2> QED
      BY <2>3, <2>5, <2>6 DEF AccountsTypeOK
  <1>2. CASE \E k \in keys : DeleteKey(k.id)
    BY <1>2 DEF DeleteKey, AccountsTypeOK
  <1> QED
    BY <1>1, <1>2

\* While the daemon is down it does nothing, and the map of rules is gone.
DownIsIdle == ~ up => job = NoJob /\ ~ telling /\ rules = {}

ServerInv ==
  /\ client \in Clients /\ up \in BOOLEAN /\ kills \in 0 .. MaxKills
  /\ AccountsTypeOK
  /\ PageInv
  /\ DownIsIdle

LEMMA ServerInit == Init => ServerInv
  <1> SUFFICES ASSUME Init PROVE ServerInv
    OBVIOUS
  <1>1. AccountsTypeOK
    BY AccountsAssumption DEF Init, AccountsInit, AccountsTypeOK
  <1>2. DashboardTypeOK
    <2>1. Len(sessions) = 0
      BY DEF Init, AccountsInit
    <2>2. page \in [at : {"login", "open"}, token : 0 .. Len(sessions),
                    rules : SUBSET Rule, events : SUBSET Nat, connected : BOOLEAN]
      BY <2>1 DEF Init, DashboardInit, LoginPage
    <2>3. page.at = "login" /\ ~ page.connected
      BY DEF Init, DashboardInit, LoginPage
    <2>4. /\ stored \in Seq(Nat) /\ Len(stored) <= MaxEvents /\ acts \in 0 .. MaxActs
          /\ changes \in 0 .. MaxChanges
      BY DashboardAssumption DEF Init, DashboardInit
    <2>5. /\ rules = {} /\ telling = FALSE /\ calls = {} /\ message = "none"
          /\ fresh = {} /\ elsewhere = FALSE /\ missed = FALSE
      BY DEF Init, DashboardInit
    <2> QED
      BY <2>2, <2>3, <2>4, <2>5 DEF DashboardTypeOK
  <1>3. Followed
    BY FS_EmptySet
       DEF Init, DashboardInit, LoginPage, Followed, CallsInOrder, OneLatest,
           RulesFollowed, EventsFollowed
  <1> QED
    BY <1>1, <1>2, <1>3, ConsoleAssumption DEF Init, PageInv, ServerInv, DownIsIdle

LEMMA ServerStep == ServerInv /\ [Next]_vars => ServerInv'
  <1> SUFFICES ASSUME ServerInv, [Next]_vars PROVE ServerInv'
    OBVIOUS
  <1> USE DEF ServerInv
  <1>1. CASE Browse
    <2>1. client \in Lists /\ KeptDaemon /\ UNCHANGED <<now, keyVars, policyVars>>
      BY <1>1 DEF Browse, Lists
    <2>2. CASE up /\ LogIn({client})
      <3>1. PageInv'
        BY <2>1, <2>2, LogInInv
      <3>2. AccountsTypeOK'
        BY <2>1, <2>2, AccountsAssumption
           DEF LogIn, OpenSession, AccountsTypeOK, keyVars
      <3> QED
        BY <2>1, <2>2, <3>1, <3>2 DEF KeptDaemon, DownIsIdle
    <2>3. CASE (\E c \in calls : Lose(c)) /\ UNCHANGED sessions
      <3>1. PageInv'
        BY <2>3, LoseInv
      <3>2. UNCHANGED <<telling, rules>>
        BY <2>3 DEF Lose
      <3> QED
        BY <2>1, <2>3, <3>1, <3>2
           DEF KeptDaemon, DownIsIdle, AccountsTypeOK, keyVars, policyVars
    <2> QED
      BY <1>1, <2>2, <2>3 DEF Browse
  <1>2. CASE Edit
    <2>1. PageInv'
      <3>1. CASE AddRule
        <4>1. PICK r \in Rule : r.proto # "other" /\ Act("add", r)
          BY <3>1 DEF AddRule
        <4>2. r.ip \in Ip
          BY <4>1 DEF Rule
        <4> QED
          BY <1>2, <4>1, <4>2, ActInv DEF Edit
      <3>2. CASE DeleteRule
        <4>1. PICK r \in page.rules : Act("delete", Identifier(r))
          BY <3>2 DEF DeleteRule
        <4>2. r \in Rule /\ r # ZeroRule
          BY PageTypes DEF PageInv, Followed, CallsInOrder
        <4>3. Identifier(r) \in Rule /\ Identifier(r).ip \in Ip
          BY <4>2 DEF Identifier, Rule, ZeroRule
        <4> HIDE DEF Identifier
        <4> QED
          BY <1>2, <4>1, <4>3, ActInv DEF Edit
      <3>3. CASE BlockIP
        <4>1. PICK ip \in Ip : Act("block", [ip |-> ip, proto |-> "tcp"])
          BY <3>3 DEF BlockIP
        <4>2. [ip |-> ip, proto |-> "tcp"] \in Rule
          BY DEF Rule
        <4> QED
          BY <1>2, <4>1, <4>2, ActInv DEF Edit
      <3>4. CASE \E r \in Rule : Change(r)
        BY <1>2, <3>4, ChangeInv DEF Edit
      <3> QED
        BY <1>2, <3>1, <3>2, <3>3, <3>4 DEF Edit
    <2>2. DownIsIdle'
      BY <1>2 DEF Edit, KeptDaemon, AddRule, DeleteRule, BlockIP, Act, DownIsIdle,
                  policyVars
    <2> QED
      BY <1>2, <2>1, <2>2 DEF Edit, KeptDaemon, AccountsTypeOK, keyVars
  <1>3. CASE Watch
    BY <1>3, MessageInv DEF Watch, KeptDaemon, AccountsTypeOK, keyVars, DownIsIdle
  <1>4. CASE Serve
    BY <1>4, HandleInv DEF Serve, KeptDaemon, AccountsTypeOK, keyVars, DownIsIdle
  <1>5. CASE Answer
    <2>1. PICK c \in calls : Deliver(c)
      BY <1>5 DEF Answer
    <2>2. PageInv'
      BY <1>5, <2>1, DeliverInv DEF Answer
    <2>3. UNCHANGED <<telling, rules>>
      BY <2>1 DEF Deliver, ShowRules, Leave, ShowEvents, Edited, BlockedTcp, BlockedUdp
    <2> QED
      BY <1>5, <2>2, <2>3
         DEF Answer, KeptDaemon, AccountsTypeOK, keyVars, DownIsIdle, policyVars
  <1>6. CASE Broadcast
    BY <1>6, MessageInv
       DEF Broadcast, Tell, KeptDaemon, AccountsTypeOK, keyVars, DownIsIdle, policyVars
  <1>7. CASE See
    <2>1. PageInv'
      BY <1>7, MessageInv, SeeEventInv DEF See
    <2>2. UNCHANGED <<telling, rules>>
      BY <1>7 DEF See, SeeEvent, SeeTraffic
    <2> QED
      BY <1>7, <2>1, <2>2
         DEF See, KeptDaemon, AccountsTypeOK, keyVars, DownIsIdle, policyVars
  <1>8. CASE Operate \/ Proceed
    <2>1. KeptDaemon /\ UNCHANGED <<now, sessions, keyVars, dashboardVars>>
      BY <1>8 DEF Operate, Proceed
    <2>2. PageInv' /\ AccountsTypeOK'
      BY <2>1 DEF dashboardVars, keyVars, AccountsTypeOK, PageInv, DashboardTypeOK,
         Followed, CallsInOrder, RulesFollowed, EventsFollowed
    <2>3. up \/ job' = job
      BY <1>8 DEF Operate, Proceed, PolicyStep, Write, Copy, Fill, Unlink, Restart,
         Read, StartAnew, JobAt, DownIsIdle
    <2> QED
      BY <2>1, <2>2, <2>3 DEF KeptDaemon, DownIsIdle, dashboardVars
  <1>9. CASE Manage
    <2>1. KeptDaemon /\ UNCHANGED <<now, sessions, dashboardVars, policyVars>>
      BY <1>9 DEF Manage
    <2>2. PageInv' /\ DownIsIdle'
      BY <2>1 DEF dashboardVars, policyVars, KeptDaemon, PageInv, DashboardTypeOK,
         Followed, CallsInOrder, RulesFollowed, EventsFollowed, DownIsIdle
    <2>3. AccountsTypeOK'
      BY <1>9, <2>1, KeyTypes DEF Manage
    <2> QED
      BY <2>1, <2>2, <2>3 DEF KeptDaemon
  <1>10. CASE Pass \/ Launch \/ UNCHANGED vars
    <2>1. UNCHANGED <<client, sessions, kills, dashboardVars, policyVars>>
      BY <1>10 DEF Pass, Launch, KeptDaemon, vars
    <2>2. PageInv'
      BY <2>1 DEF dashboardVars, PageInv, DashboardTypeOK,
         Followed, CallsInOrder, RulesFollowed, EventsFollowed
    <2>3. AccountsTypeOK'
      <3>1. now' \in Epoch .. Epoch + MaxClock
        BY <1>10, AccountsAssumption DEF Pass, Tick, Launch, vars, AccountsTypeOK
      <3>2. generated' \in 0 .. lastId /\ UNCHANGED <<keys, lastId>>
        <4>1. lastId \in Nat
          BY AccountsAssumption DEF AccountsTypeOK
        <4> QED
          BY <1>10, <4>1 DEF Pass, Launch, Reseed, vars, keyVars, AccountsTypeOK
      <3> QED
        BY <2>1, <3>1, <3>2 DEF AccountsTypeOK
    <2>4. up' \in BOOLEAN /\ DownIsIdle'
      BY <1>10, <2>1 DEF Pass, Launch, KeptDaemon, vars, dashboardVars, policyVars,
         DownIsIdle
    <2> QED
      BY <2>1, <2>2, <2>3, <2>4
  <1>11. CASE Kill \/ PowerCut
    <2>1. Down /\ job' = NoJob
      BY <1>11 DEF Kill, PowerCut, KillJob, Reboot
    <2>2. PageInv'
      BY <2>1, GoneInv DEF Down
    <2>3. kills' \in 0 .. MaxKills /\ up' = FALSE /\ UNCHANGED client
      BY <2>1, ConsoleAssumption DEF Down
    <2>4. AccountsTypeOK'
      BY <2>1 DEF Down, keyVars, AccountsTypeOK
    <2>5. DownIsIdle'
      BY <2>1 DEF Down, DaemonGone, DownIsIdle
    <2> QED
      BY <2>2, <2>3, <2>4, <2>5
  <1> QED
    BY <1>1, <1>2, <1>3, <1>4, <1>5, <1>6, <1>7, <1>8, <1>9, <1>10, <1>11 DEF Next

LEMMA ServerAlways == Spec => []ServerInv
  BY ServerInit, ServerStep, PTL DEF Spec

\* Every variable of the server, the page, the policies and the accounts keeps
\* its type, and nothing of the daemon outlives it that should not.
THEOREM TypesAlways == Spec => []TypeOK
  <1>1. ServerInv /\ PolicyInv => TypeOK
    BY DEF ServerInv, PageInv, PolicyInv, DownIsIdle, TypeOK
  <1> QED
    BY <1>1, ServerAlways, PolicyInvAlways, PTL

\* Whatever calls are in flight together, refused or lost, when nothing is under
\* way the page shows the rules that the server lists (app.ts:166-176,
\* 240-275, 277-333).
THEOREM RulesShownAlways == Spec => []RulesShown
  <1>1. ServerInv => RulesShown
    <2> SUFFICES ASSUME ServerInv, page.at = "open", AtRest, "rules" \in fresh,
                        ~ elsewhere
                 PROVE  page.rules = Listed(rules)
      BY DEF RulesShown
    <2> QED
      BY DEF ServerInv, PageInv, Followed, RulesFollowed, AtRest, Latest
  <1> QED
    BY <1>1, ServerAlways, PTL

\* And the newest of the events that are stored, as many as it asks for and for
\* any number of them, although the answer and the message about an event
\* overtake each other (app.ts:127-135, 477-489; database.c:677;
\* tetragon_events.c:205-264).
THEOREM EventsShownAlways == Spec => []EventsShown
  <1>1. ServerInv => EventsShown
    <2> SUFFICES ASSUME ServerInv, page.at = "open", AtRest, "events" \in fresh,
                        ~ missed
                 PROVE  /\ page.events \subseteq DOMAIN stored
                        /\ \A late \in DOMAIN stored \ page.events :
                             /\ Cardinality(page.events) = EventLimit
                             /\ \A i \in page.events : stored[late] <= stored[i]
      BY DEF EventsShown
    <2>1. page.events \in Newest(stored)
      BY DEF ServerInv, PageInv, Followed, EventsFollowed, AtRest, Latest
    <2>2. stored \in Seq(Nat)
      BY DEF ServerInv, PageInv, DashboardTypeOK
    <2> QED
      BY <2>1, <2>2, NewestLeavesOut
  <1> QED
    BY <1>1, ServerAlways, PTL
=============================================================================
