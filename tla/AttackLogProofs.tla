--------------------------- MODULE AttackLogProofs ---------------------------
(***************************************************************************)
(* Proofs about the record of attacks, for any number of CPUs and requests *)
(* and an array of any size: it has no holes, a report mixes no two of its *)
(* attacks, later reports are no shorter, and only overlapping updates and *)
(* a full array lose attacks.                                              *)
(***************************************************************************)
EXTENDS AttackLog, TLAPS

LogStates == [at : {"idle", "write", "bump"}, slot : Slot,
              attack : Attack \cup {Empty}, left : SUBSET Half]

LEMMA Sizes ==
  /\ MaxAttacks \in Nat \ {0}
  /\ MaxDetected \in Nat
  /\ 0 \in Slot
  /\ MaxAttacks - 1 \in Slot
  BY AttackLogAssumption DEF Slot

\* A walk in progress has copied something, and nothing else has.
Walking ==
  /\ key = -1 => found = <<>>
  /\ Len(found) <= key \/ key = -1
  /\ key # -1 => key \in Slot

LogTypes == LogTypeOK /\ Walking

LEMMA Member ==
  ASSUME NEW s \in Seq(Whole), NEW i \in DOMAIN s, NEW h \in Half
  PROVE  s[i][h] \in Attack /\ s[i][h] \in Int /\ s[i][h] # Empty
  <1>1. s[i] \in Whole
    OBVIOUS
  <1>2. MaxDetected \in Nat
    BY AttackLogAssumption
  <1> QED
    BY <1>1, <1>2 DEF Attack, Whole, Empty

\* A record is whole when both its halves were written, and blank when none was.
LEMMA Halves ==
  ASSUME NEW r \in Content
  PROVE  /\ r \in Whole <=> \A h \in Half : r[h] # Empty
         /\ r = Blank <=> \A h \in Half : r[h] = Empty
         /\ r \in Whole <=> NonZero(r)
         /\ \A h \in Half : r[h] \in Int
  <1>1. \A h \in Half : r[h] \in Attack \cup {Empty}
    BY DEF Content
  <1>2. Empty \notin Attack /\ \A a \in Attack \cup {Empty} : a \in Int
    BY Sizes DEF Attack, Empty
  <1>3. r \in Whole <=> \A h \in Half : r[h] # Empty
    BY <1>1, <1>2 DEF Content, Whole
  <1>4. r = Blank <=> \A h \in Half : r[h] = Empty
    BY <1>1 DEF Content, Blank, Record
  <1> QED
    BY <1>1, <1>2, <1>3, <1>4 DEF NonZero, Half

LEMMA LogTypesInit == LogInit => LogTypes
  <1> SUFFICES ASSUME LogInit PROVE LogTypes
    OBVIOUS
  <1> USE Sizes DEF LogInit
  <1>1. Blank \in Content
    BY DEF Blank, Record, Content
  <1>2. recording \in [Recorder -> LogStates]
    BY DEF LogIdle, LogStates
  <1>3. found \in Seq(Whole) /\ report \in Seq(Whole)
    OBVIOUS
  <1>4. Walking
    BY DEF Walking
  <1>5. /\ count \in 0 .. MaxAttacks /\ detected \in 0 .. MaxDetected
        /\ overlaps \in 0 .. detected
        /\ key \in Slot \cup {-1} /\ toCopy \subseteq Half /\ longest \in Nat
        /\ known \subseteq Attack /\ covered \subseteq Attack
    OBVIOUS
  <1> QED
    BY <1>1, <1>2, <1>3, <1>4, <1>5 DEF LogTypes, LogTypeOK, LogStates

\* What the steps of an update change.
LEMMA DetectFacts ==
  ASSUME LogTypes, NEW c \in Recorder, Detect(c)
  PROVE  /\ ~ Busy(c) /\ Busy(c)'
         /\ detected < MaxDetected /\ detected' = detected + 1
         /\ recording'[c] = [at |-> "write", slot |-> FreeSlot(count),
                             attack |-> detected + 1, left |-> Half]
         /\ recording' \in [Recorder -> LogStates]
         /\ \A d \in Recorder \ {c} : recording'[d] = recording[d]
         /\ overlaps' = IF \E d \in Recorder : Busy(d) THEN overlaps + 1
                        ELSE overlaps
         /\ UNCHANGED <<info, count, walking>>
  <1>1. FreeSlot(count) \in Slot /\ detected + 1 \in Attack
    BY Sizes DEF Detect, LogTypes, LogTypeOK, FreeSlot, Slot, Attack
  <1> QED
    BY <1>1 DEF Detect, LogTypes, LogTypeOK, LogStates, Busy

LEMMA WriteFacts ==
  ASSUME LogTypes, NEW c \in Recorder, NEW h \in Half, Write(c, h)
  PROVE  /\ recording[c].at = "write" /\ h \in recording[c].left
         /\ recording[c].slot \in Slot
         /\ info' \in [Slot -> Content]
         /\ \A s \in Slot, g \in Half :
              info'[s][g] = IF s = recording[c].slot /\ g = h
                            THEN recording[c].attack ELSE info[s][g]
         /\ \A s \in Slot : s # recording[c].slot => info'[s] = info[s]
         /\ recording' \in [Recorder -> LogStates]
         /\ recording'[c].at \in {"write", "bump"}
         /\ recording'[c].at = "bump" <=> recording[c].left = {h}
         /\ recording'[c].left = recording[c].left \ {h}
         /\ recording'[c].slot = recording[c].slot
         /\ recording'[c].attack = recording[c].attack
         /\ \A d \in Recorder \ {c} : recording'[d] = recording[d]
         /\ \A d \in Recorder : Busy(d)' <=> Busy(d)
         /\ UNCHANGED <<count, detected, overlaps, walking>>
  <1>1. /\ recording[c] \in LogStates
        /\ recording[c].slot \in Slot
        /\ recording[c].attack \in Attack \cup {Empty}
        /\ recording[c].left \in SUBSET Half
    BY DEF LogTypes, LogTypeOK, LogStates
  <1>2. info \in [Slot -> Content] /\ info[recording[c].slot] \in Content
    BY <1>1 DEF LogTypes, LogTypeOK
  <1>3. info' = [info EXCEPT ![recording[c].slot] =
                   [info[recording[c].slot] EXCEPT ![h] = recording[c].attack]]
    BY <1>1, <1>2 DEF Write
  <1>4. [info[recording[c].slot] EXCEPT ![h] = recording[c].attack] \in Content
    BY <1>1, <1>2 DEF Content
  <1>5. info' \in [Slot -> Content]
    BY <1>2, <1>3, <1>4
  <1>6. \A s \in Slot : s # recording[c].slot => info'[s] = info[s]
    BY <1>2, <1>3
  <1>7. info'[recording[c].slot]
          = [info[recording[c].slot] EXCEPT ![h] = recording[c].attack]
    BY <1>1, <1>2, <1>3
  <1>8. \A s \in Slot, g \in Half :
          info'[s][g] = IF s = recording[c].slot /\ g = h
                        THEN recording[c].attack ELSE info[s][g]
    BY <1>2, <1>6, <1>7 DEF Content
  <1> DEFINE at == IF recording[c].left = {h} THEN "bump" ELSE "write"
  <1>9. recording' = [recording EXCEPT ![c].left = @ \ {h}, ![c].at = at]
    BY DEF Write
  <1>10. at \in {"write", "bump"}
    OBVIOUS
  <1> HIDE DEF at
  <1>11. recording' \in [Recorder -> LogStates]
    BY <1>1, <1>9, <1>10 DEF LogStates, LogTypes, LogTypeOK
  <1>12. /\ recording'[c].at = at
         /\ recording'[c].left = recording[c].left \ {h}
         /\ recording'[c].slot = recording[c].slot
         /\ recording'[c].attack = recording[c].attack
         /\ \A d \in Recorder \ {c} : recording'[d] = recording[d]
    BY <1>1, <1>9 DEF LogStates, LogTypes, LogTypeOK
  <1>13. recording[c].at = "write" /\ \A d \in Recorder : Busy(d)' <=> Busy(d)
    BY <1>10, <1>12 DEF Write, Busy
  <1> QED
    BY <1>1, <1>5, <1>6, <1>8, <1>11, <1>12, <1>13 DEF Write, at

LEMMA BumpFacts ==
  ASSUME LogTypes, NEW c \in Recorder, Bump(c)
  PROVE  /\ recording[c].at = "bump" /\ Busy(c) /\ ~ Busy(c)'
         /\ recording[c].slot \in Slot
         /\ count' = recording[c].slot + 1
         /\ recording'[c].at = "idle"
         /\ recording' \in [Recorder -> LogStates]
         /\ \A d \in Recorder \ {c} : recording'[d] = recording[d]
         /\ UNCHANGED <<info, detected, overlaps, walking>>
  BY Sizes DEF Bump, LogIdle, LogStates, LogTypes, LogTypeOK, Busy, Slot, Empty

LEMMA LogTypesStep == LogTypes /\ [LogNext]_logVars => LogTypes'
  <1> SUFFICES ASSUME LogTypes, [LogNext]_logVars PROVE LogTypes'
    OBVIOUS
  <1> USE Sizes DEF LogTypes, LogTypeOK, Walking
  <1>1. ASSUME NEW c \in Recorder, Detect(c) PROVE LogTypes'
    <2>1. overlaps' \in {overlaps, overlaps + 1} /\ detected < MaxDetected
      BY <1>1 DEF Detect
    <2>2. detected + 1 \in 0 .. MaxDetected /\ overlaps' \in 0 .. detected + 1
      BY <2>1
    <2> QED
      BY <1>1, <2>2, DetectFacts DEF LogStates, walking
  <1>2. ASSUME NEW c \in Recorder, NEW h \in Half, Write(c, h) PROVE LogTypes'
    BY <1>2, WriteFacts DEF LogStates, walking
  <1>3. ASSUME NEW c \in Recorder, Bump(c) PROVE LogTypes'
    <2>1. recording[c].slot + 1 \in 0 .. MaxAttacks
      BY DEF Slot
    <2> QED
      BY <1>3, <2>1, BumpFacts DEF LogStates, walking
  <1>4. CASE Begin
    <2>1. Recorded \subseteq Attack
      BY DEF Recorded, Attack
    <2>2. Blank \in Content
      BY DEF Blank, Record, Content
    <2> QED
      BY <1>4, <2>1, <2>2 DEF Begin, writing
  <1>5. CASE Refuse
    BY <1>5 DEF Refuse, writing
  <1>6. ASSUME NEW h \in Half, Copy(h) PROVE LogTypes'
    <2>1. key + 1 \in Slot
      BY <1>6 DEF Copy, HasNext, Slot
    <2>2. copied' \in Content
      BY <1>6, <2>1 DEF Copy, Content
    <2> QED
      BY <1>6, <2>2 DEF Copy, writing
  <1>7. CASE Scan
    <2>1. NonZero(copied) => copied \in Whole
      BY Halves
    <2>2. Blank \in Content
      BY DEF Blank, Record, Content
    <2>3. key' \in Slot
      BY <1>7 DEF Scan, HasNext, Slot
    <2>4. found' \in Seq(Whole) /\ Len(found') <= key'
      BY <1>7, <2>1 DEF Scan, Slot
    <2> QED
      BY <1>7, <2>2, <2>3, <2>4 DEF Scan, writing
  <1>8. CASE Answer
    BY <1>8 DEF Answer, writing
  <1>9. CASE UNCHANGED logVars
    BY <1>9 DEF logVars, writing, walking
  <1> QED
    BY <1>1, <1>2, <1>3, <1>4, <1>5, <1>6, <1>7, <1>8, <1>9
    DEF LogNext, Update, Request

-----------------------------------------------------------------------------
(* No holes *)

\* Whoever records an attack has whole elements before the one it goes to, has
\* written the halves it no longer has to, and both before it stores the count.
Prefix ==
  \A c \in Recorder :
    /\ Busy(c) => \A s \in Slot : s < recording[c].slot => info[s] \in Whole
    /\ recording[c].at = "write" =>
         \A h \in Half \ recording[c].left : info[recording[c].slot][h] # Empty
    /\ recording[c].at = "bump" => info[recording[c].slot] \in Whole

\* The attack that is being recorded is one.
Real == \A c \in Recorder : Busy(c) => recording[c].attack \in 1 .. detected

Filled == LogTypes /\ NoHoles /\ Prefix /\ Real

LEMMA FilledInit == LogInit => Filled
  <1> SUFFICES ASSUME LogInit PROVE NoHoles /\ Prefix /\ Real
    BY LogTypesInit DEF Filled
  <1> QED
    BY Sizes DEF LogInit, NoHoles, Prefix, Real, Busy, LogIdle, Slot

\* Halves that are written stay so.
LEMMA StaysUsed ==
  ASSUME Filled, [LogNext]_logVars, NEW s \in Slot
  PROVE  /\ \A h \in Half : info[s][h] # Empty => info'[s][h] # Empty
         /\ info[s] \in Whole => info'[s] \in Whole
  <1>1. info[s] \in Content /\ info'[s] \in Content
    BY LogTypesStep DEF Filled, LogTypes, LogTypeOK
  <1>2. ASSUME NEW h \in Half, info[s][h] # Empty PROVE info'[s][h] # Empty
    <2>1. ASSUME NEW c \in Recorder, NEW g \in Half, Write(c, g)
          PROVE  info'[s][h] # Empty
      <3>1. recording[c].attack # Empty
        BY <2>1 DEF Write, Filled, LogTypes, LogTypeOK, Real, Busy, Empty
      <3> QED
        BY <1>2, <2>1, <3>1, WriteFacts DEF Filled
    <2>2. CASE UNCHANGED info
      BY <1>2, <2>2
    <2> QED
      BY <2>1, <2>2
      DEF LogNext, Update, Request, Detect, Bump, Begin, Refuse, Copy, Scan,
          Answer, logVars, writing
  <1> QED
    BY <1>1, <1>2, Halves

LEMMA FilledStep == Filled /\ [LogNext]_logVars => Filled'
  <1> SUFFICES ASSUME Filled, [LogNext]_logVars PROVE Filled'
    OBVIOUS
  <1>0. /\ LogTypes /\ LogTypes' /\ NoHoles /\ Prefix /\ Real
        /\ \A s \in Slot : info[s] \in Content /\ info'[s] \in Content
    BY LogTypesStep DEF Filled, LogTypes, LogTypeOK
  <1>1. ASSUME NEW c \in Recorder, Detect(c)
        PROVE  NoHoles' /\ Prefix' /\ Real'
    <2> USE <1>0, <1>1, DetectFacts
    <2>1. NoHoles'
      BY DEF NoHoles
    <2>2. \A s \in Slot : s < FreeSlot(count) => info[s] \in Whole
      BY Sizes DEF NoHoles, FreeSlot, Slot, LogTypes, LogTypeOK
    <2>3. Prefix'
      BY <2>2 DEF Prefix, Busy
    <2>4. detected \in Nat
      BY DEF LogTypes, LogTypeOK
    <2>5. Real'
      BY <2>4 DEF Real, Busy
    <2> QED
      BY <2>1, <2>3, <2>5
  <1>2. ASSUME NEW c \in Recorder, NEW h \in Half, Write(c, h)
        PROVE  NoHoles' /\ Prefix' /\ Real'
    <2> DEFINE slot == recording[c].slot
    <2>1. /\ recording[c].at = "write" /\ h \in recording[c].left /\ slot \in Slot
          /\ \A s \in Slot, g \in Half :
               info'[s][g] = IF s = slot /\ g = h
                             THEN recording[c].attack ELSE info[s][g]
          /\ \A s \in Slot : s # slot => info'[s] = info[s]
          /\ recording'[c].at \in {"write", "bump"}
          /\ recording'[c].at = "bump" <=> recording[c].left = {h}
          /\ recording'[c].left = recording[c].left \ {h}
          /\ recording'[c].slot = slot
          /\ recording'[c].attack = recording[c].attack
          /\ \A d \in Recorder \ {c} : recording'[d] = recording[d]
          /\ \A d \in Recorder : Busy(d)' <=> Busy(d)
          /\ count' = count /\ detected' = detected
      BY <1>0, <1>2, WriteFacts
    <2>2. Busy(c) /\ recording[c].attack # Empty
      BY <1>0, <2>1 DEF Real, Busy, Empty
    <2>3. info'[slot][h] # Empty
      BY <2>1, <2>2
    <2> HIDE DEF slot
    <2>4. NoHoles'
      <3> SUFFICES ASSUME NEW s \in Slot,
                          s < count \/ \E t \in Slot : s < t /\ info'[t] # Blank
                   PROVE  info'[s] \in Whole
        BY <2>1 DEF NoHoles
      <3>1. CASE s < count
        BY <1>0, <3>1, StaysUsed DEF NoHoles
      <3>2. ASSUME NEW t \in Slot, s < t, info'[t] # Blank
            PROVE  info[s] \in Whole
        <4>1. CASE t = slot
          BY <1>0, <2>2, <3>2, <4>1 DEF Prefix, slot
        <4>2. CASE t # slot
          BY <1>0, <2>1, <3>2, <4>2 DEF NoHoles
        <4> QED
          BY <4>1, <4>2
      <3> QED
        BY <3>1, <3>2, StaysUsed
    <2>5. Prefix'
      <3> SUFFICES ASSUME NEW d \in Recorder
                   PROVE
            /\ Busy(d)' => \A s \in Slot :
                 s < recording'[d].slot => info'[s] \in Whole
            /\ recording'[d].at = "write" =>
                 \A g \in Half \ recording'[d].left :
                   info'[recording'[d].slot][g] # Empty
            /\ recording'[d].at = "bump" => info'[recording'[d].slot] \in Whole
        BY DEF Prefix
      <3>1. recording'[d].slot = recording[d].slot /\ recording[d].slot \in Slot
        BY <1>0, <2>1 DEF LogTypes, LogTypeOK, slot
      <3>2. Busy(d)' => \A s \in Slot :
              s < recording'[d].slot => info'[s] \in Whole
        BY <1>0, <2>1, <3>1, StaysUsed DEF Prefix
      <3>3. CASE d # c
        BY <1>0, <2>1, <3>1, <3>2, <3>3, StaysUsed DEF Prefix
      <3>4. CASE d = c
        <4>1. \A g \in Half \ recording[c].left : info'[slot][g] # Empty
          BY <1>0, <2>1, StaysUsed DEF Prefix, slot
        <4>2. \A g \in Half \ (recording[c].left \ {h}) : info'[slot][g] # Empty
          BY <2>3, <4>1
        <4>3. recording[c].left = {h} => info'[slot] \in Whole
          BY <1>0, <2>1, <4>2, Halves
        <4> QED
          BY <2>1, <3>2, <3>4, <4>2, <4>3 DEF slot
      <3> QED
        BY <3>3, <3>4
    <2>6. Real'
      <3> SUFFICES ASSUME NEW d \in Recorder, Busy(d)'
                   PROVE  recording'[d].attack \in 1 .. detected'
        BY DEF Real
      <3> QED
        BY <1>0, <2>1 DEF Real
    <2> QED
      BY <2>4, <2>5, <2>6
  <1>3. ASSUME NEW c \in Recorder, Bump(c)
        PROVE  NoHoles' /\ Prefix' /\ Real'
    <2> USE <1>0, <1>3, BumpFacts
    <2>1. NoHoles'
      <3>1. \A s \in Slot : s < count' => info[s] \in Whole
        BY DEF Prefix, Slot
      <3> QED
        BY <3>1 DEF NoHoles
    <2>2. Prefix'
      BY DEF Prefix, Busy
    <2>3. Real'
      BY DEF Real, Busy
    <2> QED
      BY <2>1, <2>2, <2>3
  <1>4. CASE UNCHANGED <<info, count, recording, detected>>
    <2>1. NoHoles'
      BY <1>0, <1>4 DEF NoHoles
    <2>2. Prefix'
      BY <1>0, <1>4 DEF Prefix, Busy
    <2>3. Real'
      BY <1>0, <1>4 DEF Real, Busy
    <2> QED
      BY <1>0, <2>1, <2>2, <2>3 DEF Filled
  <1> QED
    BY <1>0, <1>1, <1>2, <1>3, <1>4
    DEF Filled, LogNext, Update, Request, Begin, Refuse, Copy, Scan, Answer,
        logVars, writing

-----------------------------------------------------------------------------
(* Reports *)

\* Behind key 0 there are as many whole elements as the longest report shows,
\* and a walk finds all of them: it has found as many as it has passed, and
\* what it copies of an element that the longest report shows is not empty.
Shown ==
  /\ longest < MaxAttacks
  /\ \A s \in Slot : 0 < s /\ s <= longest => info[s] \in Whole
  /\ \A s \in Slot : 0 < s /\ s <= Len(found) => info[s] \in Whole
  /\ key # -1 => Len(found) >= key \/ Len(found) >= longest
  /\ key # -1 /\ HasNext(key) => \A h \in Half :
       /\ key + 1 <= longest /\ h \notin toCopy => copied[h] # Empty
       /\ copied[h] # Empty => info[key + 1][h] # Empty

Reported == Filled /\ Shown

LEMMA ReportedInit == LogInit => Reported
  BY FilledInit, Sizes DEF LogInit, Reported, Shown, Slot

\* The element that is kept is whole, and so are those before it.
LEMMA ScanShows == Reported /\ Scan => Shown'
  <1> SUFFICES ASSUME Reported, Scan PROVE Shown'
    OBVIOUS
  <1>0. /\ NoHoles /\ Shown
        /\ \A s \in Slot : info[s] \in Content
        /\ copied \in Content /\ found \in Seq(Whole) /\ longest \in Nat
        /\ \A h \in Half : h \notin toCopy
    BY DEF Reported, Filled, LogTypes, LogTypeOK, Scan
  <1>1. /\ key # -1 /\ HasNext(key) /\ key \in Slot
        /\ key + 1 \in Slot /\ key' = key + 1 /\ Len(found) <= key
        /\ info' = info /\ longest' = longest
        /\ toCopy' = Half /\ copied' = Blank
        /\ found' = IF NonZero(copied) THEN Append(found, copied) ELSE found
    BY Sizes DEF Reported, Filled, LogTypes, LogTypeOK, Walking, Scan, HasNext,
                 Slot, writing
  <1>2. \A h \in Half : Blank[h] = Empty
    BY DEF Blank, Record
  <1>3. CASE NonZero(copied)
    <2>1. Len(found') = Len(found) + 1
      BY <1>0, <1>1, <1>3
    <2>2. \A h \in Half : info[key + 1][h] # Empty
      BY <1>0, <1>1, <1>3, Halves DEF Shown
    <2>3. info[key + 1] \in Whole /\ info[key + 1] # Blank
      BY <1>0, <1>1, <2>2, Halves DEF Half
    <2>4. \A s \in Slot : s <= key + 1 => info[s] \in Whole
      BY <1>0, <1>1, <2>3 DEF NoHoles, Slot
    <2> QED
      BY <1>0, <1>1, <1>2, <2>1, <2>4 DEF Shown, Slot
  <1>4. CASE ~ NonZero(copied)
    <2>1. found' = found
      BY <1>1, <1>4
    <2>2. ~ (key + 1 <= longest)
      BY <1>0, <1>1, <1>4, Halves DEF Shown
    <2> QED
      BY <1>0, <1>1, <1>2, <2>1, <2>2 DEF Shown, Slot
  <1> QED
    BY <1>3, <1>4

LEMMA CopyShows == ASSUME NEW g \in Half PROVE Reported /\ Copy(g) => Shown'
  <1> SUFFICES ASSUME Reported, Copy(g) PROVE Shown'
    OBVIOUS
  <1>0. /\ Shown /\ copied \in Content
        /\ \A s \in Slot : info[s] \in Content
        /\ key # -1 /\ HasNext(key) /\ key \in Slot /\ key + 1 \in Slot
        /\ longest \in Nat
        /\ UNCHANGED <<info, key, found, longest>>
        /\ copied' = [copied EXCEPT ![g] = info[key + 1][g]]
        /\ toCopy' = toCopy \ {g}
    BY Sizes DEF Reported, Filled, LogTypes, LogTypeOK, Walking, Copy, HasNext,
                 Slot, writing
  <1>1. \A h \in Half : copied'[h] = IF h = g THEN info[key + 1][g] ELSE copied[h]
    BY <1>0 DEF Content
  <1>2. 0 < key + 1
    BY <1>0 DEF Slot
  <1>3. key + 1 <= longest => info[key + 1][g] # Empty
    BY <1>0, <1>2, Halves DEF Shown
  <1> QED
    BY <1>0, <1>1, <1>3 DEF Shown

LEMMA ReportedStep == Reported /\ [LogNext]_logVars => Reported'
  <1> SUFFICES ASSUME Reported, [LogNext]_logVars PROVE Shown'
    BY FilledStep DEF Reported
  <1>0. /\ Filled /\ Shown /\ longest \in Nat /\ found \in Seq(Whole)
        /\ \A s \in Slot : info[s] \in Content
        /\ key = -1 => found = <<>>
        /\ key # -1 => key \in Slot /\ Len(found) <= key
    BY DEF Reported, Filled, LogTypes, LogTypeOK, Walking
  <1>1. CASE UNCHANGED <<key, found, longest, toCopy, copied>>
    <2>1. \A s \in Slot :
            /\ info[s] \in Whole => info'[s] \in Whole
            /\ \A h \in Half : info[s][h] # Empty => info'[s][h] # Empty
      BY <1>0, StaysUsed
    <2>2. key # -1 /\ HasNext(key) => key + 1 \in Slot
      BY <1>0, Sizes DEF HasNext, Slot
    <2> QED
      BY <1>0, <1>1, <2>1, <2>2 DEF Shown
  <1>2. CASE Begin
    <2>1. \A h \in Half : Blank[h] = Empty
      BY DEF Blank, Record
    <2> QED
      BY <1>0, <1>2, <2>1, Sizes DEF Begin, Shown, Slot, writing
  <1>3. CASE Scan
    BY <1>3, ScanShows
  <1>4. ASSUME NEW h \in Half, Copy(h) PROVE Shown'
    BY <1>4, CopyShows
  <1>5. CASE Answer
    <2>1. /\ key' = -1 /\ info' = info /\ found' = <<>>
          /\ longest' = IF Len(found) > longest THEN Len(found) ELSE longest
          /\ key # -1
      BY <1>5 DEF Answer, writing
    <2>2. Len(found) < MaxAttacks
      BY <1>0, <2>1, Sizes DEF Slot
    <2> QED
      BY <1>0, <2>1, <2>2, Sizes DEF Shown, Slot
  <1> QED
    BY <1>1, <1>2, <1>3, <1>4, <1>5
    DEF LogNext, Update, Request, Detect, Write, Bump, Refuse, logVars, writing,
        walking

LEMMA ReportGrows ==
  Reported /\ [LogNext]_logVars =>
    [key # -1 /\ key' = -1 => Len(report') >= longest]_logVars
  <1> SUFFICES ASSUME Reported, [LogNext]_logVars, key # -1, key' = -1
               PROVE  Len(report') >= longest
    OBVIOUS
  <1>1. Answer
    <2>1. key \in Nat
      BY DEF Reported, Filled, LogTypes, LogTypeOK, Slot
    <2>2. ~ Begin /\ ~ Refuse /\ ~ Scan /\ \A h \in Half : ~ Copy(h)
      BY <2>1 DEF Begin, Refuse, Scan, Copy
    <2>3. \A c \in Recorder : ~ Update(c)
      BY DEF Update, Detect, Write, Bump, walking
    <2> QED
      BY <2>2, <2>3 DEF LogNext, Request, logVars, walking
  <1>2. key = MaxAttacks - 1
    BY <1>1, Sizes
    DEF Answer, HasNext, Reported, Filled, LogTypes, LogTypeOK, Walking, Slot
  <1> QED
    BY <1>1, <1>2, Sizes
    DEF Answer, Reported, Shown, Filled, LogTypes, LogTypeOK, Slot

-----------------------------------------------------------------------------
(* Genuine reports *)

\* Each attack goes to one element: no other holds a half of it.
Once ==
  /\ \A c, d \in Recorder :
       Busy(c) /\ Busy(d) /\ c # d => recording[c].attack # recording[d].attack
  /\ \A c \in Recorder, s \in Slot, h \in Half :
       Busy(c) /\ info[s][h] = recording[c].attack => s = recording[c].slot
  /\ \A s, t \in Slot, g, h \in Half :
       info[s][g] # Empty /\ info[s][g] = info[t][h] => s = t
  /\ \A s \in Slot, h \in Half : info[s][h] <= detected

\* Nor does the walk find two halves of it in two records: what it has found
\* is nowhere ahead of it, written or about to be written.
Behind(a, k) ==
  /\ a <= detected
  /\ \A s \in Slot, h \in Half : info[s][h] = a => s <= k
  /\ \A c \in Recorder : Busy(c) /\ recording[c].attack = a => recording[c].slot <= k

Distinct ==
  /\ \A i, j \in DOMAIN found, g, h \in Half : i # j => found[i][g] # found[j][h]
  /\ \A i \in DOMAIN found, g \in Half : Behind(found[i][g], key)
  /\ key # -1 => \A g \in Half : copied[g] # Empty =>
       /\ Behind(copied[g], key + 1)
       /\ \A i \in DOMAIN found, h \in Half : found[i][h] # copied[g]

\* The records of a report, without what overlapping updates add.
Unmixed ==
  /\ \A i, j \in DOMAIN report : i # j =>
       \A g, h \in Half : report[i][g] # report[j][h]
  /\ \A i \in DOMAIN report, h \in Half : report[i][h] <= detected

Genuine == Filled /\ Once /\ Distinct /\ Unmixed

LEMMA GenuineInit == LogInit => Genuine
  <1> SUFFICES ASSUME LogInit PROVE Once /\ Distinct /\ Unmixed
    BY FilledInit DEF Genuine
  <1>1. \A h \in Half : Blank[h] = 0
    BY DEF Blank, Record, Empty
  <1> QED
    BY <1>1, Sizes
    DEF LogInit, Once, Distinct, Unmixed, LogIdle, Busy, Empty

\* What is behind the walk stays there, whatever the updates do.
LEMMA BehindStays ==
  ASSUME Filled, Once, [LogNext]_logVars, NEW a \in Attack, NEW k \in Int,
         Behind(a, k)
  PROVE  Behind(a, k)'
  <1>0. /\ LogTypes /\ Real /\ detected \in Nat /\ a \in Int
        /\ \A s \in Slot : info[s] \in Content
    BY Sizes DEF Filled, LogTypes, LogTypeOK, Attack
  <1>1. ASSUME NEW c \in Recorder, Detect(c) PROVE Behind(a, k)'
    BY <1>0, <1>1, DetectFacts DEF Behind, Busy
  <1>2. ASSUME NEW c \in Recorder, NEW h \in Half, Write(c, h)
        PROVE  Behind(a, k)'
    <2>1. Busy(c)
      BY <1>2 DEF Write, Busy
    <2>2. \A s \in Slot, g \in Half : info'[s][g] = a => s <= k
      BY <1>0, <1>2, <2>1, WriteFacts DEF Behind
    <2>3. \A d \in Recorder :
            Busy(d)' /\ recording'[d].attack = a => recording'[d].slot <= k
      BY <1>0, <1>2, WriteFacts DEF Behind
    <2>4. detected' = detected
      BY <1>0, <1>2, WriteFacts
    <2> QED
      BY <2>2, <2>3, <2>4 DEF Behind
  <1>3. ASSUME NEW c \in Recorder, Bump(c) PROVE Behind(a, k)'
    BY <1>0, <1>3, BumpFacts DEF Behind, Busy
  <1>4. CASE UNCHANGED writing
    BY <1>4 DEF Behind, Busy, writing
  <1> QED
    BY <1>1, <1>2, <1>3, <1>4
    DEF LogNext, Update, Request, Begin, Refuse, Copy, Scan, Answer, logVars

LEMMA OnceStep == Genuine /\ [LogNext]_logVars => Once'
  <1> SUFFICES ASSUME Genuine, [LogNext]_logVars PROVE Once'
    OBVIOUS
  <1>0. /\ LogTypes /\ Real /\ Once /\ detected \in Nat
        /\ \A s \in Slot, h \in Half : info[s][h] \in Int
    <2>1. \A s \in Slot : info[s] \in Content
      BY DEF Genuine, Filled, LogTypes, LogTypeOK
    <2> QED
      BY <2>1, Halves DEF Genuine, Filled, LogTypes, LogTypeOK
  <1>1. ASSUME NEW c \in Recorder, Detect(c) PROVE Once'
    <2>1. /\ detected' = detected + 1 /\ info' = info
          /\ recording'[c].attack = detected + 1
          /\ \A d \in Recorder \ {c} : recording'[d] = recording[d]
      BY <1>0, <1>1, DetectFacts
    <2>2. \A d \in Recorder \ {c} :
            /\ Busy(d)' <=> Busy(d)
            /\ Busy(d)' => recording'[d].attack \in 1 .. detected
      BY <1>0, <2>1 DEF Busy, Real
    <2>3. \A d, e \in Recorder :
            Busy(d)' /\ Busy(e)' /\ d # e =>
              recording'[d].attack # recording'[e].attack
      BY <1>0, <2>1, <2>2 DEF Once
    <2>4. \A d \in Recorder, s \in Slot, h \in Half :
            Busy(d)' /\ info[s][h] = recording'[d].attack =>
              s = recording'[d].slot
      <3> SUFFICES ASSUME NEW d \in Recorder, NEW s \in Slot, NEW h \in Half,
                          Busy(d)', info[s][h] = recording'[d].attack
                   PROVE  s = recording'[d].slot
        OBVIOUS
      <3>1. CASE d = c
        BY <1>0, <2>1, <3>1 DEF Once
      <3>2. CASE d # c
        BY <1>0, <2>1, <2>2, <3>2 DEF Once
      <3> QED
        BY <3>1, <3>2
    <2> QED
      BY <1>0, <2>1, <2>3, <2>4 DEF Once
  <1>2. ASSUME NEW c \in Recorder, NEW h \in Half, Write(c, h) PROVE Once'
    <2> DEFINE slot == recording[c].slot
               a    == recording[c].attack
    <2>1. /\ detected' = detected
          /\ slot \in Slot
          /\ \A s \in Slot, g \in Half :
               info'[s][g] = IF s = slot /\ g = h THEN a ELSE info[s][g]
          /\ \A d \in Recorder : /\ recording'[d].attack = recording[d].attack
                                 /\ recording'[d].slot = recording[d].slot
                                 /\ Busy(d)' <=> Busy(d)
      BY <1>0, <1>2, WriteFacts
    <2>2. Busy(c) /\ a \in 1 .. detected
      BY <1>0, <1>2 DEF Write, Busy, Real
    <2>3. /\ \A d \in Recorder, s \in Slot, g \in Half :
               Busy(d) /\ info[s][g] = recording[d].attack => s = recording[d].slot
          /\ \A d \in Recorder : Busy(d) /\ d # c => recording[d].attack # a
          /\ \A s \in Slot, g \in Half : info[s][g] = a => s = slot
      BY <1>0, <2>2 DEF Once
    <2> HIDE DEF slot, a
    <2>4. \A d \in Recorder, s \in Slot, g \in Half :
            Busy(d) /\ info'[s][g] = recording[d].attack => s = recording[d].slot
      BY <2>1, <2>3 DEF slot
    <2>5. \A s, t \in Slot, f, g \in Half :
            info'[s][f] # Empty /\ info'[s][f] = info'[t][g] => s = t
      BY <1>0, <2>1, <2>3 DEF Once
    <2>6. \A s \in Slot, g \in Half : info'[s][g] <= detected'
      BY <1>0, <2>1, <2>2 DEF Once
    <2> QED
      BY <1>0, <2>1, <2>4, <2>5, <2>6 DEF Once
  <1>3. ASSUME NEW c \in Recorder, Bump(c) PROVE Once'
    BY <1>0, <1>3, BumpFacts DEF Once, Busy
  <1>4. CASE UNCHANGED writing
    BY <1>0, <1>4 DEF Once, Busy, writing
  <1> QED
    BY <1>1, <1>2, <1>3, <1>4
    DEF LogNext, Update, Request, Begin, Refuse, Copy, Scan, Answer, logVars

LEMMA DistinctStep == Genuine /\ [LogNext]_logVars => Distinct'
  <1> SUFFICES ASSUME Genuine, [LogNext]_logVars PROVE Distinct'
    OBVIOUS
  <1>0. /\ Filled /\ Once /\ Distinct /\ found \in Seq(Whole)
        /\ key \in Int /\ copied \in Content
        /\ key # -1 => key \in Slot
        /\ \A s \in Slot : info[s] \in Content
    BY Sizes DEF Genuine, Filled, LogTypes, LogTypeOK, Walking, Slot
  <1>1. /\ \A i \in DOMAIN found, g \in Half : found[i][g] \in Attack
        /\ \A g \in Half : copied[g] # Empty => copied[g] \in Attack
    BY <1>0, Member DEF Content
  <1>2. /\ \A i \in DOMAIN found, g \in Half : Behind(found[i][g], key)
        /\ key # -1 => \A g \in Half :
             copied[g] # Empty => Behind(copied[g], key + 1)
    BY <1>0 DEF Distinct
  <1>3. CASE UNCHANGED <<key, found, copied>>
    <2>1. ASSUME NEW i \in DOMAIN found, NEW g \in Half
          PROVE  Behind(found[i][g], key)'
      <3> PICK a \in Attack, k \in Int : a = found[i][g] /\ k = key
        BY <1>0, <1>1
      <3>1. Behind(a, k)'
        BY <1>0, <1>2, BehindStays
      <3> QED
        BY <1>3, <3>1
    <2>2. ASSUME key # -1, NEW g \in Half, copied[g] # Empty
          PROVE  Behind(copied[g], key + 1)'
      <3> PICK a \in Attack, k \in Int : a = copied[g] /\ k = key + 1
        BY <1>0, <1>1, <2>2
      <3>1. Behind(a, k)'
        BY <1>0, <1>2, <2>2, BehindStays
      <3> QED
        BY <1>3, <3>1
    <2> QED
      BY <1>0, <1>3, <2>1, <2>2 DEF Distinct
  <1>4. CASE Begin
    <2>1. found' = <<>> /\ \A h \in Half : copied'[h] = Empty
      BY <1>4 DEF Begin, Blank, Record
    <2> QED
      BY <2>1 DEF Distinct
  <1>5. CASE Answer
    BY <1>5 DEF Answer, Distinct
  <1>6. ASSUME NEW f \in Half, Copy(f) PROVE Distinct'
    <2>1. /\ key # -1 /\ key + 1 \in Slot
          /\ UNCHANGED <<info, recording, detected, key, found>>
          /\ copied' = [copied EXCEPT ![f] = info[key + 1][f]]
      BY <1>0, <1>6, Sizes DEF Copy, HasNext, Slot, writing
    <2>2. \A g \in Half : copied'[g] = IF g = f THEN info[key + 1][f] ELSE copied[g]
      BY <1>0, <2>1 DEF Content
    <2>3. ASSUME info[key + 1][f] # Empty
          PROVE  /\ Behind(info[key + 1][f], key + 1)
                 /\ \A i \in DOMAIN found, h \in Half :
                      found[i][h] # info[key + 1][f]
      <3>1. Behind(info[key + 1][f], key + 1)
        BY <1>0, <2>1, <2>3 DEF Behind, Once, Slot
      <3>2. ~ (key + 1 <= key)
        BY <1>0
      <3>3. \A i \in DOMAIN found, h \in Half : found[i][h] # info[key + 1][f]
        BY <1>2, <2>1, <3>2 DEF Behind
      <3> QED
        BY <3>1, <3>3
    <2>4. \A a, k : Behind(a, k)' <=> Behind(a, k)
      BY <2>1 DEF Behind, Busy
    <2>5. \A g \in Half : copied'[g] # Empty =>
            /\ Behind(copied'[g], key + 1)
            /\ \A i \in DOMAIN found, h \in Half : found[i][h] # copied'[g]
      BY <1>0, <2>1, <2>2, <2>3 DEF Distinct
    <2> QED
      BY <1>0, <2>1, <2>4, <2>5 DEF Distinct, Behind, Busy
  <1>7. CASE Scan
    <2>1. /\ key # -1 /\ key' = key + 1
          /\ UNCHANGED <<info, recording, detected>>
          /\ \A h \in Half : copied'[h] = Empty
          /\ found' = IF NonZero(copied) THEN Append(found, copied) ELSE found
      BY <1>7 DEF Scan, writing, Blank, Record
    <2>2. \A i \in DOMAIN found, g \in Half : Behind(found[i][g], key + 1)
      <3>1. /\ \A s \in Slot : s \in Int
            /\ \A c \in Recorder : recording[c].slot \in Int
        BY <1>0 DEF Filled, LogTypes, LogTypeOK, Slot
      <3>2. \A n \in Int : n <= key => n <= key + 1
        BY <1>0
      <3> QED
        BY <1>2, <3>1, <3>2 DEF Behind
    <2>3. CASE NonZero(copied)
      <3>1. /\ DOMAIN found' = 1 .. Len(found) + 1
            /\ \A i \in DOMAIN found : found'[i] = found[i]
            /\ found'[Len(found) + 1] = copied
            /\ DOMAIN found = 1 .. Len(found)
        BY <1>0, <2>1, <2>3
      <3>2. \A g \in Half :
              /\ Behind(copied[g], key + 1)
              /\ \A i \in DOMAIN found, h \in Half : found[i][h] # copied[g]
        BY <1>0, <2>1, <2>3, Halves DEF Distinct
      <3>3. \A i \in DOMAIN found' : i \in DOMAIN found \/ i = Len(found) + 1
        BY <1>0, <3>1
      <3>4. \A i, j \in DOMAIN found', g, h \in Half :
              i # j => found'[i][g] # found'[j][h]
        BY <1>0, <3>1, <3>2, <3>3 DEF Distinct
      <3>5. \A i \in DOMAIN found', g \in Half : Behind(found'[i][g], key + 1)
        BY <2>2, <3>1, <3>2, <3>3
      <3> QED
        BY <2>1, <3>4, <3>5 DEF Distinct, Behind, Busy
    <2>4. CASE ~ NonZero(copied)
      BY <1>0, <2>1, <2>2, <2>4 DEF Distinct, Behind, Busy
    <2> QED
      BY <2>3, <2>4
  <1> QED
    BY <1>3, <1>4, <1>5, <1>6, <1>7
    DEF LogNext, Update, Request, Detect, Write, Bump, Refuse, logVars, walking

LEMMA GenuineStep == Genuine /\ [LogNext]_logVars => Genuine'
  <1> SUFFICES ASSUME Genuine, [LogNext]_logVars PROVE Unmixed'
    BY FilledStep, OnceStep, DistinctStep DEF Genuine
  <1>1. CASE Answer
    BY <1>1 DEF Genuine, Distinct, Behind, Answer, Unmixed, writing
  <1>2. CASE Refuse
    BY <1>2 DEF Refuse, Unmixed
  <1>3. CASE ~ Answer /\ ~ Refuse
    <2>1. report' = report /\ detected' >= detected
      <3>0. detected \in Nat
        BY DEF Genuine, Filled, LogTypes, LogTypeOK
      <3>1. ASSUME NEW c \in Recorder, Update(c)
            PROVE  report' = report /\ detected' >= detected
        BY <3>0, <3>1, DetectFacts, WriteFacts, BumpFacts
        DEF Update, walking, Genuine, Filled
      <3>2. CASE UNCHANGED <<writing, report>>
        BY <3>0, <3>2 DEF writing
      <3> QED
        BY <1>3, <3>1, <3>2
        DEF LogNext, Request, Begin, Copy, Scan, logVars, walking
    <2>2. \A i \in DOMAIN report, h \in Half : report[i][h] \in Int
      BY Member DEF Genuine, Filled, LogTypes, LogTypeOK
    <2>3. detected \in Int /\ detected' \in Int
      BY LogTypesStep DEF Genuine, Filled, LogTypes, LogTypeOK
    <2> QED
      BY <2>1, <2>2, <2>3 DEF Genuine, Unmixed
  <1> QED
    BY <1>1, <1>2, <1>3

-----------------------------------------------------------------------------
(* Torn records *)

\* The element that the nth attack goes to when no two updates overlap.
SlotOf(n) == IF n >= MaxAttacks THEN MaxAttacks - 1 ELSE n - 1

\* What element s may hold then: one attack only, until the array is full.
Proper(a, s) ==
  s # MaxAttacks - 1 \/ detected <= MaxAttacks => a \in {Empty, s + 1}

Torn(r) == r["head"] # r["tail"]

\* As long as no two updates overlap, each attack goes to the element of its
\* own, and a copy of any but the last is not torn.
Serial ==
  overlaps = 0 =>
    /\ \A c, d \in Recorder : Busy(c) /\ Busy(d) => c = d
    /\ (\A c \in Recorder : ~ Busy(c)) =>
         count = IF detected >= MaxAttacks THEN MaxAttacks ELSE detected
    /\ \A c \in Recorder : Busy(c) => /\ recording[c].attack = detected
                                      /\ recording[c].slot = SlotOf(detected)
    /\ \A s \in Slot, h \in Half : Proper(info[s][h], s)
    /\ key # -1 => \A h \in Half : Proper(copied[h], key + 1)
    /\ \A i \in DOMAIN found : Torn(found[i]) =>
         i = Len(found) /\ key = MaxAttacks - 1 /\ detected > MaxAttacks
    /\ \A i \in DOMAIN report : Torn(report[i]) =>
         i = Len(report) /\ detected > MaxAttacks

LEMMA SerialInit == LogInit => Serial
  <1> SUFFICES ASSUME LogInit PROVE Serial
    OBVIOUS
  <1>1. \A h \in Half : Blank[h] = Empty
    BY DEF Blank, Record
  <1> QED
    BY <1>1, Sizes DEF LogInit, Serial, Busy, LogIdle, Proper

LEMMA SerialStep == Filled /\ Serial /\ [LogNext]_logVars => Serial'
  <1> SUFFICES ASSUME Filled, Serial, [LogNext]_logVars, overlaps' = 0
               PROVE  Serial'
    BY DEF Serial
  <1>0. /\ LogTypes /\ detected \in Nat /\ key \in Int
        /\ key = -1 => found = <<>>
        /\ key # -1 => key \in Slot
        /\ found \in Seq(Whole) /\ report \in Seq(Whole) /\ copied \in Content
        /\ \A s \in Slot : info[s] \in Content
        /\ overlaps \in Nat
    BY Sizes DEF Filled, LogTypes, LogTypeOK, Walking, Slot
  <1>1. overlaps = 0
    <2>1. ASSUME NEW c \in Recorder, Update(c) PROVE overlaps = 0
      BY <1>0, <2>1, DetectFacts, WriteFacts, BumpFacts DEF Update
    <2>2. CASE UNCHANGED writing
      BY <2>2 DEF writing
    <2> QED
      BY <2>1, <2>2
      DEF LogNext, Request, Begin, Refuse, Copy, Scan, Answer, logVars
  <1>2. ASSUME NEW c \in Recorder, Detect(c) PROVE Serial'
    <2>1. /\ \A d \in Recorder : ~ Busy(d)
          /\ detected' = detected + 1
          /\ recording'[c].slot = FreeSlot(count)
          /\ recording'[c].attack = detected + 1
          /\ \A d \in Recorder \ {c} : recording'[d] = recording[d]
          /\ UNCHANGED <<info, count, walking>>
      BY <1>0, <1>1, <1>2, DetectFacts
    <2>2. \A d \in Recorder \ {c} : ~ Busy(d)'
      BY <2>1 DEF Busy
    <2>3. recording'[c].slot = SlotOf(detected + 1)
      <3>1. count = IF detected >= MaxAttacks THEN MaxAttacks ELSE detected
        BY <1>1, <2>1 DEF Serial
      <3> QED
        BY <1>0, <2>1, <3>1, Sizes DEF FreeSlot, SlotOf
    <2>4. \A a, s : Proper(a, s) => Proper(a, s)'
      BY <1>0, <2>1, Sizes DEF Proper
    <2>5. Busy(c)'
      BY <1>0, <1>2, DetectFacts
    <2>6. \A n : n > MaxAttacks /\ n \in Nat => n + 1 > MaxAttacks
      BY Sizes
    <2> QED
      BY <1>0, <1>1, <2>1, <2>2, <2>3, <2>4, <2>5, <2>6
      DEF Serial, walking, Proper
  <1>3. ASSUME NEW c \in Recorder, NEW h \in Half, Write(c, h) PROVE Serial'
    <2>1. /\ recording[c].slot \in Slot
          /\ \A s \in Slot, g \in Half :
               info'[s][g] = IF s = recording[c].slot /\ g = h
                             THEN recording[c].attack ELSE info[s][g]
          /\ \A d \in Recorder : /\ recording'[d].attack = recording[d].attack
                                 /\ recording'[d].slot = recording[d].slot
                                 /\ Busy(d)' <=> Busy(d)
          /\ UNCHANGED <<count, detected, overlaps, walking>>
      BY <1>0, <1>3, WriteFacts
    <2>2. Busy(c)
      BY <1>3 DEF Write, Busy
    <2>3. /\ recording[c].attack = detected
          /\ recording[c].slot = SlotOf(detected)
          /\ detected > 0
      BY <1>0, <1>1, <2>2 DEF Serial, Filled, Real
    <2>4. Proper(recording[c].attack, recording[c].slot)
      BY <1>0, <2>3, Sizes DEF Proper, SlotOf
    <2>5. \A s \in Slot, g \in Half : Proper(info'[s][g], s)
      BY <1>1, <2>1, <2>4 DEF Serial
    <2> QED
      BY <1>0, <1>1, <2>1, <2>5 DEF Serial, walking, Proper
  <1>4. ASSUME NEW c \in Recorder, Bump(c) PROVE Serial'
    <2>1. /\ Busy(c) /\ ~ Busy(c)'
          /\ count' = recording[c].slot + 1
          /\ \A d \in Recorder \ {c} : recording'[d] = recording[d]
          /\ UNCHANGED <<info, detected, overlaps, walking>>
      BY <1>0, <1>4, BumpFacts
    <2>2. \A d \in Recorder : ~ Busy(d)'
      BY <1>1, <2>1 DEF Serial, Busy
    <2>3. count' = IF detected >= MaxAttacks THEN MaxAttacks ELSE detected
      BY <1>0, <1>1, <2>1, Sizes DEF Serial, SlotOf
    <2> QED
      BY <1>0, <1>1, <2>1, <2>2, <2>3 DEF Serial, walking, Proper
  <1>5. CASE UNCHANGED writing
    <2> SUFFICES
          /\ key' # -1 => \A h \in Half : Proper(copied'[h], key' + 1)
          /\ \A i \in DOMAIN found' : Torn(found'[i]) =>
               i = Len(found') /\ key' = MaxAttacks - 1 /\ detected > MaxAttacks
          /\ \A i \in DOMAIN report' : Torn(report'[i]) =>
               i = Len(report') /\ detected > MaxAttacks
      BY <1>1, <1>5 DEF Serial, Busy, Proper, writing
    <2> USE <1>0, <1>1 DEF Serial
    <2>1. \A h \in Half : Blank[h] = Empty
      BY DEF Blank, Record
    <2>2. CASE Begin
      BY <2>1, <2>2 DEF Begin, Proper
    <2>3. CASE Refuse
      BY <2>3 DEF Refuse
    <2>4. ASSUME NEW f \in Half, Copy(f)
          PROVE  /\ UNCHANGED <<key, found, report>>
                 /\ key' # -1 => \A h \in Half : Proper(copied'[h], key' + 1)
      <3>1. key \in Slot /\ key + 1 \in Slot
        BY <2>4, Sizes DEF Copy, HasNext, Slot
      <3>2. \A h \in Half :
              copied'[h] = IF h = f THEN info[key + 1][f] ELSE copied[h]
        BY <2>4, <3>1 DEF Copy, Content
      <3> QED
        BY <2>4, <3>1, <3>2 DEF Copy
    <2>5. CASE Scan
      <3>1. /\ key # -1 /\ key' = key + 1 /\ key + 1 \in Slot
            /\ report' = report /\ copied' = Blank
            /\ found' = IF NonZero(copied) THEN Append(found, copied) ELSE found
        BY <2>5, Sizes DEF Scan, HasNext, Slot
      <3>2. \A i \in DOMAIN found : ~ Torn(found[i])
        BY <2>5, Sizes DEF Scan, HasNext, Slot
      <3>3. CASE NonZero(copied)
        <4>1. /\ DOMAIN found' = 1 .. Len(found')
              /\ Len(found') = Len(found) + 1
              /\ \A i \in DOMAIN found : found'[i] = found[i]
              /\ found'[Len(found')] = copied
              /\ \A i \in DOMAIN found' : i \in DOMAIN found \/ i = Len(found')
          BY <3>1, <3>3
        <4>2. Torn(copied) => key + 1 = MaxAttacks - 1 /\ detected > MaxAttacks
          BY <3>1, <3>3, Sizes DEF Torn, Proper, NonZero, Half
        <4> QED
          BY <2>1, <3>1, <3>2, <4>1, <4>2 DEF Proper
      <3>4. CASE ~ NonZero(copied)
        BY <2>1, <3>1, <3>2, <3>4 DEF Proper
      <3> QED
        BY <3>3, <3>4
    <2>6. CASE Answer
      BY <2>6 DEF Answer
    <2>7. CASE UNCHANGED walking
      BY <2>7 DEF walking
    <2> QED
      <3>1. CASE \E f \in Half : Copy(f)
        BY <2>4, <3>1
      <3>2. CASE Begin \/ Refuse \/ Scan \/ Answer \/ UNCHANGED walking
        BY <2>2, <2>3, <2>5, <2>6, <2>7, <3>2
      <3> QED
        BY <3>1, <3>2 DEF LogNext, Update, Request, Detect, Write, Bump, logVars
  <1> QED
    BY <1>2, <1>3, <1>4, <1>5
    DEF LogNext, Update, Request, Begin, Refuse, Copy, Scan, Answer, logVars

LEMMA SerialSuffices == Genuine /\ Serial => ReportIsGenuine
  BY DEF Genuine, Unmixed, Serial, Torn, ReportIsGenuine

-----------------------------------------------------------------------------
(* Losses *)

\* At least so many elements are used, or will be by the updates in progress.
Kept(n) == n >= MaxAttacks \/ n >= detected - overlaps

Lossless ==
  /\ (\A c \in Recorder : ~ Busy(c)) => Kept(count)
  /\ Kept(count + 1)
  /\ \A c \in Recorder : Busy(c) => Kept(recording[c].slot + 1)

LEMMA LosslessInit == LogInit => Lossless
  BY Sizes DEF LogInit, Lossless, Kept, Busy, LogIdle

LEMMA LosslessStep == LogTypes /\ Lossless /\ [LogNext]_logVars => Lossless'
  <1> SUFFICES ASSUME LogTypes, Lossless, [LogNext]_logVars PROVE Lossless'
    OBVIOUS
  <1>0. /\ detected \in Nat /\ overlaps \in Nat /\ count \in Nat
        /\ count <= MaxAttacks /\ MaxAttacks \in Nat
        /\ \A c \in Recorder : recording[c].slot \in Nat
    BY Sizes DEF LogTypes, LogTypeOK, Slot
  <1>1. ASSUME NEW c \in Recorder, Detect(c) PROVE Lossless'
    <2>1. /\ detected' = detected + 1
          /\ recording'[c].slot = FreeSlot(count)
          /\ Busy(c)' /\ count' = count
          /\ \A d \in Recorder \ {c} : recording'[d] = recording[d]
          /\ overlaps' = IF \E d \in Recorder : Busy(d) THEN overlaps + 1
                         ELSE overlaps
      BY <1>1, DetectFacts
    <2>2. Kept(count + 1)'
      BY <1>0, <2>1 DEF Lossless, Kept
    <2>3. Kept(recording[c].slot + 1)'
      BY <1>0, <2>1, <2>2, Sizes DEF Kept, FreeSlot
    <2>4. ASSUME NEW d \in Recorder \ {c}, Busy(d)'
          PROVE  Kept(recording[d].slot + 1)'
      BY <1>0, <2>1, <2>4 DEF Lossless, Kept, Busy
    <2> QED
      BY <2>1, <2>2, <2>3, <2>4 DEF Lossless
  <1>2. ASSUME NEW c \in Recorder, NEW h \in Half, Write(c, h) PROVE Lossless'
    <2>1. /\ UNCHANGED <<count, detected, overlaps>>
          /\ \A d \in Recorder : /\ recording'[d].slot = recording[d].slot
                                 /\ Busy(d)' <=> Busy(d)
      BY <1>2, WriteFacts
    <2> QED
      BY <2>1 DEF Lossless, Kept
  <1>3. ASSUME NEW c \in Recorder, Bump(c) PROVE Lossless'
    <2>1. /\ UNCHANGED <<detected, overlaps>>
          /\ count' = recording[c].slot + 1 /\ Busy(c) /\ ~ Busy(c)'
          /\ \A d \in Recorder \ {c} : recording'[d] = recording[d]
      BY <1>3, BumpFacts
    <2>2. Kept(count)' /\ Kept(count + 1)'
      BY <1>0, <2>1 DEF Lossless, Kept
    <2>3. ASSUME NEW d \in Recorder \ {c}, Busy(d)'
          PROVE  Kept(recording[d].slot + 1)'
      BY <2>1, <2>3 DEF Lossless, Kept, Busy
    <2> QED
      BY <2>1, <2>2, <2>3 DEF Lossless
  <1>4. CASE UNCHANGED writing
    BY <1>4 DEF Lossless, Kept, Busy, writing
  <1> QED
    BY <1>1, <1>2, <1>3, <1>4
    DEF LogNext, Update, Request, Begin, Refuse, Copy, Scan, Answer, logVars

LEMMA LosslessSuffices == Filled /\ Lossless => OnlyOverlapsLose
  <1> SUFFICES ASSUME Filled, Lossless, \A c \in Recorder : ~ Busy(c),
                      NEW s \in Slot, s < detected - overlaps
               PROVE  info[s] \in Whole
    BY DEF OnlyOverlapsLose
  <1>1. s < count
    BY Sizes DEF Lossless, Kept, Filled, LogTypes, LogTypeOK, Slot
  <1> QED
    BY <1>1 DEF Filled, NoHoles

=============================================================================
