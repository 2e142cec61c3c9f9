----------------------- MODULE TetragonMonitorProofs -----------------------
(***************************************************************************)
(* Proofs about TetragonMonitor for any kinds of lines and any number of   *)
(* lines and files: the types, that the thread never sleeps on lines       *)
(* written since it set the watch, and that the events it stores are in    *)
(* the order of the log.                                                   *)
(***************************************************************************)
EXTENDS TetragonMonitor, TLAPS

USE TetragonMonitorAssumption DEF None, File, Line, Blank

-----------------------------------------------------------------------------
(* Types *)

\* The parts of TypeOK, by who changes them.
LogTypes ==
  /\ path \in File \cup {None}
  /\ files \in 0 .. MaxFiles
  /\ lines \in 0 .. MaxLines
  /\ half \in Piece \cup {Nothing}
  /\ \A f \in File : content[f] \in Seq(Piece)

ReadTypes ==
  /\ fd \in File \cup {None}
  /\ pos \in 0 .. (IF fd = None THEN 0 ELSE Len(content[fd]))
  /\ eof \in BOOLEAN
  /\ watched \in File \cup {None}
  /\ pending \in BOOLEAN
  /\ ready \in 0 .. lines

Texts == Piece \cup {Nothing, [Nothing EXCEPT !.kind = "info"]}

EffectTypes ==
  /\ at \in {"none", "open", "gone", "seek", "watch", "poll", "read", "parse",
            "tell", "alerted", "count"}
  /\ text \in Texts
  /\ stats.blocked <= stats.alerts /\ stats.alerts <= stats.total + 1
  /\ db \in Seq(Line \cup {Blank})
  /\ handled \subseteq told /\ told \subseteq Line

\* What makes them inductive.
LogShape ==
  /\ content \in [File -> Seq(Piece)]
  /\ half # Nothing => path # None /\ half.line <= lines
  /\ \A f \in File : \A i \in DOMAIN content[f] : content[f][i].line <= lines

ReadShape ==
  /\ at \in {"none", "open", "gone"} \/ fd # None
  /\ at \in {"none", "open", "seek", "watch"} => db = <<>>
  /\ at \in {"none", "open"} => fd = None

EffectShape ==
  /\ stats \in [total : Nat, alerts : Nat, blocked : Nat]
  /\ at # "count" => stats.alerts <= stats.total
  /\ at \in {"alerted", "count"} => text.line \in told \cup {Blank}

IInv == LogTypes /\ ReadTypes /\ EffectTypes /\ LogShape /\ ReadShape
          /\ EffectShape

LEMMA InvType == IInv => TypeOK
  BY DEF IInv, TypeOK, LogTypes, ReadTypes, EffectTypes, Texts

LEMMA InvInit == Init => IInv
  <1> SUFFICES ASSUME Init PROVE IInv
    OBVIOUS
  <1>1. content \in [File -> Seq(Piece)]
    BY DEF Init
  <1>2. LogTypes /\ LogShape
    BY <1>1 DEF Init, LogTypes, LogShape
  <1>3. ReadTypes
    <2>1. 0 \in 0 .. 0
      OBVIOUS
    <2> QED
      BY <2>1 DEF Init, ReadTypes
  <1>5. ReadShape
    BY DEF Init, ReadShape
  <1>4. EffectTypes /\ EffectShape
    BY DEF Init, EffectTypes, EffectShape, Texts
  <1> QED
    BY <1>2, <1>3, <1>4, <1>5 DEF IInv

\* A write appends a piece to the log.
LEMMA Written ==
  ASSUME IInv, path # None, NEW piece \in Piece, WriteLog(piece)
  PROVE  /\ content' \in [File -> Seq(Piece)]
         /\ content'[path] = Append(content[path], piece)
         /\ \A f \in File \ {path} : content'[f] = content[f]
  BY DEF IInv, LogTypes, LogShape, WriteLog

LEMMA InvWrite ==
  ASSUME IInv, path # None, NEW piece \in Piece, WriteLog(piece),
         lines' \in lines .. MaxLines, piece.line <= lines',
         half' = Nothing \/ (half' \in Piece /\ half'.line <= lines')
  PROVE  IInv'
  <1>1. LogTypes' /\ LogShape'
    <2>1. LogTypes'
      BY Written DEF IInv, LogTypes, WriteLog
    <2>2. ASSUME NEW f \in File, NEW i \in DOMAIN content'[f]
          PROVE  content'[f][i].line <= lines'
      <3>0. lines \in Nat /\ lines' \in Nat /\ lines <= lines'
        BY DEF IInv, LogTypes
      <3>1. CASE f # path \/ i <= Len(content[path])
        <4>1. i \in DOMAIN content[f] /\ content'[f][i] = content[f][i]
          <5>1. CASE f # path
            BY <5>1, Written
          <5>2. CASE f = path
            <6>1. content'[f] = Append(content[f], piece)
              BY <5>2, Written
            <6>2. content[f] \in Seq(Piece) /\ i \in 1 .. Len(content[f])
              BY <3>1, <5>2, <6>1 DEF IInv, LogTypes
            <6> QED
              BY <6>1, <6>2
          <5> QED
            BY <5>1, <5>2
        <4>2. content[f][i].line <= lines /\ content[f][i] \in Piece
          BY <4>1 DEF IInv, LogShape
        <4> QED
          BY <3>0, <4>1, <4>2 DEF Piece
      <3>2. CASE f = path /\ i = Len(content[path]) + 1
        BY <3>2, Written DEF IInv, LogTypes
      <3> QED
        BY <3>1, <3>2, Written DEF IInv, LogTypes
    <2>3. content' \in [File -> Seq(Piece)]
      BY Written
    <2>4. path' = path
      BY DEF WriteLog
    <2> QED
      BY <2>1, <2>2, <2>3, <2>4 DEF LogShape
  <1>2. ReadTypes' /\ ReadShape'
    BY Written DEF IInv, ReadTypes, ReadShape, LogTypes, LogShape, WriteLog,
                   readVars, effectVars
  <1>3. EffectTypes' /\ EffectShape'
    BY DEF IInv, EffectTypes, EffectShape, WriteLog, effectVars
  <1> QED
    BY <1>1, <1>2, <1>3 DEF IInv

\* The piece that is written when a line begins, and when it ends.
LEMMA LineBegins ==
  ASSUME IInv, NEW kind \in Kind, NEW part \in {"all", "bare", "head"},
         BeginLine(kind, part)
  PROVE  \E piece \in Piece :
           /\ piece.line = lines + 1 /\ piece.part = part
           /\ path # None /\ WriteLog(piece)
           /\ lines' = lines + 1 /\ lines' \in lines .. MaxLines
           /\ half' \in {Nothing, piece}
  <1> DEFINE piece == [line |-> lines + 1, kind |-> kind, part |-> part]
  <1>1. lines + 1 \in Line
    BY DEF BeginLine, IInv, LogTypes
  <1>2. piece \in Piece
    BY <1>1 DEF Piece
  <1> QED
    BY <1>1, <1>2 DEF BeginLine, IInv, LogTypes

LEMMA LineEnds ==
  ASSUME IInv, EndLine
  PROVE  \E piece \in Piece :
           /\ piece.line = half.line /\ half.line <= lines
           /\ piece.part \in {"tail", "newline"}
           /\ path # None /\ WriteLog(piece)
           /\ lines' = lines /\ half' = Nothing
  <1> DEFINE piece == [half EXCEPT !.part = IF @ = "head" THEN "tail"
                                            ELSE "newline"]
  <1>1. half \in Piece /\ half.line <= lines /\ path # None
    BY DEF EndLine, IInv, LogTypes, LogShape
  <1>2. piece \in Piece /\ piece.line = half.line
        /\ piece.part \in {"tail", "newline"}
    BY <1>1 DEF Piece
  <1> QED
    BY <1>1, <1>2 DEF EndLine

LEMMA InvTetragon == ASSUME IInv, Tetragon PROVE IInv'
  <1>1. CASE Create
    BY <1>1 DEF Create, IInv, LogTypes, LogShape, ReadTypes, ReadShape,
                EffectTypes, EffectShape, readVars, effectVars
  <1>2. CASE Rename
    BY <1>2 DEF Rename, IInv, LogTypes, LogShape, ReadTypes, ReadShape,
                EffectTypes, EffectShape, readVars, effectVars
  <1>3. ASSUME NEW kind \in Kind, NEW part \in {"all", "bare", "head"},
               BeginLine(kind, part)
        PROVE  IInv'
    <2>1. PICK piece \in Piece :
           /\ piece.line = lines + 1 /\ path # None /\ WriteLog(piece)
           /\ lines' = lines + 1 /\ lines' \in lines .. MaxLines
           /\ half' \in {Nothing, piece}
      BY <1>3, LineBegins
    <2> QED
      BY <2>1, InvWrite DEF IInv, LogTypes
  <1>4. CASE EndLine
    <2>1. PICK piece \in Piece :
           /\ piece.line = half.line /\ half.line <= lines
           /\ path # None /\ WriteLog(piece)
           /\ lines' = lines /\ half' = Nothing
      BY <1>4, LineEnds
    <2>2. lines' \in lines .. MaxLines
      BY <2>1 DEF IInv, LogTypes
    <2> QED
      BY <2>1, <2>2, InvWrite
  <1> QED
    BY <1>1, <1>2, <1>3, <1>4 DEF Tetragon

\* A step of the thread leaves the log alone.
LEMMA LogStays ==
  ASSUME IInv, UNCHANGED logVars
  PROVE  LogTypes' /\ LogShape'
  BY DEF IInv, logVars, LogTypes, LogShape

LEMMA InvMonitor == ASSUME IInv, Monitor PROVE IInv'
  <1>0. LogTypes /\ ReadTypes /\ EffectTypes /\ LogShape /\ ReadShape
          /\ EffectShape
    BY DEF IInv
  <1>1. UNCHANGED logVars
    BY DEF Monitor, Start, Open, Seek, Watch, Poll, Sleep, ReadLine, EndOfFile,
           Reject, Store, Tell, CountAlert, Count, vars
  <1>2. LogTypes' /\ LogShape'
    BY <1>1, LogStays
  <1>3. CASE Start
    BY <1>0, <1>2, <1>3 DEF Start, Goto, IInv, logVars, readVars, effectVars,
       ReadTypes, ReadShape, EffectTypes, EffectShape
  <1>15. CASE Poll
    BY <1>0, <1>2, <1>15 DEF Poll, Goto, IInv, logVars, readVars, effectVars,
       ReadTypes, ReadShape, EffectTypes, EffectShape
  <1>4. CASE Open
    BY <1>0, <1>2, <1>4 DEF Open, Goto, IInv, logVars, effectVars, LogTypes,
       ReadTypes, ReadShape, EffectTypes, EffectShape
  <1>5. CASE Seek
    BY <1>0, <1>2, <1>5 DEF Seek, Goto, IInv, logVars, effectVars, LogTypes,
       ReadTypes, ReadShape, EffectTypes, EffectShape
  <1>6. CASE Watch
    BY <1>0, <1>2, <1>6 DEF Watch, Goto, IInv, logVars, effectVars, LogTypes,
       ReadTypes, ReadShape, EffectTypes, EffectShape
  <1>7. CASE Sleep
    BY <1>0, <1>7 DEF Sleep, vars, IInv, logVars, readVars, effectVars,
       LogTypes, LogShape, ReadTypes, ReadShape, EffectTypes, EffectShape
  <1>8. CASE ReadLine
    <2>1. /\ fd \in File /\ content[fd] \in Seq(Piece) /\ pos \in Nat
          /\ pos + 1 \in 1 .. Len(content[fd])
      BY <1>0, <1>8 DEF ReadLine, LogTypes, ReadTypes, ReadShape
    <2>2. content[fd][pos + 1] \in Piece
      BY <2>1
    <2>3. text' \in Piece
      BY <1>8, <2>2 DEF ReadLine, Piece
    <2>4. pos' \in 0 .. Len(content[fd])
      <3>1. CASE Joined
        <4>1. pos + 2 <= Len(content[fd])
          BY <3>1 DEF Joined
        <4> QED
          BY <1>8, <2>1, <3>1, <4>1 DEF ReadLine
      <3>2. CASE ~ Joined
        BY <1>8, <2>1, <3>2 DEF ReadLine
      <3> QED
        BY <3>1, <3>2
    <2>5. ReadTypes' /\ ReadShape'
      BY <1>0, <1>8, <2>1, <2>4 DEF ReadLine, Goto, ReadTypes, ReadShape, logVars
    <2>6. EffectTypes' /\ EffectShape'
      BY <1>0, <1>8, <2>3 DEF ReadLine, Goto, effectVars, EffectTypes,
                              EffectShape, Texts
    <2> QED
      BY <1>2, <2>5, <2>6 DEF IInv
  <1>9. CASE EndOfFile
    BY <1>0, <1>2, <1>9 DEF EndOfFile, Goto, IInv, logVars, effectVars,
       ReadTypes, ReadShape, EffectTypes, EffectShape
  <1>10. CASE Reject
    BY <1>0, <1>2, <1>10 DEF Reject, Goto, IInv, logVars, readVars, effectVars,
       ReadTypes, ReadShape, EffectTypes, EffectShape, Texts
  <1>11. CASE Store
    <2>1. text' \in Texts /\ text'.line \in Line \cup {Blank}
      BY <1>0, <1>11 DEF Store, EventOf, EffectTypes, Texts, Piece, Nothing
    <2>2. db' \in Seq(Line \cup {Blank})
      BY <1>0, <1>11, <2>1 DEF Store, Insert, EffectTypes
    <2> QED
      BY <1>0, <1>2, <1>11, <2>1, <2>2 DEF Store, Goto, IInv, logVars, readVars,
         ReadTypes, ReadShape, EffectTypes, EffectShape
  <1>12. CASE Tell
    <2>1. text.line \in Line \cup {Blank}
      BY <1>0 DEF EffectTypes, Texts, Piece, Nothing
    <2> QED
      BY <1>0, <1>2, <1>12, <2>1 DEF Tell, Goto, IInv, logVars, readVars,
         ReadTypes, ReadShape, EffectTypes, EffectShape
  <1>13. CASE CountAlert
    <2>1. /\ stats' \in [total : Nat, alerts : Nat, blocked : Nat]
          /\ stats'.total = stats.total /\ stats'.alerts = stats.alerts + 1
          /\ stats'.blocked <= stats.blocked + 1
      <3> DEFINE b == IF Blocked(text.kind) THEN 1 ELSE 0
      <3>1. /\ b \in {0, 1}
            /\ stats' = [stats EXCEPT !.alerts  = stats.alerts + 1,
                                      !.blocked = stats.blocked + b]
        BY <1>13 DEF CountAlert
      <3> HIDE DEF b
      <3> QED
        <4>1. /\ stats.alerts + 1 \in Nat /\ stats.blocked + b \in Nat
              /\ stats.blocked + b <= stats.blocked + 1
          BY <1>0, <3>1 DEF EffectShape
        <4> QED
          BY <1>0, <3>1, <4>1 DEF EffectShape
    <2>2. stats.alerts <= stats.total
      BY <1>0, <1>13 DEF CountAlert, EffectShape
    <2>3. ReadTypes' /\ ReadShape'
      BY <1>0, <1>13 DEF CountAlert, Goto, logVars, readVars, ReadTypes, ReadShape
    <2>4. /\ at' = "count" /\ UNCHANGED <<text, db, told, handled>>
          /\ text.line \in told \cup {Blank} /\ text \in Texts
          /\ db \in Seq(Line \cup {Blank})
          /\ handled \subseteq told /\ told \subseteq Line
      BY <1>0, <1>13 DEF CountAlert, Goto, EffectTypes, EffectShape
    <2>5. stats'.blocked <= stats'.alerts
      <3>1. stats.blocked \in Nat /\ stats.alerts \in Nat /\ stats'.blocked \in Nat
            /\ stats.blocked <= stats.alerts
        BY <1>0, <2>1 DEF EffectTypes, EffectShape
      <3> QED
        BY <2>1, <3>1
    <2>6. stats'.alerts <= stats'.total + 1
      <3>1. stats.alerts \in Nat /\ stats.total \in Nat
        BY <1>0 DEF EffectShape
      <3> QED
        BY <2>1, <2>2, <3>1
    <2> QED
      BY <1>2, <2>1, <2>3, <2>4, <2>5, <2>6 DEF IInv, EffectTypes, EffectShape
  <1>14. CASE Count
    <2>1. ReadTypes' /\ ReadShape'
      BY <1>0, <1>14 DEF Count, Goto, logVars, readVars, ReadTypes, ReadShape
    <2>2. /\ stats' \in [total : Nat, alerts : Nat, blocked : Nat]
          /\ stats'.blocked <= stats'.alerts /\ stats'.alerts <= stats'.total
      <3>1. /\ stats \in [total : Nat, alerts : Nat, blocked : Nat]
            /\ stats.blocked <= stats.alerts /\ stats.alerts <= stats.total + 1
            /\ stats' = [stats EXCEPT !.total = stats.total + 1]
        BY <1>0, <1>14 DEF Count, EffectTypes, EffectShape
      <3>2. stats'.total = stats.total + 1 /\ stats'.alerts = stats.alerts
            /\ stats'.blocked = stats.blocked
        BY <3>1
      <3> QED
        BY <3>1, <3>2
    <2>3. /\ at' = "read" /\ text' = Nothing /\ UNCHANGED <<db, told>>
          /\ handled' \subseteq told
      BY <1>0, <1>14 DEF Count, Goto, EffectTypes, EffectShape
    <2>4. EffectTypes'
      <3>1. stats'.alerts <= stats'.total + 1
        BY <2>2
      <3> QED
        BY <1>0, <2>2, <2>3, <3>1 DEF EffectTypes, Texts
    <2> QED
      BY <1>2, <2>1, <2>2, <2>3, <2>4 DEF IInv, EffectShape
  <1> QED
    BY <1>3, <1>4, <1>5, <1>6, <1>7, <1>8, <1>9, <1>10, <1>11, <1>12, <1>13,
       <1>14, <1>15 DEF Monitor

LEMMA InvStep == IInv /\ [Next]_vars => IInv'
  <1> SUFFICES ASSUME IInv, [Next]_vars PROVE IInv'
    OBVIOUS
  <1>1. CASE UNCHANGED vars
    BY <1>1 DEF vars, IInv, logVars, readVars, effectVars, LogTypes, LogShape,
       ReadTypes, ReadShape, EffectTypes, EffectShape
  <1> QED
    BY <1>1, InvTetragon, InvMonitor DEF Next

\* Type correctness: the reader never goes beyond the end of its file, and the
\* statistics never count more alerts than events, the current one apart
\* (tetragon_events.c:285-291, 323-329, 374-380).
THEOREM TypeCorrect == Spec => []TypeOK
  BY InvInit, InvStep, InvType, PTL DEF Spec

-----------------------------------------------------------------------------
(* Nothing is overlooked *)

\* The unread pieces of the file that is followed.
Unread == pos + 1 .. Len(content[fd])

\* The thread does not go to sleep on lines: an event is queued whenever there
\* is more behind the end that the reader has met.
Awake ==
  /\ at \in {"none", "open", "gone", "seek", "watch", "poll"} => ~ eof
  /\ at \in {"none", "open", "seek", "watch"} => watched = None
  /\ fd # None /\ fd = watched /\ eof /\ pos < Len(content[fd]) => pending
  /\ NothingOverlooked

LEMMA AwakeTetragon ==
  ASSUME IInv, Awake, Tetragon PROVE Awake'
  <1>1. UNCHANGED <<at, eof, watched, fd, pos, ready>>
    BY DEF Tetragon, Create, Rename, BeginLine, EndLine, WriteLog, readVars
  <1>2. CASE Create \/ Rename
    BY <1>1, <1>2 DEF Create, Rename, Awake, NothingOverlooked
  <1>3. ASSUME path # None, NEW piece \in Piece, WriteLog(piece) PROVE Awake'
    <2>1. CASE fd # None /\ fd = watched /\ fd = path
      <3>1. pending' = TRUE
        BY <1>3, <2>1 DEF WriteLog
      <3> QED
        BY <1>1, <3>1 DEF Awake, NothingOverlooked
    <2>2. CASE fd # None /\ fd = watched /\ fd # path
      <3>1. content'[fd] = content[fd] /\ pending' = pending
        BY <1>3, <2>2, Written DEF IInv, ReadTypes, WriteLog
      <3> QED
        BY <1>1, <3>1 DEF Awake, NothingOverlooked
    <2>3. CASE ~ (fd # None /\ fd = watched)
      BY <1>1, <2>3 DEF Awake, NothingOverlooked, IInv, ReadShape
    <2> QED
      BY <2>1, <2>2, <2>3
  <1>4. ASSUME NEW kind \in Kind, NEW part \in {"all", "bare", "head"},
               BeginLine(kind, part)
        PROVE  Awake'
    BY <1>3, <1>4, LineBegins
  <1>5. CASE EndLine
    BY <1>3, <1>5, LineEnds
  <1> QED
    BY <1>2, <1>4, <1>5 DEF Tetragon

LEMMA AwakeMonitor ==
  ASSUME IInv, Awake, Monitor PROVE Awake'
  <1>0. UNCHANGED logVars
    BY DEF Monitor, Start, Open, Seek, Watch, Poll, Sleep, ReadLine, EndOfFile,
           Reject, Store, Tell, CountAlert, Count, vars
  <1>1. content' = content /\ lines' = lines
    BY <1>0 DEF logVars
  <1>2. CASE Start \/ Open \/ Seek
    BY <1>1, <1>2 DEF Start, Open, Seek, Goto, readVars, Awake,
                      NothingOverlooked
  <1>3. CASE Watch
    <2>1. /\ fd # None /\ fd' = fd /\ pos' = pos /\ eof' = eof /\ ~ eof
          /\ ready' = lines
      BY <1>3 DEF Watch, IInv, ReadShape, Awake
    <2>2. \A i \in Unread : content[fd][i].line <= lines
      BY <2>1 DEF IInv, LogTypes, LogShape, ReadTypes, Unread
    <2>3. /\ at' = "poll" \/ at' = "gone"
      BY <1>3 DEF Watch, Goto
    <2> QED
      BY <1>1, <2>1, <2>2, <2>3 DEF Awake, NothingOverlooked, Unread
  <1>4. CASE Poll
    BY <1>1, <1>4 DEF Poll, Goto, readVars, Awake, NothingOverlooked
  <1>5. CASE Sleep
    BY <1>1, <1>5 DEF Sleep, vars, readVars, Awake, NothingOverlooked
  <1>6. CASE ReadLine
    <2>1. at' = "parse" /\ UNCHANGED <<fd, watched, pending>>
      BY <1>6 DEF ReadLine, Goto
    <2>2. pos \in Nat /\ Len(content[fd]) \in Nat /\ fd # None
      BY <1>6 DEF ReadLine, IInv, ReadTypes, ReadShape, LogTypes
    <2>3. eof' => pos' >= Len(content[fd])
      <3>1. CASE Joined
        <4>1. content[fd][pos + 1] \in Piece
          BY <1>6, <2>2 DEF ReadLine, IInv, ReadTypes, LogTypes
        <4>2. text'.part = "all"
          BY <1>6, <3>1, <4>1 DEF ReadLine, Piece
        <4> QED
          BY <1>6, <4>2 DEF ReadLine
      <3>2. CASE ~ Joined
        <4>1. text' = content[fd][pos + 1] /\ pos' = pos + 1
          BY <1>6, <3>2 DEF ReadLine
        <4>2. eof' => ~ (pos + 2 <= Len(content[fd]))
          BY <1>6, <3>2, <4>1 DEF ReadLine, Joined
        <4> QED
          BY <2>2, <4>1, <4>2
      <3> QED
        BY <3>1, <3>2
    <2>4. pos' \in Nat
      BY <1>6, <2>2 DEF ReadLine
    <2> QED
      BY <1>1, <2>1, <2>2, <2>3, <2>4 DEF Awake, NothingOverlooked
  <1>7. CASE EndOfFile
    <2>1. /\ at = "read" /\ at' = "poll" /\ ~ eof'
          /\ UNCHANGED <<fd, pos, watched, pending, ready>>
      BY <1>7 DEF EndOfFile, Goto
    <2>2. /\ fd # None /\ pos \in Nat /\ Len(content[fd]) \in Nat
          /\ pos <= Len(content[fd])
      BY <2>1 DEF IInv, ReadTypes, ReadShape, LogTypes
    <2>3. pos = Len(content[fd]) \/ eof
      BY <1>7 DEF EndOfFile
    <2>4. fd = watched /\ ~ pending => pos = Len(content[fd])
      BY <2>2, <2>3 DEF Awake
    <2> QED
      BY <1>1, <2>1, <2>2, <2>4 DEF Awake, NothingOverlooked
  <1>8. CASE Reject \/ Store \/ Tell \/ CountAlert \/ Count
    <2>1. /\ at' \in {"read", "tell", "alerted", "count"}
          /\ at \in {"parse", "tell", "alerted", "count"}
          /\ UNCHANGED <<fd, pos, eof, watched, pending, ready>>
      BY <1>8 DEF Reject, Store, Tell, CountAlert, Count, Goto, readVars
    <2> QED
      BY <1>1, <2>1 DEF Awake, NothingOverlooked
  <1> QED
    BY <1>2, <1>3, <1>4, <1>5, <1>6, <1>7, <1>8 DEF Monitor

LEMMA AwakeStep == IInv /\ Awake /\ [Next]_vars => Awake'
  <1> SUFFICES ASSUME IInv, Awake, [Next]_vars PROVE Awake'
    OBVIOUS
  <1>1. CASE UNCHANGED vars
    BY <1>1 DEF vars, logVars, readVars, Awake, NothingOverlooked
  <1> QED
    BY <1>1, AwakeTetragon, AwakeMonitor DEF Next

\* The thread never goes to sleep on lines written since it set the watch, in
\* however many pieces they are appended and wherever the appends fall between
\* the reads (tetragon_events.c:367-381).
THEOREM NeverOverlooked == Spec => []NothingOverlooked
  <1>1. Init => Awake
    BY DEF Init, Awake, NothingOverlooked
  <1>2. Awake => NothingOverlooked
    BY DEF Awake
  <1> QED
    BY <1>1, <1>2, InvInit, InvStep, AwakeStep, PTL DEF Spec

-----------------------------------------------------------------------------
(* The order of the events *)

\* Pieces whose line can be stored under its number: the rest of a line is
\* stored without one.
Begins(piece) == piece.part \in {"all", "head", "bare"}

\* A line begins after all that precedes it in its file.
Sorted ==
  \A f \in File : \A i, j \in DOMAIN content[f] :
    i < j /\ Begins(content[f][j]) => content[f][i].line < content[f][j].line

\* What is still to be read, and the line that is processed, come after what is
\* stored.
Follows ==
  /\ \A k \in DOMAIN db : db[k] <= lines
  /\ fd # None =>
       \A k \in DOMAIN db, i \in Unread :
         Begins(content[fd][i]) => db[k] < content[fd][i].line
  /\ at = "parse" /\ text.part \in {"all", "bare"} =>
       /\ text.line <= lines
       /\ \A k \in DOMAIN db : db[k] < text.line
       /\ \A i \in Unread : Begins(content[fd][i]) =>
                              text.line < content[fd][i].line

InOrder == Sorted /\ Follows /\ StoredInOrder

LEMMA OrderWrite ==
  ASSUME IInv, InOrder, path # None, NEW piece \in Piece, WriteLog(piece),
         \/ lines' = lines + 1 /\ piece.line = lines + 1
         \/ lines' = lines /\ ~ Begins(piece)
  PROVE  InOrder'
  <1>0. /\ lines \in Nat /\ lines' \in Nat /\ lines <= lines'
        /\ \A f \in File : content[f] \in Seq(Piece)
        /\ path \in File
    BY DEF IInv, LogTypes
  <1>1. ASSUME NEW f \in File, NEW i \in DOMAIN content'[f]
        PROVE  \/ /\ i \in DOMAIN content[f]
                  /\ content'[f][i] = content[f][i]
               \/ /\ f = path /\ i = Len(content[f]) + 1
                  /\ content'[f][i] = piece
    <2>1. CASE f # path
      BY <2>1, Written
    <2>2. CASE f = path
      <3>1. content'[f] = Append(content[f], piece)
        BY <2>2, Written
      <3> QED
        BY <1>0, <2>2, <3>1
    <2> QED
      BY <2>1, <2>2
  <1>2. Sorted'
    <2> SUFFICES ASSUME NEW f \in File, NEW i \in DOMAIN content'[f],
                        NEW j \in DOMAIN content'[f], i < j,
                        Begins(content'[f][j])
                 PROVE  content'[f][i].line < content'[f][j].line
      BY DEF Sorted, Begins
    <2>1. CASE j \in DOMAIN content[f] /\ content'[f][j] = content[f][j]
      <3>1. i \in DOMAIN content[f] /\ content'[f][i] = content[f][i]
        BY <1>0, <1>1, <2>1
      <3> QED
        BY <2>1, <3>1 DEF InOrder, Sorted, Begins
    <2>2. CASE f = path /\ j = Len(content[f]) + 1 /\ content'[f][j] = piece
      <3>1. i \in DOMAIN content[f] /\ content'[f][i] = content[f][i]
        BY <1>0, <1>1, <2>2
      <3>2. content[f][i].line <= lines /\ content[f][i] \in Piece
        BY <1>0, <3>1 DEF IInv, LogShape
      <3>3. piece.line = lines + 1
        BY <2>2 DEF Begins
      <3> QED
        BY <1>0, <2>2, <3>1, <3>2, <3>3 DEF Piece
    <2> QED
      BY <1>1, <2>1, <2>2
  <1>3. UNCHANGED <<fd, pos, at, text, db>>
    BY DEF WriteLog, readVars, effectVars
  <1>4. db \in Seq(Line \cup {Blank}) /\ pos \in Int /\ fd \in File \cup {None}
    BY DEF IInv, EffectTypes, ReadTypes
  <1>5. Follows'
    <2>1. \A k \in DOMAIN db' : db'[k] <= lines'
      BY <1>0, <1>3, <1>4 DEF InOrder, Follows
    <2>2. ASSUME fd # None, NEW i \in Unread', Begins(content'[fd][i])
          PROVE  /\ \A k \in DOMAIN db : db[k] < content'[fd][i].line
                 /\ at = "parse" /\ text.part \in {"all", "bare"} =>
                      text.line < content'[fd][i].line
      <3>1. i \in DOMAIN content'[fd]
        <4>1. content'[fd] \in Seq(Piece)
          BY <1>4, <2>2, Written
        <4> QED
          BY <1>3, <1>4, <2>2, <4>1 DEF Unread, IInv, ReadTypes
      <3>2. CASE i \in DOMAIN content[fd] /\ content'[fd][i] = content[fd][i]
        <4>1. i \in Unread
          BY <1>0, <1>3, <1>4, <2>2, <3>2 DEF Unread
        <4> QED
          BY <2>2, <3>2, <4>1 DEF InOrder, Follows, Begins
      <3>3. CASE content'[fd][i] = piece
        <4>1. piece.line = lines + 1
          BY <2>2, <3>3 DEF Begins
        <4>2. at = "parse" => text.line \in Int
          BY DEF IInv, EffectTypes, Texts, Piece, Nothing
        <4> QED
          BY <1>0, <1>4, <3>3, <4>1, <4>2 DEF InOrder, Follows
      <3> QED
        BY <1>1, <1>4, <2>2, <3>1, <3>2, <3>3
    <2>3. at = "parse" /\ text.part \in {"all", "bare"} =>
            /\ text.line <= lines' /\ fd # None
            /\ \A k \in DOMAIN db : db[k] < text.line
      <3>1. text.line \in Int
        BY DEF IInv, EffectTypes, Texts, Piece, Nothing
      <3> QED
        BY <1>0, <3>1 DEF InOrder, Follows, IInv, ReadShape
    <2> QED
      BY <1>3, <2>1, <2>2, <2>3 DEF Follows, Begins
  <1>6. StoredInOrder'
    BY <1>3 DEF InOrder, StoredInOrder
  <1> QED
    BY <1>2, <1>5, <1>6 DEF InOrder

LEMMA OrderTetragon ==
  ASSUME IInv, InOrder, Tetragon PROVE InOrder'
  <1>1. CASE Create \/ Rename
    BY <1>1 DEF Create, Rename, readVars, effectVars, InOrder, Sorted, Follows,
                StoredInOrder, Unread
  <1>2. ASSUME NEW kind \in Kind, NEW part \in {"all", "bare", "head"},
               BeginLine(kind, part)
        PROVE  InOrder'
    <2>1. PICK piece \in Piece :
           /\ piece.line = lines + 1 /\ path # None /\ WriteLog(piece)
           /\ lines' = lines + 1
      BY <1>2, LineBegins
    <2> QED
      BY <2>1, OrderWrite
  <1>3. CASE EndLine
    <2>1. PICK piece \in Piece :
           /\ piece.part \in {"tail", "newline"}
           /\ path # None /\ WriteLog(piece) /\ lines' = lines
      BY <1>3, LineEnds
    <2> QED
      BY <2>1, OrderWrite DEF Begins
  <1> QED
    BY <1>1, <1>2, <1>3 DEF Tetragon

\* Beyond a later place there is less than beyond an earlier one.
LEMMA FurtherOn ==
  ASSUME NEW p \in Nat, NEW q \in Nat, NEW n \in Nat, q >= p + 1
  PROVE  \A i \in q + 1 .. n : i \in p + 1 .. n /\ p + 1 < i /\ i \in 1 .. n
  OBVIOUS

\* Reading a line.
LEMMA OrderRead ==
  ASSUME IInv, InOrder, ReadLine PROVE InOrder'
  <1> DEFINE next == content[fd][pos + 1]
  <1>1. /\ fd \in File /\ content[fd] \in Seq(Piece) /\ pos \in Nat
        /\ pos + 1 \in 1 .. Len(content[fd])
        /\ db \in Seq(Line \cup {Blank})
    <2>1. fd \in File /\ db \in Seq(Line \cup {Blank})
      BY DEF ReadLine, IInv, ReadTypes, ReadShape, EffectTypes
    <2>2. content[fd] \in Seq(Piece)
      BY <2>1 DEF IInv, LogTypes
    <2>3. pos \in 0 .. Len(content[fd]) /\ pos < Len(content[fd])
      BY <2>1, TetragonMonitorAssumption DEF ReadLine, IInv, ReadTypes
    <2> QED
      BY <2>1, <2>2, <2>3
  <1>2. /\ next \in Piece /\ next.line <= lines /\ pos + 1 \in Unread
    BY <1>1 DEF IInv, LogShape, Unread
  <1>3. /\ pos' \in Nat /\ pos' >= pos + 1 /\ at' = "parse"
        /\ UNCHANGED <<content, lines, fd, db>>
    BY <1>1 DEF ReadLine, Goto, logVars, effectVars
  <1>4. text'.line = next.line /\ (text'.part \in {"all", "bare"} => Begins(next))
    <2>1. CASE Joined
      BY <1>2, <2>1 DEF ReadLine, Joined, Begins, Piece
    <2>2. CASE ~ Joined
      BY <1>2, <2>2 DEF ReadLine, Begins
    <2> QED
      BY <2>1, <2>2
  <1>5. \A i \in Unread' : i \in Unread /\ pos + 1 < i /\ i \in DOMAIN content[fd]
    <2>1. Len(content[fd]) \in Nat /\ DOMAIN content[fd] = 1 .. Len(content[fd])
      BY <1>1
    <2>2. Unread' = pos' + 1 .. Len(content[fd])
      BY <1>3 DEF Unread
    <2>3. \A i \in pos' + 1 .. Len(content[fd]) :
            i \in pos + 1 .. Len(content[fd]) /\ pos + 1 < i
            /\ i \in 1 .. Len(content[fd])
      BY <1>1, <1>3, <2>1, FurtherOn
    <2>4. Unread = pos + 1 .. Len(content[fd])
      BY DEF Unread
    <2> QED
      BY <2>1, <2>2, <2>3, <2>4, Zenon
  <1>6. Follows'
    <2>1. \A k \in DOMAIN db, i \in Unread' :
            Begins(content[fd][i]) => db[k] < content[fd][i].line
      BY <1>1, <1>5 DEF InOrder, Follows
    <2>2. Begins(next) => \A k \in DOMAIN db : db[k] < next.line
      BY <1>1, <1>2 DEF InOrder, Follows
    <2>3. \A i \in Unread' : Begins(content[fd][i]) =>
                               next.line < content[fd][i].line
      BY <1>1, <1>5 DEF InOrder, Sorted
    <2> QED
      BY <1>2, <1>3, <1>4, <2>1, <2>2, <2>3 DEF InOrder, Follows, Begins
  <1>7. Sorted' /\ StoredInOrder'
    BY <1>3 DEF InOrder, Sorted, StoredInOrder, Begins
  <1> QED
    BY <1>6, <1>7 DEF InOrder

\* Storing an event, under the number of its line or none.
LEMMA OrderStore ==
  ASSUME IInv, InOrder, Store PROVE InOrder'
  <1>1. /\ at = "parse" /\ at' = "tell" /\ fd # None
        /\ UNCHANGED <<content, lines, fd, pos>>
    BY DEF Store, Goto, logVars, readVars, IInv, ReadShape
  <1>2. db \in Seq(Line \cup {Blank}) /\ lines \in Nat
    BY DEF IInv, EffectTypes, LogTypes
  <1>3. \A i \in Unread : content[fd][i].line \in Line
    <2> SUFFICES ASSUME NEW i \in Unread PROVE content[fd][i].line \in Line
      OBVIOUS
    <2>1. content[fd] \in Seq(Piece) /\ pos \in Nat
      BY <1>1 DEF IInv, LogTypes, ReadTypes
    <2>2. Len(content[fd]) \in Nat
      BY <2>1
    <2>3. i \in 1 .. Len(content[fd])
      BY <2>1, <2>2 DEF Unread
    <2>4. content[fd][i] \in Piece
      BY <2>1, <2>3
    <2> QED
      BY <2>4 DEF Piece
  <1>4. \/ text'.line = Blank
        \/ text' = text /\ text.part \in {"all", "bare"} /\ text.line \in Int
    BY DEF Store, EventOf, Nothing, IInv, EffectTypes, Texts, Piece
  <1>5. CASE db' = db
    BY <1>1, <1>5 DEF InOrder, Sorted, Follows, StoredInOrder, Unread, Begins
  <1>6. CASE db' = Append(db, text'.line)
    <2> DEFINE line == text'.line
    <2>1. /\ line \in Int /\ line <= lines
          /\ line # Blank => \A k \in DOMAIN db : db[k] < line
          /\ \A i \in Unread : Begins(content[fd][i]) =>
                                 line < content[fd][i].line
      BY <1>1, <1>2, <1>3, <1>4 DEF InOrder, Follows
    <2>2. ASSUME NEW k \in DOMAIN db'
          PROVE  \/ k \in DOMAIN db /\ db'[k] = db[k]
                 \/ k = Len(db) + 1 /\ db'[k] = line
      BY <1>2, <1>6, <2>1
    <2> HIDE DEF line
    <2>3. StoredInOrder'
      <3> SUFFICES ASSUME NEW i \in DOMAIN db', NEW j \in DOMAIN db', i < j,
                          db'[i] # Blank, db'[j] # Blank
                   PROVE  db'[i] < db'[j]
        BY DEF StoredInOrder
      <3>1. CASE j \in DOMAIN db /\ db'[j] = db[j]
        <4>1. i \in DOMAIN db /\ db'[i] = db[i]
          BY <1>2, <2>2, <3>1
        <4> QED
          BY <3>1, <4>1 DEF InOrder, StoredInOrder
      <3>2. CASE j = Len(db) + 1 /\ db'[j] = line
        <4>1. i \in DOMAIN db /\ db'[i] = db[i]
          BY <1>2, <2>2, <3>2
        <4> QED
          BY <2>1, <3>2, <4>1
      <3> QED
        BY <2>2, <3>1, <3>2
    <2>4. \A k \in DOMAIN db' : db'[k] <= lines
      BY <2>1, <2>2 DEF InOrder, Follows
    <2>5. \A k \in DOMAIN db', i \in Unread :
            Begins(content[fd][i]) => db'[k] < content[fd][i].line
      BY <1>1, <2>1, <2>2 DEF InOrder, Follows
    <2>6. Follows'
      BY <1>1, <2>4, <2>5 DEF Follows, Unread, Begins
    <2>7. Sorted'
      BY <1>1 DEF InOrder, Sorted, Begins
    <2> QED
      BY <2>3, <2>6, <2>7 DEF InOrder
  <1> QED
    BY <1>5, <1>6 DEF Store, Insert

LEMMA OrderMonitor ==
  ASSUME IInv, InOrder, Monitor PROVE InOrder'
  <1>1. CASE Start \/ Open \/ Seek \/ Watch
    <2>1. /\ db = <<>> /\ at' # "parse" /\ UNCHANGED <<content, lines, db>>
      BY <1>1 DEF Start, Open, Seek, Watch, Goto, logVars, effectVars, IInv,
                  ReadShape
    <2> QED
      BY <2>1 DEF InOrder, Sorted, Follows, StoredInOrder, Begins
  <1>2. CASE Poll \/ EndOfFile \/ Reject \/ Tell \/ CountAlert \/ Count
    <2>1. at' # "parse" /\ UNCHANGED <<content, lines, db, fd, pos>>
      BY <1>2 DEF Poll, EndOfFile, Reject, Tell, CountAlert, Count, Goto,
                  logVars, readVars, effectVars
    <2> QED
      BY <2>1 DEF InOrder, Sorted, Follows, StoredInOrder, Unread, Begins
  <1>3. CASE Sleep
    BY <1>3 DEF Sleep, vars, logVars, readVars, effectVars, InOrder, Sorted,
                Follows, StoredInOrder, Unread, Begins
  <1> QED
    BY <1>1, <1>2, <1>3, OrderRead, OrderStore DEF Monitor

LEMMA OrderStep == IInv /\ InOrder /\ [Next]_vars => InOrder'
  <1> SUFFICES ASSUME IInv, InOrder, [Next]_vars PROVE InOrder'
    OBVIOUS
  <1>1. CASE UNCHANGED vars
    BY <1>1 DEF vars, logVars, readVars, effectVars, InOrder, Sorted, Follows,
                StoredInOrder, Unread, Begins
  <1> QED
    BY <1>1, OrderTetragon, OrderMonitor DEF Next

\* The list of events shows each line at most once and in the order in which
\* Tetragon wrote them, for any number of lines, however they are cut into
\* pieces and whichever insertions fail (tetragon_events.c:235-258, 300-334,
\* 374-380).
THEOREM EventsInOrder == Spec => []StoredInOrder
  <1>1. Init => InOrder
    BY DEF Init, InOrder, Sorted, Follows, StoredInOrder, Unread
  <1>2. InOrder => StoredInOrder
    BY DEF InOrder
  <1> QED
    BY <1>1, <1>2, InvInit, InvStep, OrderStep, PTL DEF Spec

=============================================================================
