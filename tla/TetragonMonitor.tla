--------------------------- MODULE TetragonMonitor ---------------------------
(***************************************************************************)
(* The monitor thread of src/tetragon_events.c (lines 258-412), which      *)
(* follows the log that Tetragon writes: it opens the file, seeks to its   *)
(* end, watches it with inotify, and whenever it has been modified reads   *)
(* lines up to the end of the file; each line that parses is stored in the *)
(* database, broadcast and counted.                                        *)
(*                                                                         *)
(* Tetragon, the file system and inotify are modelled from how the file    *)
(* uses them.  A file is a sequence of pieces: a whole line, or a line in  *)
(* two pieces, because the reader may see a part of it before the rest is  *)
(* written.  A line is a number, in the order of writing.  Rotation        *)
(* renames the file and then creates another one under the same name; the  *)
(* name is path, the files are numbers.                                    *)
(*                                                                         *)
(* main starts the thread once; nothing calls tetragon_stop_monitor.       *)
(***************************************************************************)
EXTENDS Integers, Sequences, FiniteSets

CONSTANTS
  Kind,     \* kinds of lines that Tetragon writes
  MaxLines, \* bound: lines of a run
  MaxFiles  \* bound: files of a run

\* Kinds: an event without a warning, with one, with one and a process killed,
\* and one that fills the line buffer of 8192 bytes.
ASSUME TetragonMonitorAssumption ==
  /\ Kind \subseteq {"info", "warning", "killed", "long"}
  /\ MaxLines \in Nat
  /\ MaxFiles \in Nat

None  == 0
File  == 1 .. MaxFiles
Line  == 1 .. MaxLines
Blank == 0 \* an event without any field

\* Parts: a line with its newline; the beginning and the rest of a line; a line
\* without its newline, and the newline.
Piece == [line : Line, kind : Kind,
          part : {"all", "head", "tail", "bare", "newline"}]

VARIABLES
  path,    \* the file with the name of the log, or None
  files,   \* files created so far
  lines,   \* lines begun so far
  half,    \* the line whose rest is not written yet, as its first piece
  content, \* pieces of each file
  fd,      \* the file the thread has opened
  pos,     \* the pieces of it that the thread has read or skipped
  watched, \* the file with the inotify watch
  eof,     \* end-of-file indicator of the stream
  pending, \* the inotify queue holds an event
  at,      \* label of the thread
  text,    \* the line it is processing
  stats,   \* tetragon_state.stats
  db,      \* the events stored
  told,    \* history: lines of the messages broadcast
  handled, \* history: lines processed to the end
  ready    \* history: lines begun when the watch was placed

logVars    == <<path, files, lines, half, content>>
readVars   == <<fd, pos, eof, watched>>
effectVars == <<stats, db, told, handled>>
vars == <<logVars, readVars, pending, at, text, effectVars, ready>>

Nothing == [line |-> Blank, kind |-> "none", part |-> "all"]

Init ==
  /\ path = None
  /\ files = 0
  /\ lines = 0
  /\ half = Nothing
  /\ content = [f \in File |-> <<>>]
  /\ fd = None
  /\ pos = 0
  /\ eof = FALSE
  /\ watched = None
  /\ pending = FALSE
  /\ at = "none"
  /\ text = Nothing
  /\ stats = [total |-> 0, alerts |-> 0, blocked |-> 0]
  /\ db = <<>>
  /\ told = {}
  /\ handled = {}
  /\ ready = 0

-----------------------------------------------------------------------------
(* Tetragon and the file system *)

Create ==
  /\ path = None
  /\ files < MaxFiles
  /\ files' = files + 1
  /\ path' = files'
  /\ UNCHANGED <<lines, half, content, readVars, pending, at, text, effectVars,
                 ready>>

Rename ==
  /\ path # None
  /\ half = Nothing
  /\ path' = None
  /\ UNCHANGED <<files, lines, half, content, readVars, pending, at, text,
                 effectVars, ready>>

\* One write to the log, which queues an event if the file is watched.
WriteLog(piece) ==
  /\ content' = [content EXCEPT ![path] = Append(@, piece)]
  /\ pending' = (pending \/ watched = path)
  /\ UNCHANGED <<path, files, readVars, at, text, effectVars, ready>>

BeginLine(kind, part) ==
  LET piece == [line |-> lines + 1, kind |-> kind, part |-> part]
  IN  /\ path # None
      /\ half = Nothing
      /\ lines < MaxLines
      /\ lines' = lines + 1
      /\ half' = IF part = "all" THEN Nothing ELSE piece
      /\ WriteLog(piece)

EndLine ==
  /\ half # Nothing
  /\ half' = Nothing
  /\ UNCHANGED lines
  /\ WriteLog([half EXCEPT !.part = IF @ = "head" THEN "tail" ELSE "newline"])

Tetragon ==
  \/ Create
  \/ Rename
  \/ \E kind \in Kind \ {"long"}, part \in {"all", "bare"} :
       BeginLine(kind, part)
  \/ \E kind \in Kind : BeginLine(kind, "head")
  \/ EndLine

-----------------------------------------------------------------------------
(* tetragon_event_monitor_thread *)

Goto(label) == at' = label

Start ==
  /\ at = "none"
  /\ Goto("open")
  /\ UNCHANGED <<logVars, readVars, pending, text, effectVars, ready>>

\* The thread ends if there is no log.
Open ==
  /\ at = "open"
  /\ fd' = path
  /\ Goto(IF path = None THEN "gone" ELSE "seek")
  /\ UNCHANGED <<logVars, pos, eof, watched, pending, text, effectVars, ready>>

\* fseek(log_fp, 0, SEEK_END)
Seek ==
  /\ at = "seek"
  /\ pos' = Len(content[fd])
  /\ Goto("watch")
  /\ UNCHANGED <<logVars, fd, eof, watched, pending, text, effectVars, ready>>

\* The watch is on what has the name now.
Watch ==
  /\ at = "watch"
  /\ watched' = path
  /\ ready' = lines
  /\ Goto(IF path = None THEN "gone" ELSE "poll")
  /\ UNCHANGED <<logVars, fd, pos, eof, pending, text, effectVars>>

\* read(inotify_fd) takes all the events there are.
Poll ==
  /\ at = "poll"
  /\ pending
  /\ pending' = FALSE
  /\ Goto("read")
  /\ UNCHANGED <<logVars, readVars, text, effectVars, ready>>

\* No event: sleep.
Sleep ==
  /\ at = "poll"
  /\ ~ pending
  /\ UNCHANGED vars

\* The pieces that fgets returns as one line, from the next one on: the two
\* halves of a line, if both are there and fit in the buffer.
Joined ==
  LET next == content[fd][pos + 1]
  IN  /\ next.part \in {"head", "bare"}
      /\ next.kind # "long"
      /\ pos + 2 <= Len(content[fd])

ReadLine ==
  /\ at = "read"
  /\ pos < Len(content[fd])
  /\ text' = IF Joined THEN [content[fd][pos + 1] EXCEPT !.part = "all"]
             ELSE content[fd][pos + 1]
  /\ pos' = pos + (IF Joined THEN 2 ELSE 1)
  /\ eof' = (text'.part \in {"head", "bare"} /\ text'.kind # "long")
  /\ Goto("parse")
  /\ UNCHANGED <<logVars, fd, watched, pending, effectVars, ready>>

\* Mutation: the reader leaves after each line, whatever else there is.
EndOfFileAlways ==
  /\ at = "read"
  /\ Goto("poll")
  /\ UNCHANGED <<logVars, readVars, pending, text, effectVars, ready>>

\* Mutation: rewind, which clears the end-of-file indicator too.
EndOfFileRewind ==
  /\ at = "read"
  /\ pos = Len(content[fd]) \/ eof
  /\ pos' = 0
  /\ eof' = FALSE
  /\ Goto("poll")
  /\ UNCHANGED <<logVars, fd, watched, pending, text, effectVars, ready>>

\* fgets returns NULL at the end of the file, and after it has met the end in
\* the middle of a line even if there is more by now; then clearerr.
EndOfFile ==
  /\ at = "read"
  /\ pos = Len(content[fd]) \/ eof
  /\ eof' = FALSE
  /\ Goto("poll")
  /\ UNCHANGED <<logVars, fd, pos, watched, pending, text, effectVars, ready>>

\* What tetragon_parse_event makes of a text that is a JSON value.  The rest of
\* a line may begin with one: then no field is found.
EventOf(piece) ==
  IF piece.part = "tail" THEN [Nothing EXCEPT !.kind = "info"] ELSE piece

\* tetragon_classify_severity: warnings and above
Severe(kind) == kind \in {"warning", "killed"}

\* The action is Sigkill or block.
Blocked(kind) == kind = "killed"

\* db_insert_security_event: the insertion may fail, which nobody notices.
Insert(line) ==
  \/ db' = Append(db, line)
  \/ UNCHANGED db

\* Mutation: a line that does not parse ends the reading.
RejectLeaves ==
  /\ at = "parse"
  /\ text.part \in {"head", "tail", "newline"}
  /\ text' = Nothing
  /\ Goto("poll")
  /\ UNCHANGED <<logVars, readVars, pending, effectVars, ready>>

\* A piece of a line does not parse.
Reject ==
  /\ at = "parse"
  /\ text.part \in {"head", "tail", "newline"}
  /\ text' = Nothing
  /\ Goto("read")
  /\ UNCHANGED <<logVars, readVars, pending, effectVars, ready>>

\* tetragon_parse_event and tetragon_store_event
Store ==
  /\ at = "parse"
  /\ text.part \in {"all", "bare", "tail"}
  /\ text' = EventOf(text)
  /\ Insert(text'.line)
  /\ Goto("tell")
  /\ UNCHANGED <<logVars, readVars, pending, stats, told, handled, ready>>

\* ws_broadcast_message: an alert, or a silent update.
Tell ==
  /\ at = "tell"
  /\ told' = told \cup ({text.line} \ {Blank})
  /\ Goto(IF Severe(text.kind) THEN "alerted" ELSE "count")
  /\ UNCHANGED <<logVars, readVars, pending, text, stats, db, handled, ready>>

\* Mutation: an event counts either as an alert or as blocked.
CountAlertEither ==
  /\ at = "alerted"
  /\ stats' = IF Blocked(text.kind) THEN [stats EXCEPT !.blocked = @ + 1]
              ELSE [stats EXCEPT !.alerts = @ + 1]
  /\ Goto("count")
  /\ UNCHANGED <<logVars, readVars, pending, text, db, told, handled, ready>>

CountAlert ==
  /\ at = "alerted"
  /\ stats' = [stats EXCEPT !.alerts  = @ + 1,
                            !.blocked = @ + (IF Blocked(text.kind) THEN 1
                                             ELSE 0)]
  /\ Goto("count")
  /\ UNCHANGED <<logVars, readVars, pending, text, db, told, handled, ready>>

Count ==
  /\ at = "count"
  /\ stats' = [stats EXCEPT !.total = @ + 1]
  /\ handled' = handled \cup ({text.line} \ {Blank})
  /\ text' = Nothing
  /\ Goto("read")
  /\ UNCHANGED <<logVars, readVars, pending, db, told, ready>>

Monitor ==
  \/ Start
  \/ Open
  \/ Seek
  \/ Watch
  \/ Poll
  \/ Sleep
  \/ ReadLine
  \/ EndOfFile
  \/ Reject
  \/ Store
  \/ Tell
  \/ CountAlert
  \/ Count

Next == Tetragon \/ Monitor

Spec == Init /\ [][Next]_vars

\* The thread runs; it sleeps for a tenth of a second at a time.  Tetragon
\* need not write anything.
FairSpec == Spec /\ WF_vars(Monitor)

-----------------------------------------------------------------------------
(* Properties *)

TypeOK ==
  /\ path \in File \cup {None}
  /\ files \in 0 .. MaxFiles
  /\ lines \in 0 .. MaxLines
  /\ half \in Piece \cup {Nothing}
  /\ \A f \in File : content[f] \in Seq(Piece)
  /\ fd \in File \cup {None}
  /\ pos \in 0 .. (IF fd = None THEN 0 ELSE Len(content[fd]))
  /\ eof \in BOOLEAN
  /\ watched \in File \cup {None}
  /\ pending \in BOOLEAN
  /\ at \in {"none", "open", "gone", "seek", "watch", "poll", "read", "parse",
            "tell", "alerted", "count"}
  /\ text \in Piece \cup {Nothing, [Nothing EXCEPT !.kind = "info"]}
  /\ stats.blocked <= stats.alerts /\ stats.alerts <= stats.total + 1
  /\ db \in Seq(Line \cup {Blank})
  /\ handled \subseteq told /\ told \subseteq Line
  /\ ready \in 0 .. lines

Polls == at \notin {"none", "open", "gone", "seek", "watch"}

\* The list of events shows each line at most once, and in the order in which
\* Tetragon wrote them, however the appends fall between the reads.
StoredInOrder ==
  \A i, j \in DOMAIN db :
    i < j /\ db[i] # Blank /\ db[j] # Blank => db[i] < db[j]

\* The thread never goes to sleep on lines written since it set the watch: if
\* no event is queued then it has read them, whatever was appended while it
\* was busy with others.
NothingOverlooked ==
  at = "poll" /\ ~ pending /\ fd = watched =>
    \A i \in pos + 1 .. Len(content[fd]) : content[fd][i].line <= ready

WrittenWhole(f, line) ==
  \E i \in DOMAIN content[f] :
    content[f][i].line = line /\ content[f][i].part \in {"all", "bare"}

\* Each line that Tetragon adds in one piece to the watched file, after the
\* watch was set, is in the end parsed, broadcast and counted.
Handled ==
  \A line \in Line :
    Polls /\ fd = watched /\ line > ready /\ WrittenWhole(fd, line)
      ~> line \in handled

\* docs/tetragon-integration.md:131-136 promises that Cyrenus "automatically"
\* monitors the log, stores events and raises alerts, and :247 that the logs
\* "are rotated automatically every hour": a line written to the log while the
\* thread polls should be handled.  The thread goes on reading the file that
\* was renamed.
HandledAfterRotation ==
  \A line \in Line :
    Polls /\ line > ready /\ (\E f \in File : WrittenWhole(f, line))
      ~> line \in handled

=============================================================================
