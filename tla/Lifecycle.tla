------------------------------ MODULE Lifecycle ------------------------------
(***************************************************************************)
(* The life of the daemon (src/main.c): start-up, which may fail at every  *)
(* step, the threads that use what it has set up, shutdown, which takes it *)
(* away while two of the threads go on, and the next start.  The interface *)
(* outlives the process: a program stays attached until it is detached.    *)
(* The thresholds are those of DefenseConfig.                              *)
(*                                                                         *)
(* The uplink thread changes nothing, and the statistics thread touches    *)
(* nothing that shutdown takes away: the descriptors of the maps are never *)
(* closed (bpf_loader.c:19 hides the variable that unload_bpf_program      *)
(* tests), and broadcasts go to a static buffer.                           *)
(***************************************************************************)
EXTENDS DefenseConfig

CONSTANTS
  Interface, \* network interfaces
  Native,    \* those whose driver implements XDP itself
  MaxStarts  \* bound: processes started

ASSUME LifecycleAssumption ==
  /\ Native \subseteq Interface
  /\ {"unset", "broken"} \cap Interface = {}
  /\ MaxStarts \in Nat

Unset  == "unset"  \* a source says nothing of the interface
Broken == "broken" \* a configuration file that cannot be parsed

\* Where the interface may be named: arguments, environment, file.
Sources == [arg : Interface \cup {Unset}, env : Interface \cup {Unset},
            file : Interface \cup {Unset, Broken}]

Starting == {"database", "network", "load", "detach", "attach", "maps", "http",
             "websocket", "tetragon", "handlers"}
Stopping == {"stop_http", "interrupt", "destroy", "forget", "unload", "close",
             "drop", "shut", "exit"}

VARIABLES
  main,        \* where main is; "off": there is no process
  running,     \* cleared by the signal handler
  starts,      \* processes started so far
  wanted,      \* history: the interface the arguments name
  interface,   \* config.interface
  dry_run,     \* config.dry_run
  undetached,  \* history: the process could not detach when it last tried
  ended,       \* how the last process ended
  attached,    \* for each interface the process whose program it runs, or 0
  handle,      \* db.db: "null", "live", or a pointer to a "freed" connection
  is_open,     \* db.is_open
  context,     \* of libwebsockets: "null", "live" or "freed"
  interrupted, \* tells the service thread to end
  ws,          \* where the service thread is
  tetragon,    \* where the event monitor is in storing an event
  query,       \* the HTTP thread handles a request that uses the database
  unsafe       \* history: the threads that have used what had been taken away

optionVars   == <<starts, wanted, interface, dry_run>>
linkVars     == <<attached, undetached>>
resourceVars == <<handle, is_open, context, interrupted>>
threadVars   == <<ws, tetragon, query, unsafe>>
vars == <<main, running, ended, linkVars, phase, configVars, optionVars,
          resourceVars, threadVars>>

Init ==
  /\ ConfigInit
  /\ main = "off"
  /\ running = TRUE
  /\ starts = 0
  /\ wanted = Unset
  /\ interface = Unset
  /\ dry_run = FALSE
  /\ undetached = FALSE
  /\ ended = "none"
  /\ attached = [i \in Interface |-> 0]
  /\ handle = "null"
  /\ is_open = FALSE
  /\ context = "null"
  /\ interrupted = FALSE
  /\ ws = "none"
  /\ tetragon = "none"
  /\ query = FALSE
  /\ unsafe = {}

-----------------------------------------------------------------------------
(* Options *)

LoadEnv(i, s)   == IF s.env = Unset THEN i ELSE s.env
ParseArgs(i, s) == IF s.arg = Unset THEN i ELSE s.arg

\* A file that cannot be parsed, or lacks a setting, is an error.
Valid(file) == file # Broken

\* The file must name an interface (that it is not empty is assumed).
LoadFile(i, s) == IF Valid(s.file) THEN s.file ELSE i

\* getopt_long goes on where the first pass has ended, after the last option.
ParseArgsAgain(i, s) == i

\* The interface after all sources have been read.
InForce(s) ==
  LET first == ParseArgs(LoadEnv(Unset, s), s)
  IN  IF s.file = Unset THEN first
      ELSE ParseArgsAgain(LoadEnv(LoadFile(first, s), s), s)

-----------------------------------------------------------------------------
(* Steps of main *)

Proceed(label) == main' = label /\ UNCHANGED <<running, ended, optionVars>>

\* The process ends, and all it has in memory with it.
End(how) ==
  /\ main' = "off"
  /\ ended' = how
  /\ running' = TRUE
  /\ phase' = "down"
  /\ handle' = "null"
  /\ is_open' = FALSE
  /\ context' = "null"
  /\ interrupted' = FALSE
  /\ ws' = "none"
  /\ tetragon' = "none"
  /\ query' = FALSE
  /\ unsafe' = {}
  /\ UNCHANGED optionVars

\* The sources must name an interface; what else they say may be refused too.
Start ==
  /\ main = "off"
  /\ starts < MaxStarts
  /\ starts' = starts + 1
  /\ \E s \in Sources :
       /\ wanted' = s.arg
       /\ interface' = InForce(s)
       /\ \/ /\ Valid(s.file) /\ InForce(s) # Unset
             /\ main' = "database"
             /\ ended' = "none"
          \/ main' = "off" /\ ended' = "refused"
  /\ dry_run' \in BOOLEAN
  /\ undetached' = FALSE
  /\ InitDefaults
  /\ UNCHANGED <<running, attached, phase, resourceVars, threadVars>>

OpenDatabase ==
  /\ main = "database"
  /\ \/ /\ Proceed("network")
        /\ handle' = "live"
        /\ is_open' = TRUE
        /\ UNCHANGED <<phase, context, interrupted, threadVars>>
     \/ End("failed")
  /\ UNCHANGED <<linkVars, configVars>>

\* The address of the interface is needed, and not kept here.
FindAddress ==
  /\ main = "network"
  /\ \/ /\ Proceed(IF dry_run THEN "http" ELSE "load")
        /\ UNCHANGED <<phase, resourceVars, threadVars>>
     \/ End("failed")
  /\ UNCHANGED <<linkVars, configVars>>

LoadProgram ==
  /\ main = "load"
  /\ \/ /\ Proceed("detach")
        /\ UNCHANGED <<phase, resourceVars, threadVars>>
     \/ End("failed")
  /\ UNCHANGED <<linkVars, configVars>>

\* The kernel detaches, when asked to without naming a mode, the program that
\* the driver runs, if the driver can run one.  Programs are attached in the
\* generic mode here: where the driver runs XDP itself they stay, and the
\* kernel reports success.
Detached == [attached EXCEPT ![interface] =
               IF interface \in Native THEN @ ELSE 0]

\* Detaching may fail, and is then only reported: the call itself, or, before
\* unload_bpf_program comes to it, the lookup of the interface by its name.
Detach ==
  \/ attached' = Detached /\ undetached' = FALSE
  \/ attached' = attached /\ undetached' = TRUE

\* Detaching the program of an earlier process; a failure is a warning.
DetachOld ==
  /\ main = "detach"
  /\ Proceed("attach")
  /\ Detach
  /\ UNCHANGED <<phase, configVars, resourceVars, threadVars>>

\* Mutation: a program that is attached already is a warning only.
AttachRegardless ==
  /\ main = "attach"
  /\ \/ /\ Proceed("maps")
        /\ IF attached[interface] = 0
           THEN attached' = [attached EXCEPT ![interface] = starts] /\ NewMap
           ELSE UNCHANGED <<attached, configVars>>
        /\ UNCHANGED <<phase, resourceVars, threadVars>>
     \/ /\ End("failed")
        /\ UNCHANGED <<attached, configVars>>
  /\ UNCHANGED undetached

\* The kernel refuses (EBUSY) where a program is attached in this mode.
Attach ==
  /\ main = "attach"
  /\ \/ /\ attached[interface] = 0
        /\ Proceed("maps")
        /\ attached' = [attached EXCEPT ![interface] = starts]
        /\ NewMap
        /\ UNCHANGED <<phase, resourceVars, threadVars>>
     \/ /\ attached[interface] # 0
        /\ End("busy")
        /\ UNCHANGED <<attached, configVars>>
     \/ /\ End("failed")
        /\ UNCHANGED <<attached, configVars>>
  /\ UNCHANGED undetached

\* A map that is not found, or a host_ip map that cannot be written, ends the
\* process after the program has been attached.
FindMaps ==
  /\ main = "maps"
  /\ \/ /\ Proceed("http")
        /\ UNCHANGED <<phase, resourceVars, threadVars>>
     \/ End("maps")
  /\ UNCHANGED <<linkVars, configVars>>

\* Mutation: a failure to start the server ends the process at once.
StartHttpOrExit ==
  /\ main = "http"
  /\ \/ /\ Proceed("websocket")
        /\ phase' = "serving"
        /\ UNCHANGED <<linkVars, resourceVars, threadVars>>
     \/ /\ End("failed")
        /\ UNCHANGED linkVars
  /\ UNCHANGED configVars

\* If the port cannot be had the program is unloaded again.
StartHttp ==
  /\ main = "http"
  /\ \/ /\ Proceed("websocket")
        /\ phase' = "serving"
        /\ UNCHANGED <<linkVars, resourceVars, threadVars>>
     \/ /\ End("failed")
        /\ IF dry_run THEN UNCHANGED linkVars ELSE Detach
  /\ UNCHANGED configVars

\* Neither a context that cannot be created nor a thread stops the daemon.
StartWebsocket ==
  /\ main = "websocket"
  /\ Proceed("tetragon")
  /\ context' \in {"live", "null"}
  /\ ws' \in {"test", "none"}
  /\ UNCHANGED <<linkVars, phase, configVars, handle, is_open, interrupted,
                 tetragon, query, unsafe>>

\* Nor does a monitor that cannot be started.  g_db is set with it.
StartTetragon ==
  /\ main = "tetragon"
  /\ Proceed("handlers")
  /\ tetragon' \in {"idle", "none"}
  /\ UNCHANGED <<linkVars, phase, configVars, resourceVars, ws, query, unsafe>>

InstallHandlers ==
  /\ main = "handlers"
  /\ Proceed("loop")
  /\ UNCHANGED <<linkVars, phase, configVars, resourceVars, threadVars>>

Loop ==
  /\ main = "loop"
  /\ ~ running
  /\ Proceed("stop_http")
  /\ UNCHANGED <<linkVars, phase, configVars, resourceVars, threadVars>>

\* Mutation: the server is not waited for.
StopHttpAtOnce ==
  /\ main = "stop_http"
  /\ Proceed("interrupt")
  /\ phase' = "down"
  /\ UNCHANGED <<linkVars, configVars, resourceVars, threadVars>>

\* MHD_stop_daemon waits until its thread has ended.
StopHttp ==
  /\ main = "stop_http"
  /\ phase = "serving" /\ ~ query
  /\ Proceed("interrupt")
  /\ phase' = "down"
  /\ UNCHANGED <<linkVars, configVars, resourceVars, threadVars>>

\* ws_server_cleanup, in three steps that the service thread may fall between.
Interrupt ==
  /\ main = "interrupt"
  /\ Proceed(IF context = "null" THEN "unload" ELSE "destroy")
  /\ interrupted' = TRUE
  /\ UNCHANGED <<linkVars, phase, configVars, handle, is_open, context,
                 threadVars>>

DestroyContext ==
  /\ main = "destroy"
  /\ Proceed("forget")
  /\ context' = "freed"
  /\ UNCHANGED <<linkVars, phase, configVars, handle, is_open, interrupted,
                 threadVars>>

ForgetContext ==
  /\ main = "forget"
  /\ Proceed("unload")
  /\ context' = "null"
  /\ UNCHANGED <<linkVars, phase, configVars, handle, is_open, interrupted,
                 threadVars>>

Unload ==
  /\ main = "unload"
  /\ Proceed("close")
  /\ IF dry_run THEN UNCHANGED linkVars ELSE Detach
  /\ UNCHANGED <<phase, configVars, resourceVars, threadVars>>

\* database_close, in three steps too.  SQLite refuses to close a connection
\* with a statement in progress, and leaves it open.
CloseHandle ==
  /\ main = "close"
  /\ Proceed("drop")
  /\ handle' = IF tetragon = "step" THEN "live" ELSE "freed"
  /\ UNCHANGED <<linkVars, phase, configVars, is_open, context, interrupted,
                 threadVars>>

DropHandle ==
  /\ main = "drop"
  /\ Proceed("shut")
  /\ handle' = "null"
  /\ UNCHANGED <<linkVars, phase, configVars, is_open, context, interrupted,
                 threadVars>>

Shut ==
  /\ main = "shut"
  /\ Proceed("exit")
  /\ is_open' = FALSE
  /\ UNCHANGED <<linkVars, phase, configVars, handle, context, interrupted,
                 threadVars>>

Exit ==
  /\ main = "exit"
  /\ End("stopped")
  /\ UNCHANGED <<linkVars, configVars>>

Main ==
  \/ Start \/ OpenDatabase \/ FindAddress \/ LoadProgram \/ DetachOld
  \/ Attach \/ FindMaps \/ StartHttp \/ StartWebsocket \/ StartTetragon
  \/ InstallHandlers \/ Loop \/ StopHttp \/ Interrupt \/ DestroyContext
  \/ ForgetContext \/ Unload \/ CloseHandle \/ DropHandle \/ Shut \/ Exit

-----------------------------------------------------------------------------
(* Signals *)

\* SIGINT or SIGTERM: until the handlers are installed, at the end of start-up,
\* the process ends as it is.
Terminate ==
  /\ main # "off"
  /\ IF main \in Starting
     THEN End("terminated")
     ELSE /\ running
          /\ running' = FALSE
          /\ UNCHANGED <<main, phase, ended, optionVars, resourceVars,
                         threadVars>>
  /\ UNCHANGED <<linkVars, configVars>>

\* A signal that cannot be handled, or a crash.
Kill ==
  /\ main # "off"
  /\ End("killed")
  /\ UNCHANGED <<linkVars, configVars>>

-----------------------------------------------------------------------------
(* Threads *)

mainVars == <<main, running, ended, linkVars, optionVars, resourceVars>>

\* thread has used something: noted if it had been taken away.  What such a use
\* does is undefined: it may do nothing, or crash the process (Kill).
Used(thread, ok) == unsafe' = IF ok THEN unsafe ELSE unsafe \cup {thread}

\* The HTTP thread handles settings, and requests that use the database.
Settings ==
  /\ ~ query
  /\ Post \/ Publish(~ dry_run)
  /\ UNCHANGED <<mainVars, threadVars>>

BeginQuery ==
  /\ phase = "serving" /\ ~ query
  /\ query' = TRUE
  /\ UNCHANGED <<mainVars, phase, configVars, ws, tetragon, unsafe>>

EndQuery ==
  /\ query
  /\ query' = FALSE
  /\ Used("http", handle = "live")
  /\ UNCHANGED <<mainVars, phase, configVars, ws, tetragon>>

\* The service thread tests the flag and the context, then reads the context
\* again for each call of the library.
WsTest ==
  /\ ws = "test"
  /\ ws' = IF ~ interrupted /\ context # "null" THEN "call" ELSE "ended"
  /\ UNCHANGED <<mainVars, phase, configVars, tetragon, query, unsafe>>

WsCall ==
  /\ ws = "call"
  /\ ws' = "inside"
  /\ Used("ws", context = "live")
  /\ UNCHANGED <<mainVars, phase, configVars, tetragon, query>>

\* After lws_service there may be a new message, or none.
WsReturn ==
  /\ ws = "inside"
  /\ ws' \in {"notify", "test"}
  /\ Used("ws", context = "live")
  /\ UNCHANGED <<mainVars, phase, configVars, tetragon, query>>

WsNotify ==
  /\ ws = "notify"
  /\ ws' = "test"
  /\ Used("ws", context = "live")
  /\ UNCHANGED <<mainVars, phase, configVars, tetragon, query>>

Service == WsTest \/ WsCall \/ WsReturn \/ WsNotify

\* db_insert_security_event tests is_open, then reads the handle.
TetragonTest ==
  /\ tetragon = "idle"
  /\ is_open
  /\ tetragon' = "prepare"
  /\ UNCHANGED <<mainVars, phase, configVars, ws, query, unsafe>>

TetragonPrepare ==
  /\ tetragon = "prepare"
  /\ tetragon' = IF handle = "live" THEN "step" ELSE "idle"
  /\ Used("tetragon", handle = "live")
  /\ UNCHANGED <<mainVars, phase, configVars, ws, query>>

TetragonStore ==
  /\ tetragon = "step"
  /\ tetragon' = "idle"
  /\ UNCHANGED <<mainVars, phase, configVars, ws, query, unsafe>>

Monitor == TetragonTest \/ TetragonPrepare \/ TetragonStore

Next ==
  Main \/ Terminate \/ Kill \/ Settings \/ BeginQuery \/ EndQuery \/ Service
    \/ Monitor

Spec == Init /\ [][Next]_vars

-----------------------------------------------------------------------------

\* Every variable keeps its type.
TypeOK ==
  /\ main \in {"off", "loop"} \cup Starting \cup Stopping
  /\ running \in BOOLEAN /\ dry_run \in BOOLEAN /\ query \in BOOLEAN
  /\ undetached \in BOOLEAN
  /\ is_open \in BOOLEAN /\ interrupted \in BOOLEAN
  /\ starts \in 0 .. MaxStarts
  /\ wanted \in Interface \cup {Unset}
  /\ interface \in Interface \cup {Unset}
  /\ ended \in {"none", "refused", "failed", "busy", "maps", "terminated",
                "killed", "stopped"}
  /\ attached \in [Interface -> 0 .. starts]
  /\ handle \in {"null", "live", "freed"}
  /\ context \in {"null", "live", "freed"}
  /\ ws \in {"none", "test", "call", "inside", "notify", "ended"}
  /\ tetragon \in {"none", "idle", "prepare", "step"}
  /\ unsafe \subseteq {"http", "ws", "tetragon"}
  /\ phase \in {"down", "serving", "updating"}
  /\ config \in [Field -> Threshold]
  /\ config_map \in [Field -> Threshold]
  /\ failed \in BOOLEAN /\ published \in BOOLEAN
  /\ posts \in 0 .. MaxPosts
  /\ configured \in [Field -> SUBSET Threshold]

\* While requests are answered, and unless this is a dry run, the program of
\* this very process filters the interface, not one that an earlier process has
\* left there (bpf_loader.c:54-57, main.c:227).
ServingIsFiltering ==
  phase # "down" /\ ~ dry_run => attached[interface] = starts

\* What a process leaves behind.  Its program stays attached only if a signal
\* ended it during start-up or it was killed, if the loader gave up after the
\* attachment, if detaching failed in the end, or where the driver runs XDP
\* itself; and whatever an earlier process has left, the next one finds the
\* interface occupied only in the last two cases (bpf_loader.c:50-57 and
\* 156-167, main.c:229, 320 and 344).
LeftBehind ==
  /\ main = "off" =>
       \A i \in Interface : starts > 0 /\ attached[i] = starts =>
         \/ i \in Native \/ undetached
         \/ ended \in {"terminated", "killed", "maps"}
  /\ ended = "busy" => interface \in Native \/ undetached

\* The requests are over before anything they use is taken away.  The service
\* thread, which is not joined, uses the context after its end only once it has
\* been destroyed in shutdown, and the event monitor the connection only once
\* it has been closed (main.c:335-348).
LateUse ==
  /\ "http" \notin unsafe
  /\ "ws" \in unsafe =>
       main \in {"forget", "unload", "close", "drop", "shut", "exit"}
  /\ "tetragon" \in unsafe => main \in {"drop", "shut", "exit"}

\* Arguments override the file (comment at main.c:135): the interface that they
\* name is the one in force.
ArgumentsWin ==
  main # "off" /\ wanted # Unset => interface = wanted

=============================================================================
