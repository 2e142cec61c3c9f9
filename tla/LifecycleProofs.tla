--------------------------- MODULE LifecycleProofs ---------------------------
(***************************************************************************)
(* Proofs about the life of the daemon and its thresholds, for any number  *)
(* of processes, interfaces, thresholds and requests: while requests are   *)
(* answered the program filters, what a process leaves behind, what its    *)
(* threads may use too late, and where the thresholds in use come from.    *)
(* The strengthening says, label by label, what main has set up.           *)
(***************************************************************************)
EXTENDS Lifecycle, TLAPS

\* main before the server runs, while it runs, and as long as the program is
\* attached, and after that.
Before    == {"database", "network", "load", "detach", "attach", "maps", "http"}
Serving   == {"websocket", "tetragon", "handlers", "loop", "stop_http"}
Filtering == {"maps", "http", "interrupt", "destroy", "forget", "unload"}
               \cup Serving
Closing   == {"close", "drop", "shut", "exit"}

LEMMA Names ==
  /\ Unset \notin Interface /\ Broken \notin Interface /\ Unset # Broken
  /\ Native \subseteq Interface
  /\ MaxStarts \in Nat
  BY LifecycleAssumption DEF Unset, Broken

\* Thresholds for all fields, and sets of them.
Settled == [Field -> Threshold]
History == [Field -> SUBSET Threshold]

LEMMA Thresholds ==
  /\ Default \in Settled
  /\ Zeros \in Settled
  /\ [f \in Field |-> {Default[f]}] \in History
  /\ 0 \in 0 .. MaxPosts
  <1>1. Default \in Settled /\ 0 \in Threshold
    BY DefenseConfigAssumption DEF Settled, Threshold
  <1>2. [f \in Field |-> {Default[f]}] \in History
    BY <1>1 DEF Settled, History
  <1>3. Zeros \in Settled
    BY <1>1 DEF Settled, Zeros
  <1> QED
    BY <1>1, <1>2, <1>3, DefenseConfigAssumption, Z3

LEMMA StoredFits ==
  ASSUME NEW n \in Given
  PROVE  Stored(n) \in Threshold
  <1>1. n \in Int /\ U32 \in Nat \ {0}
    BY DefenseConfigAssumption
  <1>2. Saturated(n) \in Int
    BY <1>1 DEF Saturated
  <1> QED
    BY <1>1, <1>2 DEF Stored, Threshold

\* The sources give an interface, or none.
LEMMA InForceFits ==
  ASSUME NEW s \in Sources
  PROVE  InForce(s) \in Interface \cup {Unset}
  BY Names DEF Sources, InForce, LoadEnv, ParseArgs, ParseArgsAgain, LoadFile, Valid

-----------------------------------------------------------------------------
(* Types *)

ConfigTypes ==
  /\ phase \in {"down", "serving", "updating"}
  /\ config \in Settled
  /\ config_map \in Settled
  /\ failed \in BOOLEAN /\ published \in BOOLEAN
  /\ posts \in 0 .. MaxPosts
  /\ configured \in History

LEMMA DefaultsType ==
  ConfigTypes /\ InitDefaults /\ UNCHANGED phase => ConfigTypes'
  <1> USE DEF InitDefaults
  <1>1. Default \in Settled /\ 0 \in 0 .. MaxPosts
    BY Thresholds
  <1> QED
    BY <1>1 DEF ConfigTypes

LEMMA NewMapType ==
  ConfigTypes /\ NewMap /\ phase' \in {phase, "down"} => ConfigTypes'
  BY Thresholds DEF ConfigTypes, NewMap

LEMMA PostType == ConfigTypes /\ Post => ConfigTypes'
  <1> SUFFICES ASSUME ConfigTypes, Post PROVE ConfigTypes'
    OBVIOUS
  <1>1. PICK fields \in SUBSET Field :
          \E given \in [fields -> Given] :
            /\ config' = [f \in Field |-> IF f \in fields THEN Stored(given[f])
                                          ELSE config[f]]
            /\ configured' = [f \in Field |-> configured[f] \cup {config'[f]}]
    BY DEF Post
  <1>2. PICK given \in [fields -> Given] :
          /\ config' = [f \in Field |-> IF f \in fields THEN Stored(given[f])
                                        ELSE config[f]]
          /\ configured' = [f \in Field |-> configured[f] \cup {config'[f]}]
    BY <1>1
  <1>3. config' \in Settled
    BY <1>2, StoredFits DEF ConfigTypes, Settled
  <1>4. configured' \in History
    BY <1>2, <1>3 DEF ConfigTypes, Settled, History
  <1> QED
    BY <1>3, <1>4, DefenseConfigAssumption DEF ConfigTypes, Post

LEMMA PublishType ==
  ASSUME ConfigTypes, NEW loaded, Publish(loaded)
  PROVE  ConfigTypes'
  BY DEF ConfigTypes, Publish

LEMMA ConfigKept ==
  ConfigTypes /\ UNCHANGED configVars /\ phase' \in {phase, "down", "serving"}
    => ConfigTypes'
  BY DEF ConfigTypes, configVars

MainTypes ==
  /\ main \in {"off", "loop"} \cup Starting \cup Stopping
  /\ running \in BOOLEAN /\ dry_run \in BOOLEAN /\ undetached \in BOOLEAN
  /\ starts \in 0 .. MaxStarts
  /\ wanted \in Interface \cup {Unset}
  /\ interface \in Interface \cup {Unset}
  /\ ended \in {"none", "refused", "failed", "busy", "maps", "terminated",
                "killed", "stopped"}
  /\ attached \in [Interface -> 0 .. starts]

ThreadTypes ==
  /\ query \in BOOLEAN /\ is_open \in BOOLEAN /\ interrupted \in BOOLEAN
  /\ handle \in {"null", "live", "freed"}
  /\ context \in {"null", "live", "freed"}
  /\ ws \in {"none", "test", "call", "inside", "notify", "ended"}
  /\ tetragon \in {"none", "idle", "prepare", "step"}
  /\ unsafe \subseteq {"http", "ws", "tetragon"}

LEMMA TypeParts == TypeOK <=> MainTypes /\ ThreadTypes /\ ConfigTypes
  BY DEF TypeOK, MainTypes, ThreadTypes, ConfigTypes, Settled, History

LEMMA InitTypes == Init => TypeOK
  <1> SUFFICES ASSUME Init PROVE MainTypes /\ ThreadTypes /\ ConfigTypes
    BY TypeParts
  <1>1. MainTypes
    <2>1. attached \in [Interface -> 0 .. starts]
      BY DEF Init
    <2>2. starts \in 0 .. MaxStarts
      BY Names DEF Init
    <2>3. wanted \in Interface \cup {Unset} /\ interface \in Interface \cup {Unset}
      BY DEF Init
    <2> QED
      BY <2>1, <2>2, <2>3 DEF Init, MainTypes
  <1>2. ThreadTypes
    BY DEF Init, ThreadTypes
  <1>3. ConfigTypes
    <2>1. config \in Settled /\ config_map \in Settled /\ configured \in History
      BY Thresholds DEF Init, ConfigInit
    <2>2. posts \in 0 .. MaxPosts
      BY Thresholds DEF Init, ConfigInit
    <2> QED
      BY <2>1, <2>2 DEF Init, ConfigInit, ConfigTypes
  <1> QED
    BY <1>1, <1>2, <1>3

\* The steps of main that leave attached and the options alone.
Going ==
  \/ OpenDatabase \/ FindAddress \/ LoadProgram \/ FindMaps \/ StartWebsocket
  \/ StartTetragon \/ InstallHandlers \/ Loop \/ StopHttp \/ Interrupt
  \/ DestroyContext \/ ForgetContext \/ CloseHandle \/ DropHandle \/ Shut \/ Exit

\* The steps of the threads.
Working == Settings \/ BeginQuery \/ EndQuery \/ Service \/ Monitor

LEMMA NextCases ==
  Next <=> \/ Start \/ DetachOld \/ Attach \/ StartHttp \/ Unload \/ Going
           \/ Terminate \/ Kill \/ Working
  BY DEF Next, Main, Going, Working

LEMMA DetachedType ==
  MainTypes => Detached \in [Interface -> 0 .. starts]
  <1> SUFFICES ASSUME MainTypes PROVE Detached \in [Interface -> 0 .. starts]
    OBVIOUS
  <1>1. starts \in Nat /\ attached \in [Interface -> 0 .. starts]
    BY Names DEF MainTypes
  <1>2. Detached = [i \in Interface |->
                      IF i = interface /\ interface \notin Native THEN 0
                      ELSE attached[i]]
    BY <1>1, Names DEF Detached
  <1> QED
    BY <1>1, <1>2

\* Detaching takes the program off the interface, or leaves all as it was.
LEMMA DetachAt ==
  ASSUME MainTypes, Detach, NEW i \in Interface
  PROVE  \/ i = interface /\ i \notin Native /\ attached'[i] = 0
         \/ /\ attached'[i] = attached[i]
            /\ i # interface \/ i \in Native \/ undetached'
  <1>1. attached \in [Interface -> 0 .. starts]
    BY DEF MainTypes
  <1> QED
    BY <1>1 DEF Detach, Detached

\* A step of main that leaves attached alone goes on, or ends the process.
LEMMA MainGoes ==
  ASSUME MainTypes, UNCHANGED linkVars,
         NEW label \in {"loop"} \cup Starting \cup Stopping, Proceed(label)
  PROVE  MainTypes'
  BY DEF MainTypes, Proceed, optionVars, linkVars

LEMMA MainEnds ==
  ASSUME MainTypes, UNCHANGED linkVars,
         NEW how \in {"failed", "busy", "maps", "terminated", "killed", "stopped"},
         End(how)
  PROVE  MainTypes'
  BY DEF MainTypes, End, optionVars, linkVars

LEMMA MainStep == MainTypes /\ [Next]_vars => MainTypes'
  <1> SUFFICES ASSUME MainTypes, [Next]_vars PROVE MainTypes'
    OBVIOUS
  <1> USE DEF MainTypes, optionVars, linkVars, Starting, Stopping
  <1>1. CASE Start
    <2>1. PICK s \in Sources : wanted' = s.arg /\ interface' = InForce(s)
      BY <1>1 DEF Start
    <2>2. wanted' \in Interface \cup {Unset} /\ interface' \in Interface \cup {Unset}
      BY <2>1, InForceFits DEF Sources
    <2>3. starts' \in 0 .. MaxStarts /\ attached' \in [Interface -> 0 .. starts']
      BY <1>1, Names DEF Start
    <2> QED
      BY <1>1, <2>2, <2>3 DEF Start
  <1>2. CASE DetachOld \/ StartHttp \/ Unload
    BY <1>2, DetachedType DEF DetachOld, StartHttp, Unload, Detach, Proceed, End
  <1>3. CASE Attach
    <2>1. starts \in Nat /\ starts \in 0 .. starts
      BY Names
    <2>2. [attached EXCEPT ![interface] = starts] \in [Interface -> 0 .. starts]
      BY <2>1
    <2>3. starts' = starts /\ attached' \in [Interface -> 0 .. starts']
      BY <1>3, <2>2 DEF Attach, Proceed, End
    <2> QED
      BY <1>3, <2>3 DEF Attach, Proceed, End
  <1>4. CASE Going
    <2>1. UNCHANGED linkVars
      BY <1>4
      DEF Going, OpenDatabase, FindAddress, LoadProgram, FindMaps, StartWebsocket,
          StartTetragon, InstallHandlers, Loop, StopHttp, Interrupt,
          DestroyContext, ForgetContext, CloseHandle, DropHandle, Shut, Exit
    <2>2. CASE OpenDatabase \/ FindAddress \/ LoadProgram \/ FindMaps
      <3>1. \/ \E label \in Starting : Proceed(label)
            \/ \E how \in {"failed", "maps"} : End(how)
        BY <2>2 DEF OpenDatabase, FindAddress, LoadProgram, FindMaps
      <3> QED
        BY <3>1, <2>1, MainGoes, MainEnds
    <2>3. CASE StartWebsocket \/ StartTetragon \/ InstallHandlers \/ Loop
      <3>1. \E label \in {"loop"} \cup Starting \cup Stopping : Proceed(label)
        BY <2>3 DEF StartWebsocket, StartTetragon, InstallHandlers, Loop
      <3> QED
        BY <3>1, <2>1, MainGoes
    <2>4. CASE StopHttp \/ Interrupt \/ DestroyContext \/ ForgetContext
      <3>1. \E label \in Stopping : Proceed(label)
        BY <2>4 DEF StopHttp, Interrupt, DestroyContext, ForgetContext
      <3> QED
        BY <3>1, <2>1, MainGoes
    <2>5. CASE CloseHandle \/ DropHandle \/ Shut
      <3>1. \E label \in Stopping : Proceed(label)
        BY <2>5 DEF CloseHandle, DropHandle, Shut
      <3> QED
        BY <3>1, <2>1, MainGoes
    <2>6. CASE Exit
      BY <2>6, <2>1, MainEnds DEF Exit
    <2> QED
      BY <1>4, <2>2, <2>3, <2>4, <2>5, <2>6 DEF Going
  <1>5. CASE Terminate \/ Kill
    BY <1>5 DEF Terminate, Kill, End
  <1>6. CASE Working \/ UNCHANGED vars
    BY <1>6
    DEF Working, Settings, BeginQuery, EndQuery, Service, WsTest, WsCall, WsReturn,
        WsNotify, Monitor, TetragonTest, TetragonPrepare, TetragonStore, mainVars,
        vars
  <1> QED
    BY <1>1, <1>2, <1>3, <1>4, <1>5, <1>6, NextCases

\* A step leaves the resources and the threads alone, or ends the process, or
\* changes some of them.
LEMMA ThreadsKept ==
  ThreadTypes /\ UNCHANGED <<resourceVars, threadVars>> => ThreadTypes'
  BY DEF ThreadTypes, resourceVars, threadVars

LEMMA ThreadsEnd ==
  ASSUME NEW how, End(how) PROVE ThreadTypes'
  BY DEF End, ThreadTypes

LEMMA ResourcesStep ==
  ASSUME ThreadTypes, UNCHANGED threadVars,
         is_open' \in BOOLEAN, interrupted' \in BOOLEAN,
         handle' \in {"null", "live", "freed"},
         context' \in {"null", "live", "freed"}
  PROVE  ThreadTypes'
  BY DEF ThreadTypes, threadVars

LEMMA WorkStep ==
  ASSUME ThreadTypes, UNCHANGED resourceVars, query' \in BOOLEAN,
         ws' \in {"none", "test", "call", "inside", "notify", "ended"},
         tetragon' \in {"none", "idle", "prepare", "step"},
         unsafe' \subseteq {"http", "ws", "tetragon"}
  PROVE  ThreadTypes'
  BY DEF ThreadTypes, resourceVars

LEMMA ThreadStep == ThreadTypes /\ [Next]_vars => ThreadTypes'
  <1> SUFFICES ASSUME ThreadTypes, [Next]_vars PROVE ThreadTypes'
    OBVIOUS
  <1>0. /\ is_open \in BOOLEAN /\ interrupted \in BOOLEAN /\ query \in BOOLEAN
        /\ handle \in {"null", "live", "freed"}
        /\ context \in {"null", "live", "freed"}
        /\ ws \in {"none", "test", "call", "inside", "notify", "ended"}
        /\ tetragon \in {"none", "idle", "prepare", "step"}
        /\ unsafe \subseteq {"http", "ws", "tetragon"}
    BY DEF ThreadTypes
  <1>1. CASE Start \/ DetachOld \/ Unload
    <2>1. UNCHANGED <<resourceVars, threadVars>>
      BY <1>1 DEF Start, DetachOld, Unload
    <2> QED
      BY <2>1, ThreadsKept
  <1>2. CASE Attach \/ StartHttp
    <2>1. UNCHANGED <<resourceVars, threadVars>> \/ \E how : End(how)
      BY <1>2, Zenon DEF Attach, StartHttp
    <2> QED
      BY <2>1, ThreadsKept, ThreadsEnd
  <1>3. CASE Going
    <2>1. CASE FindAddress \/ LoadProgram \/ FindMaps \/ Exit
      <3>1. UNCHANGED <<resourceVars, threadVars>> \/ \E how : End(how)
        BY <2>1, Zenon DEF FindAddress, LoadProgram, FindMaps, Exit
      <3> QED
        BY <3>1, ThreadsKept, ThreadsEnd
    <2>2. CASE InstallHandlers \/ Loop \/ StopHttp
      <3>1. UNCHANGED <<resourceVars, threadVars>>
        BY <2>2 DEF InstallHandlers, Loop, StopHttp
      <3> QED
        BY <3>1, ThreadsKept
    <2>3. CASE OpenDatabase
      <3>1. \/ /\ UNCHANGED threadVars
               /\ handle' = "live" /\ is_open' = TRUE
               /\ UNCHANGED <<context, interrupted>>
            \/ End("failed")
        BY <2>3, Zenon DEF OpenDatabase
      <3> QED
        BY <1>0, <3>1, ResourcesStep, ThreadsEnd
    <2>4. CASE StartWebsocket
      <3>1. /\ context' \in {"live", "null"} /\ ws' \in {"test", "none"}
            /\ UNCHANGED <<handle, is_open, interrupted, tetragon, query, unsafe>>
        BY <2>4 DEF StartWebsocket
      <3> QED
        BY <1>0, <3>1 DEF ThreadTypes
    <2>5. CASE StartTetragon
      <3>1. /\ tetragon' \in {"idle", "none"}
            /\ UNCHANGED <<resourceVars, ws, query, unsafe>>
        BY <2>5 DEF StartTetragon
      <3> QED
        BY <1>0, <3>1, WorkStep
    <2>6. CASE Interrupt \/ DestroyContext \/ ForgetContext
      <3>1. /\ UNCHANGED <<handle, is_open, threadVars>>
            /\ interrupted' \in {interrupted, TRUE}
            /\ context' \in {context, "freed", "null"}
        BY <2>6 DEF Interrupt, DestroyContext, ForgetContext
      <3> QED
        BY <1>0, <3>1, ResourcesStep
    <2>7. CASE CloseHandle \/ DropHandle \/ Shut
      <3>1. /\ UNCHANGED <<context, interrupted, threadVars>>
            /\ is_open' \in {is_open, FALSE}
            /\ handle' \in {handle, "live", "freed", "null"}
        BY <2>7 DEF CloseHandle, DropHandle, Shut
      <3> QED
        BY <1>0, <3>1, ResourcesStep
    <2> QED
      BY <1>3, <2>1, <2>2, <2>3, <2>4, <2>5, <2>6, <2>7 DEF Going
  <1>4. CASE Terminate \/ Kill
    <2>1. UNCHANGED <<resourceVars, threadVars>> \/ \E how : End(how)
      BY <1>4, Zenon DEF Terminate, Kill
    <2> QED
      BY <2>1, ThreadsKept, ThreadsEnd
  <1>5. CASE Working
    <2>1. CASE Settings
      <3>1. UNCHANGED <<resourceVars, threadVars>>
        BY <2>1 DEF Settings, mainVars
      <3> QED
        BY <3>1, ThreadsKept
    <2>2. CASE BeginQuery \/ EndQuery
      <3>1. /\ query' \in BOOLEAN /\ UNCHANGED <<resourceVars, ws, tetragon>>
            /\ unsafe' \in {unsafe, unsafe \cup {"http"}}
        BY <2>2 DEF BeginQuery, EndQuery, mainVars, Used
      <3> QED
        BY <1>0, <3>1, WorkStep
    <2>3. CASE Service
      <3>1. /\ UNCHANGED <<resourceVars, tetragon, query>>
            /\ ws' \in {"test", "call", "inside", "notify", "ended"}
        BY <2>3 DEF Service, WsTest, WsCall, WsReturn, WsNotify, mainVars
      <3>2. unsafe' \in {unsafe, unsafe \cup {"ws"}}
        BY <2>3 DEF Service, WsTest, WsCall, WsReturn, WsNotify, Used
      <3> QED
        BY <1>0, <3>1, <3>2, WorkStep
    <2>4. CASE Monitor
      <3>1. /\ UNCHANGED <<resourceVars, ws, query>>
            /\ tetragon' \in {"idle", "prepare", "step"}
        BY <2>4 DEF Monitor, TetragonTest, TetragonPrepare, TetragonStore, mainVars
      <3>2. unsafe' \in {unsafe, unsafe \cup {"tetragon"}}
        BY <2>4 DEF Monitor, TetragonTest, TetragonPrepare, TetragonStore, Used
      <3> QED
        BY <1>0, <3>1, <3>2, WorkStep
    <2> QED
      BY <1>5, <2>1, <2>2, <2>3, <2>4 DEF Working
  <1>6. CASE UNCHANGED vars
    BY <1>6, ThreadsKept DEF vars
  <1> QED
    BY <1>1, <1>2, <1>3, <1>4, <1>5, <1>6, NextCases

LEMMA ConfigStep == ConfigTypes /\ [Next]_vars => ConfigTypes'
  <1> SUFFICES ASSUME ConfigTypes, [Next]_vars PROVE ConfigTypes'
    OBVIOUS
  <1>1. CASE Start
    BY <1>1, DefaultsType DEF Start
  <1>2. CASE Attach
    BY <1>2, NewMapType, ConfigKept DEF Attach, End
  <1>3. CASE DetachOld \/ StartHttp \/ Unload
    BY <1>3, ConfigKept DEF DetachOld, StartHttp, Unload, End
  <1>4. CASE Going
    BY <1>4, ConfigKept
    DEF Going, OpenDatabase, FindAddress, LoadProgram, FindMaps, StartWebsocket,
        StartTetragon, InstallHandlers, Loop, StopHttp, Interrupt, DestroyContext,
        ForgetContext, CloseHandle, DropHandle, Shut, Exit, End
  <1>5. CASE Terminate \/ Kill
    BY <1>5, ConfigKept DEF Terminate, Kill, End
  <1>6. CASE Settings
    BY <1>6, PostType, PublishType DEF Settings
  <1>7. CASE BeginQuery \/ EndQuery \/ Service \/ Monitor \/ UNCHANGED vars
    BY <1>7, ConfigKept
    DEF BeginQuery, EndQuery, Service, WsTest, WsCall, WsReturn, WsNotify, Monitor,
        TetragonTest, TetragonPrepare, TetragonStore, vars
  <1> QED
    BY <1>1, <1>2, <1>3, <1>4, <1>5, <1>6, <1>7, NextCases DEF Working

LEMMA TypeStep == TypeOK /\ [Next]_vars => TypeOK'
  <1> SUFFICES ASSUME TypeOK, [Next]_vars PROVE TypeOK'
    OBVIOUS
  <1>1. MainTypes' /\ ThreadTypes' /\ ConfigTypes'
    BY MainStep, ThreadStep, ConfigStep, TypeParts
  <1> QED
    BY <1>1 DEF TypeOK, MainTypes, ThreadTypes, ConfigTypes, Settled, History

\* Every variable of the daemon and its thresholds keeps its type, whatever
\* the number of processes (main.c:122-353).
THEOREM TypeCorrect == Spec => []TypeOK
  BY InitTypes, TypeStep, PTL DEF Spec

-----------------------------------------------------------------------------
(* What main has set up, label by label *)

\* The program of this process is on its interface, and on no other, from the
\* attachment until it is unloaded; after that only where unloading fails.
FilterInv ==
  /\ main # "off" => interface \in Interface /\ starts > 0 /\ ended = "none"
  /\ main \in {"load", "detach", "attach", "maps"} => ~ dry_run
  /\ main = "attach" /\ interface \notin Native /\ ~ undetached =>
       attached[interface] = 0
  /\ main \in Filtering /\ ~ dry_run => attached[interface] = starts
  /\ main # "off" => \A i \in Interface : attached[i] = starts =>
       /\ i = interface /\ ~ dry_run
       /\ \/ main \in Filtering
          \/ main \in Closing /\ (i \in Native \/ undetached)

\* Requests are handled only while the server runs.
ServerInv ==
  /\ phase # "down" => main \in Serving
  /\ query => phase = "serving"

\* The connection lives from database_open to the first step of
\* database_close; a thread that has entered libwebsockets holds a live
\* context until it is destroyed.
UseInv ==
  /\ main \notin {"off", "database", "drop", "shut", "exit"} => handle = "live"
  /\ main \in {"off", "websocket"} \cup Before => ws = "none"
  /\ main \in {"tetragon", "handlers", "loop", "stop_http", "interrupt", "destroy"} =>
       /\ context \in {"live", "null"}
       /\ ws \in {"call", "inside", "notify"} => context = "live"
  /\ main \in {"off", "websocket", "tetragon"} \cup Before => tetragon = "none"

\* A process that serves has begun with the defaults.
SettingsInv ==
  /\ main \in Before => posts = 0 /\ config = Default
  /\ \A f \in Field : Default[f] \in configured[f] /\ config[f] \in configured[f]

-----------------------------------------------------------------------------
(* The program on the interface *)

\* A process that has ended has left its program only where it may.
Left == FilterInv /\ LeftBehind

\* No program is one that the next process attaches.
LEMMA NoneAhead ==
  ASSUME MainTypes, NEW i \in Interface
  PROVE  attached[i] # starts + 1
  <1>1. starts \in Nat /\ attached[i] \in 0 .. starts
    BY Names DEF MainTypes
  <1> QED
    BY <1>1

LEMMA InitLeft == Init => Left
  BY DEF Init, Left, FilterInv, LeftBehind, Filtering, Serving, Closing, Before

LEMMA StartLeft == MainTypes /\ Left /\ Start => Left'
  <1> SUFFICES ASSUME MainTypes, Left, Start PROVE Left'
    OBVIOUS
  <1>1. PICK s \in Sources :
          /\ interface' = InForce(s)
          /\ \/ /\ InForce(s) # Unset
                /\ main' = "database"
                /\ ended' = "none"
             \/ main' = "off" /\ ended' = "refused"
    BY DEF Start
  <1>2. main' = "database" => interface' \in Interface
    BY <1>1, InForceFits
  <1>3. \A i \in Interface : attached'[i] # starts'
    BY NoneAhead DEF Start
  <1>4. starts' > 0
    BY Names DEF Start, MainTypes
  <1> QED
    BY <1>1, <1>2, <1>3, <1>4
    DEF Left, FilterInv, LeftBehind, Filtering, Serving, Closing

\* main goes on with what it has set up, and the interface as it is.
LEMMA OnwardLeft ==
  ASSUME Left, UNCHANGED <<starts, interface, dry_run, linkVars, ended>>,
         main # "off", main' # "off",
         main' \in {"load", "detach", "attach", "maps"} =>
           main \in {"load", "detach", "attach", "maps"} \/ ~ dry_run,
         main' = "attach" => main = "attach",
         main' \in Filtering => main \in Filtering \/ dry_run,
         main \in Filtering \/ main \in Closing => main' \in Filtering \/ main' \in Closing,
         main \in Filtering => main' \in Filtering,
         main \in Closing => main' \in Closing
  PROVE  Left'
  BY DEF Left, FilterInv, LeftBehind, linkVars

\* The process ends, and the interface stays as it is.
LEMMA EndLeft ==
  ASSUME Left, UNCHANGED <<starts, interface, dry_run, linkVars>>, main' = "off",
         ended' \in {"terminated", "killed", "maps"} \/ main \notin Filtering,
         ended' = "busy" => interface \in Native \/ undetached,
         main # "off"
  PROVE  Left'
  BY DEF Left, FilterInv, LeftBehind, Filtering, Serving, Closing, Before, linkVars

LEMMA DetachLeft == MainTypes /\ Left /\ DetachOld => Left'
  <1> SUFFICES ASSUME MainTypes, Left, DetachOld PROVE Left'
    OBVIOUS
  <1>1. main = "detach" /\ main' = "attach" /\ interface \in Interface
    BY DEF DetachOld, Proceed, Left, FilterInv
  <1>2. \A i \in Interface : attached'[i] # starts
    <2> SUFFICES ASSUME NEW i \in Interface PROVE attached'[i] # starts
      OBVIOUS
    <2>1. attached[i] # starts /\ starts > 0
      BY <1>1 DEF Left, FilterInv, Filtering, Serving, Closing
    <2>2. attached'[i] = 0 \/ attached'[i] = attached[i]
      BY DetachAt DEF DetachOld
    <2> QED
      BY <2>1, <2>2
  <1>3. interface \notin Native => attached'[interface] = 0 \/ undetached'
    BY <1>1, DetachAt DEF DetachOld
  <1>4. UNCHANGED <<starts, interface, dry_run, ended>>
    BY DEF DetachOld, Proceed, optionVars
  <1> QED
    BY <1>1, <1>2, <1>3, <1>4
    DEF Left, FilterInv, LeftBehind, Filtering, Serving, Closing

LEMMA AttachLeft == MainTypes /\ Left /\ Attach => Left'
  <1> SUFFICES ASSUME MainTypes, Left, Attach PROVE Left'
    OBVIOUS
  <1>1. main = "attach" /\ interface \in Interface /\ ~ dry_run
    BY DEF Attach, Left, FilterInv
  <1>2. UNCHANGED <<starts, interface, dry_run>>
    BY DEF Attach, Proceed, End, optionVars
  <1>3. CASE main' = "maps"
    <2>1. attached' = [attached EXCEPT ![interface] = starts] /\ ended' = ended
      BY <1>1, <1>3 DEF Attach, Proceed, End
    <2>2. \A i \in Interface :
            attached'[i] = IF i = interface THEN starts ELSE attached[i]
      BY <2>1 DEF MainTypes
    <2>3. \A i \in Interface : attached'[i] = starts => i = interface
      BY <1>1, <2>2 DEF Left, FilterInv, Filtering, Serving, Closing
    <2> QED
      BY <1>1, <1>2, <1>3, <2>1, <2>2, <2>3
      DEF Left, FilterInv, LeftBehind, Filtering, Serving, Closing
  <1>4. CASE main' # "maps"
    <2>1. UNCHANGED linkVars /\ main' = "off"
      BY <1>4 DEF Attach, Proceed, End, linkVars
    <2>2. ended' = "busy" => interface \in Native \/ undetached
      BY <1>1, <1>4 DEF Attach, Proceed, End, Left, FilterInv
    <2>3. main \notin Filtering
      BY <1>1 DEF Filtering, Serving
    <2> QED
      BY <1>1, <1>2, <2>1, <2>2, <2>3, EndLeft
  <1> QED
    BY <1>3, <1>4

LEMMA StartHttpLeft == MainTypes /\ Left /\ StartHttp => Left'
  <1> SUFFICES ASSUME MainTypes, Left, StartHttp PROVE Left'
    OBVIOUS
  <1>1. main = "http" /\ interface \in Interface
    BY DEF StartHttp, Left, FilterInv
  <1>2. UNCHANGED <<starts, interface, dry_run>>
    BY DEF StartHttp, Proceed, End, optionVars
  <1>3. CASE main' = "websocket"
    <2>1. UNCHANGED linkVars /\ ended' = ended
      BY <1>3 DEF StartHttp, Proceed, End
    <2> QED
      BY <1>1, <1>2, <1>3, <2>1, OnwardLeft DEF Filtering, Serving, Closing
  <1>4. CASE main' # "websocket"
    <2>1. IF dry_run THEN UNCHANGED linkVars ELSE Detach
      BY <1>4 DEF StartHttp, Proceed, End
    <2>2. main' = "off" /\ ended' = "failed"
      BY <1>4 DEF StartHttp, Proceed, End
    <2>3. \A i \in Interface : attached[i] = starts => i = interface /\ ~ dry_run
      BY <1>1 DEF Left, FilterInv
    <2>4. \A i \in Interface : starts > 0 /\ attached'[i] = starts =>
            i \in Native \/ undetached'
      <3> SUFFICES ASSUME NEW i \in Interface, starts > 0, attached'[i] = starts
                   PROVE  i \in Native \/ undetached'
        OBVIOUS
      <3>1. CASE dry_run
        BY <2>1, <2>3, <3>1 DEF linkVars
      <3>2. CASE ~ dry_run
        BY <2>1, <2>3, <3>2, DetachAt
      <3> QED
        BY <3>1, <3>2
    <2> QED
      BY <1>2, <2>2, <2>4 DEF Left, FilterInv, LeftBehind, Filtering, Serving
  <1> QED
    BY <1>3, <1>4

LEMMA UnloadLeft == MainTypes /\ Left /\ Unload => Left'
  <1> SUFFICES ASSUME MainTypes, Left, Unload PROVE Left'
    OBVIOUS
  <1>1. main = "unload" /\ main' = "close" /\ interface \in Interface
    BY DEF Unload, Proceed, Left, FilterInv
  <1>2. UNCHANGED <<starts, interface, dry_run, ended>>
    BY DEF Unload, Proceed, optionVars
  <1>3. IF dry_run THEN UNCHANGED linkVars ELSE Detach
    BY DEF Unload
  <1>4. \A i \in Interface : attached[i] = starts => i = interface /\ ~ dry_run
    BY <1>1 DEF Left, FilterInv
  <1>5. \A i \in Interface : attached'[i] = starts =>
          i = interface /\ ~ dry_run /\ (i \in Native \/ undetached')
    <2> SUFFICES ASSUME NEW i \in Interface, attached'[i] = starts
                 PROVE  i = interface /\ ~ dry_run /\ (i \in Native \/ undetached')
      OBVIOUS
    <2>1. starts > 0
      BY <1>1 DEF Left, FilterInv
    <2>2. CASE dry_run
      BY <1>3, <1>4, <2>2 DEF linkVars
    <2>3. CASE ~ dry_run
      BY <1>3, <1>4, <2>1, <2>3, DetachAt
    <2> QED
      BY <2>2, <2>3
  <1> QED
    BY <1>1, <1>2, <1>5
    DEF Left, FilterInv, LeftBehind, Filtering, Serving, Closing

LEMMA GoingLeft == MainTypes /\ Left /\ Going => Left'
  <1> SUFFICES ASSUME MainTypes, Left, Going PROVE Left'
    OBVIOUS
  <1> USE DEF Filtering, Serving, Closing, Proceed, End, optionVars
  <1>1. CASE OpenDatabase \/ FindAddress
    BY <1>1, OnwardLeft, EndLeft DEF OpenDatabase, FindAddress
  <1>2. CASE LoadProgram \/ FindMaps
    BY <1>2, OnwardLeft, EndLeft DEF LoadProgram, FindMaps
  <1>3. CASE StartWebsocket \/ StartTetragon \/ InstallHandlers \/ Loop
    BY <1>3, OnwardLeft
    DEF StartWebsocket, StartTetragon, InstallHandlers, Loop
  <1>4. CASE StopHttp \/ Interrupt \/ DestroyContext \/ ForgetContext
    BY <1>4, OnwardLeft DEF StopHttp, Interrupt, DestroyContext, ForgetContext
  <1>5. CASE CloseHandle \/ DropHandle \/ Shut
    BY <1>5, OnwardLeft DEF CloseHandle, DropHandle, Shut
  <1>6. CASE Exit
    BY <1>6, EndLeft DEF Exit
  <1> QED
    BY <1>1, <1>2, <1>3, <1>4, <1>5, <1>6 DEF Going

\* Signals, and the threads.
LEMMA OtherLeft ==
  ASSUME Left, Terminate \/ Kill \/ Working \/ UNCHANGED vars
  PROVE  Left'
  <1>1. CASE Terminate \/ Kill
    <2>1. CASE main' = "off"
      BY <1>1, <2>1, EndLeft DEF Terminate, Kill, End, optionVars, Starting
    <2>2. CASE main' # "off"
      BY <1>1, <2>2
      DEF Terminate, Kill, End, optionVars, linkVars, Left, FilterInv, LeftBehind
    <2> QED
      BY <2>1, <2>2
  <1>2. CASE Working \/ UNCHANGED vars
    <2>1. UNCHANGED <<main, starts, interface, dry_run, linkVars, ended>>
      BY <1>2
      DEF Working, Settings, BeginQuery, EndQuery, Service, WsTest, WsCall,
          WsReturn, WsNotify, Monitor, TetragonTest, TetragonPrepare,
          TetragonStore, mainVars, optionVars, vars
    <2> QED
      BY <2>1 DEF Left, FilterInv, LeftBehind, linkVars
  <1> QED
    BY <1>1, <1>2

LEMMA LeftStep == MainTypes /\ Left /\ [Next]_vars => Left'
  BY StartLeft, DetachLeft, AttachLeft, StartHttpLeft, UnloadLeft, GoingLeft,
     OtherLeft, NextCases

-----------------------------------------------------------------------------
(* Requests are handled only while the server runs *)

LEMMA InitServer == Init => ServerInv
  BY DEF Init, ConfigInit, ServerInv

LEMMA ServerStep == ServerInv /\ [Next]_vars => ServerInv'
  <1> SUFFICES ASSUME ServerInv, [Next]_vars PROVE ServerInv'
    OBVIOUS
  <1> USE DEF ServerInv, Serving, threadVars, Proceed, End
  <1>1. CASE Start \/ DetachOld \/ Unload
    BY <1>1 DEF Start, DetachOld, Unload
  <1>2. CASE Attach \/ StartHttp
    BY <1>2 DEF Attach, StartHttp
  <1>3. CASE Going
    <2>1. CASE OpenDatabase \/ FindAddress \/ LoadProgram \/ FindMaps
      BY <2>1 DEF OpenDatabase, FindAddress, LoadProgram, FindMaps
    <2>2. CASE StartWebsocket \/ StartTetragon \/ InstallHandlers \/ Loop
      BY <2>2 DEF StartWebsocket, StartTetragon, InstallHandlers, Loop
    <2>3. CASE StopHttp \/ Interrupt \/ DestroyContext \/ ForgetContext
      BY <2>3 DEF StopHttp, Interrupt, DestroyContext, ForgetContext
    <2>4. CASE CloseHandle \/ DropHandle \/ Shut \/ Exit
      BY <2>4 DEF CloseHandle, DropHandle, Shut, Exit
    <2> QED
      BY <1>3, <2>1, <2>2, <2>3, <2>4 DEF Going
  <1>4. CASE Terminate \/ Kill
    BY <1>4 DEF Terminate, Kill
  <1>5. CASE Working
    <2>1. CASE Settings \/ BeginQuery \/ EndQuery
      BY <2>1 DEF Settings, Post, Publish, BeginQuery, EndQuery, mainVars
    <2>2. CASE Service
      BY <2>2 DEF Service, WsTest, WsCall, WsReturn, WsNotify, mainVars
    <2>3. CASE Monitor
      BY <2>3 DEF Monitor, TetragonTest, TetragonPrepare, TetragonStore, mainVars
    <2> QED
      BY <1>5, <2>1, <2>2, <2>3 DEF Working
  <1>6. CASE UNCHANGED vars
    BY <1>6 DEF vars
  <1> QED
    BY <1>1, <1>2, <1>3, <1>4, <1>5, <1>6, NextCases

-----------------------------------------------------------------------------
(* What the threads use *)

Uses == UseInv /\ LateUse

LEMMA InitUses == Init => Uses
  BY DEF Init, Uses, UseInv, LateUse

LEMMA StartingUses ==
  ASSUME ThreadTypes, Uses,
         Start \/ OpenDatabase \/ FindAddress \/ LoadProgram \/ DetachOld
           \/ Attach \/ FindMaps \/ StartHttp
  PROVE  Uses'
  <1> USE DEF ThreadTypes, Uses, UseInv, LateUse, Before, Proceed, End,
              resourceVars, threadVars
  <1>1. CASE Start \/ OpenDatabase
    BY <1>1 DEF Start, OpenDatabase
  <1>2. CASE FindAddress \/ LoadProgram \/ DetachOld
    BY <1>2 DEF FindAddress, LoadProgram, DetachOld
  <1>3. CASE Attach \/ FindMaps \/ StartHttp
    BY <1>3 DEF Attach, FindMaps, StartHttp
  <1> QED
    BY <1>1, <1>2, <1>3

LEMMA RunningUses ==
  ASSUME ThreadTypes, Uses,
         StartWebsocket \/ StartTetragon \/ InstallHandlers \/ Loop \/ StopHttp
  PROVE  Uses'
  <1> USE DEF ThreadTypes, Uses, UseInv, LateUse, Before, Proceed,
              resourceVars, threadVars
  <1>1. CASE StartWebsocket
    BY <1>1 DEF StartWebsocket
  <1>2. CASE StartTetragon
    BY <1>2 DEF StartTetragon
  <1>3. CASE InstallHandlers \/ Loop \/ StopHttp
    BY <1>3 DEF InstallHandlers, Loop, StopHttp
  <1> QED
    BY <1>1, <1>2, <1>3

LEMMA StoppingUses ==
  ASSUME ThreadTypes, Uses,
         Interrupt \/ DestroyContext \/ ForgetContext \/ Unload \/ CloseHandle
           \/ DropHandle \/ Shut \/ Exit
  PROVE  Uses'
  <1> USE DEF ThreadTypes, Uses, UseInv, LateUse, Before, Proceed, End,
              resourceVars, threadVars
  <1>1. CASE Interrupt \/ DestroyContext \/ ForgetContext
    BY <1>1 DEF Interrupt, DestroyContext, ForgetContext
  <1>2. CASE Unload \/ CloseHandle
    BY <1>2 DEF Unload, CloseHandle
  <1>3. CASE DropHandle \/ Shut \/ Exit
    BY <1>3 DEF DropHandle, Shut, Exit
  <1> QED
    BY <1>1, <1>2, <1>3

\* The threads: a step that finds what it uses taken away is noted.
LEMMA WorkingUses ==
  ASSUME MainTypes, ThreadTypes, ServerInv, Uses, Working
  PROVE  Uses'
  <1> USE DEF MainTypes, ThreadTypes, Uses, UseInv, LateUse, Before, Starting,
              Stopping, mainVars, resourceVars
  <1>1. CASE Settings \/ BeginQuery
    BY <1>1 DEF Settings, BeginQuery, threadVars
  <1>2. CASE EndQuery
    BY <1>2 DEF EndQuery, Used, ServerInv, Serving
  <1>3. CASE WsTest
    BY <1>3 DEF WsTest
  <1>4. CASE WsCall
    BY <1>4 DEF WsCall, Used
  <1>5. CASE WsReturn
    BY <1>5 DEF WsReturn, Used
  <1>6. CASE WsNotify
    BY <1>6 DEF WsNotify, Used
  <1>7. CASE TetragonTest \/ TetragonStore
    BY <1>7 DEF TetragonTest, TetragonStore
  <1>8. CASE TetragonPrepare
    BY <1>8 DEF TetragonPrepare, Used
  <1> QED
    BY <1>1, <1>2, <1>3, <1>4, <1>5, <1>6, <1>7, <1>8
    DEF Working, Service, Monitor

LEMMA SignalUses ==
  ASSUME Uses, Terminate \/ Kill \/ UNCHANGED vars
  PROVE  Uses'
  BY DEF Terminate, Kill, End, Uses, UseInv, LateUse, Before, resourceVars,
         threadVars, vars

LEMMA UsesStep ==
  MainTypes /\ ThreadTypes /\ ServerInv /\ Uses /\ [Next]_vars => Uses'
  BY StartingUses, RunningUses, StoppingUses, WorkingUses, SignalUses, NextCases
  DEF Going

-----------------------------------------------------------------------------
(* Where the thresholds in use come from *)

Sourced == SettingsInv /\ SettingsInForce /\ MapWasConfigured

LEMMA InitSourced == Init => Sourced
  <1> SUFFICES ASSUME Init PROVE Sourced
    OBVIOUS
  <1>1. \A f \in Field : Default[f] \in configured[f] /\ config[f] \in configured[f]
    BY DEF Init, ConfigInit
  <1>2. \A f \in Field : config_map[f] = 0
    BY DEF Init, ConfigInit, Zeros
  <1> QED
    BY <1>1, <1>2
    DEF Init, ConfigInit, Sourced, SettingsInv, SettingsInForce, MapWasConfigured,
        InUse, Before

LEMMA StartSourced == Sourced /\ Start => Sourced'
  BY DEF Start, InitDefaults, Sourced, SettingsInv, SettingsInForce,
         MapWasConfigured, InUse

LEMMA AttachSourced ==
  ASSUME ServerInv, Sourced, Attach
  PROVE  Sourced'
  <1>1. CASE main' = "maps"
    <2>1. NewMap /\ main = "attach" /\ phase' = phase
      BY <1>1 DEF Attach, Proceed, End
    <2>2. config = Default /\ posts = 0
      BY <2>1 DEF Sourced, SettingsInv, Before
    <2>3. \A f \in Field : Default[f] \in configured'[f] /\ config'[f] \in configured'[f]
      BY <2>1, <2>2 DEF NewMap
    <2>4. \A f \in Field : config_map'[f] = 0
      BY <2>1 DEF NewMap, Zeros
    <2> QED
      BY <1>1, <2>1, <2>2, <2>3, <2>4
      DEF NewMap, Sourced, SettingsInv, SettingsInForce, MapWasConfigured, InUse
  <1>2. CASE main' # "maps"
    <2>1. UNCHANGED configVars /\ main' = "off" /\ phase' = "down"
      BY <1>2 DEF Attach, Proceed, End
    <2> QED
      BY <2>1
      DEF configVars, Sourced, SettingsInv, SettingsInForce, MapWasConfigured,
          InUse, Before
  <1> QED
    BY <1>1, <1>2

\* A step that leaves the thresholds alone.
LEMMA KeptSourced ==
  ASSUME Sourced, UNCHANGED configVars,
         phase' = phase \/ phase' = "down" \/ main \in Before,
         main' \in Before => main \in Before
  PROVE  Sourced'
  BY DEF configVars, Sourced, SettingsInv, SettingsInForce, MapWasConfigured,
         InUse

LEMMA PostSourced ==
  ASSUME ServerInv, Sourced, Post, UNCHANGED main
  PROVE  Sourced'
  <1>1. main \notin Before
    BY DEF Post, ServerInv, Serving, Before
  <1>2. \A f \in Field : /\ configured[f] \subseteq configured'[f]
                         /\ config'[f] \in configured'[f]
    BY DEF Post
  <1> QED
    BY <1>1, <1>2
    DEF Post, Sourced, SettingsInv, SettingsInForce, MapWasConfigured, InUse

LEMMA PublishSourced ==
  ASSUME ServerInv, Sourced, NEW loaded, Publish(loaded), UNCHANGED main
  PROVE  Sourced'
  <1>1. main \notin Before
    BY DEF Publish, ServerInv, Serving, Before
  <1> QED
    BY <1>1
    DEF Publish, Sourced, SettingsInv, SettingsInForce, MapWasConfigured, InUse

LEMMA SourcedStep == ServerInv /\ Sourced /\ [Next]_vars => Sourced'
  <1> SUFFICES ASSUME ServerInv, Sourced, [Next]_vars PROVE Sourced'
    OBVIOUS
  <1> USE DEF Before, Proceed, End
  <1>1. CASE Start
    BY <1>1, StartSourced
  <1>2. CASE Attach
    BY <1>2, AttachSourced
  <1>3. CASE DetachOld \/ StartHttp \/ Unload
    BY <1>3, KeptSourced DEF DetachOld, StartHttp, Unload
  <1>4. CASE Going
    BY <1>4, KeptSourced
    DEF Going, OpenDatabase, FindAddress, LoadProgram, FindMaps, StartWebsocket,
        StartTetragon, InstallHandlers, Loop, StopHttp, Interrupt, DestroyContext,
        ForgetContext, CloseHandle, DropHandle, Shut, Exit
  <1>5. CASE Terminate \/ Kill
    BY <1>5, KeptSourced DEF Terminate, Kill
  <1>6. CASE Settings
    BY <1>6, PostSourced, PublishSourced DEF Settings, mainVars
  <1>7. CASE BeginQuery \/ EndQuery \/ Service \/ Monitor \/ UNCHANGED vars
    BY <1>7, KeptSourced
    DEF BeginQuery, EndQuery, Service, WsTest, WsCall, WsReturn, WsNotify, Monitor,
        TetragonTest, TetragonPrepare, TetragonStore, mainVars, vars
  <1> QED
    BY <1>1, <1>2, <1>3, <1>4, <1>5, <1>6, <1>7, NextCases DEF Working

-----------------------------------------------------------------------------
(* Theorems *)

IInv == TypeOK /\ Left /\ ServerInv /\ Uses /\ Sourced

\* What main has set up is inductive, together with the types and with what
\* the process leaves behind, what its threads use and where its thresholds
\* come from (main.c:122-353).
THEOREM Inductive == Spec => []IInv
  <1>1. Init => IInv
    BY InitTypes, InitLeft, InitServer, InitUses, InitSourced DEF IInv
  <1>2. IInv /\ [Next]_vars => IInv'
    BY TypeStep, TypeParts, LeftStep, ServerStep, UsesStep, SourcedStep DEF IInv
  <1> QED
    BY <1>1, <1>2, PTL DEF Spec

\* While requests are answered, and unless it is a dry run, the interface is
\* filtered by the program of the process that answers them (main.c:227).
THEOREM ServingIsFilteringAlways == Spec => []ServingIsFiltering
  <1>1. IInv => ServingIsFiltering
    BY DEF IInv, Left, FilterInv, ServerInv, ServingIsFiltering, Filtering
  <1> QED
    BY <1>1, Inductive, PTL

\* A process leaves its program behind only where a signal ends it during
\* start-up or kills it, where a map is missing, where detaching fails, or on a
\* native interface; and the next finds its interface occupied only in the last
\* two cases (bpf_loader.c:50-57 and 156-167).
THEOREM LeftBehindAlways == Spec => []LeftBehind
  <1>1. IInv => LeftBehind
    BY DEF IInv, Left
  <1> QED
    BY <1>1, Inductive, PTL

\* The requests are over before shutdown takes anything away; the two threads
\* that it does not wait for use too late nothing but the context, once it has
\* been destroyed, and the connection, once it has been closed (main.c:335-348).
THEOREM LateUseAlways == Spec => []LateUse
  <1>1. IInv => LateUse
    BY DEF IInv, Uses
  <1> QED
    BY <1>1, Inductive, PTL

\* After a request whose update did not fail, the thresholds that the checks
\* use are those that the settings API reports (src/api/system.c:64-91).
THEOREM SettingsInForceAlways == Spec => []SettingsInForce
  <1>1. IInv => SettingsInForce
    BY DEF IInv, Sourced
  <1> QED
    BY <1>1, Inductive, PTL

\* No check uses a threshold that the daemon was not configured with, but for
\* the zeros of a map that nothing has filled (src/api/system.c:80-91).
THEOREM MapWasConfiguredAlways == Spec => []MapWasConfigured
  <1>1. IInv => MapWasConfigured
    BY DEF IInv, Sourced
  <1> QED
    BY <1>1, Inductive, PTL

=============================================================================
