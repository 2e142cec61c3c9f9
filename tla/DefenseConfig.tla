---------------------------- MODULE DefenseConfig ----------------------------
(***************************************************************************)
(* How the thresholds reach the XDP program.  The daemon keeps them in its *)
(* runtime_config (defaults at src/runtime_config.c:36-41) and the program *)
(* in config_map, a BPF array whose only element exists, filled with       *)
(* zeros, from the moment the program is loaded.  POST                     *)
(* /api/v1/system/settings changes the former and then copies all of it to *)
(* the latter (src/api/system.c:52-104); nothing else writes config_map.   *)
(*                                                                         *)
(* The HTTP server has one thread, so requests do not overlap.  Lifecycle  *)
(* starts and stops the processes that these actions belong to.            *)
(***************************************************************************)
EXTENDS Integers, Sequences, FiniteSets

CONSTANTS
  Field,    \* fields of struct attacks_config_t
  Default,  \* defaults of runtime_config_init
  Given,    \* integers that a request may give for a field
  U32,      \* modulus of the thresholds
  MaxPosts  \* bound: settings requests of a process

ASSUME DefenseConfigAssumption ==
  /\ U32 \in Nat \ {0}
  /\ Default \in [Field -> 0 .. U32 - 1]
  /\ Given \subseteq Int
  /\ MaxPosts \in Nat

Threshold == 0 .. U32 - 1
Zeros     == [f \in Field |-> 0]

VARIABLES
  phase,      \* of the HTTP server: "down", "serving", or "updating" the map
  config,     \* the thresholds of runtime_config
  config_map, \* the element of config_map of the program attached last
  failed,     \* the last request has not changed config_map
  posts,      \* settings requests that the process has handled
  published,  \* history: config_map has been written
  configured  \* history: for each field, the thresholds it has been given

configVars == <<config, config_map, failed, posts, published, configured>>

ConfigInit ==
  /\ phase = "down"
  /\ config = Default
  /\ config_map = Zeros
  /\ failed = FALSE
  /\ posts = 0
  /\ published = FALSE
  /\ configured = [f \in Field |-> {Default[f]}]

\* A process begins with the defaults.
InitDefaults ==
  /\ config' = Default
  /\ failed' = FALSE
  /\ posts' = 0
  /\ UNCHANGED <<config_map, published, configured>>

\* A program is attached, with a new config_map that nothing fills.
NewMap ==
  /\ config_map' = Zeros
  /\ published' = FALSE
  /\ configured' = [f \in Field |-> {Default[f]}]
  /\ UNCHANGED <<config, failed, posts>>

\* json_object_get_int: an integer beyond the 32-bit signed ones becomes the
\* nearest of them.
Saturated(n) == CASE n >= U32 \div 2   -> U32 \div 2 - 1
                  [] n < - (U32 \div 2) -> - (U32 \div 2)
                  [] OTHER             -> n

\* Mutation: negative numbers are kept as they are.
StoredSigned(n) == Saturated(n)

\* An integer of the request stored in a uint32_t.
Stored(n) == Saturated(n) % U32

\* Mutation: the handler returns without updating the map.
PostUnpublished ==
  /\ phase = "serving"
  /\ posts < MaxPosts
  /\ posts' = posts + 1
  /\ \E fields \in SUBSET Field : \E given \in [fields -> Given] :
       /\ config' = [f \in Field |-> IF f \in fields THEN Stored(given[f])
                                     ELSE config[f]]
       /\ configured' = [f \in Field |-> configured[f] \cup {config'[f]}]
  /\ UNCHANGED <<phase, config_map, failed, published>>

\* A request gives some of the fields, and those alone change.
Post ==
  /\ phase = "serving"
  /\ posts < MaxPosts
  /\ posts' = posts + 1
  /\ phase' = "updating"
  /\ \E fields \in SUBSET Field : \E given \in [fields -> Given] :
       /\ config' = [f \in Field |-> IF f \in fields THEN Stored(given[f])
                                     ELSE config[f]]
       /\ configured' = [f \in Field |-> configured[f] \cup {config'[f]}]
  /\ UNCHANGED <<config_map, failed, published>>

\* Mutation: only the thresholds that differ from the defaults are copied.
PublishChanged(loaded) ==
  /\ phase = "updating"
  /\ phase' = "serving"
  /\ config_map' = [f \in Field |-> IF config[f] = Default[f]
                                    THEN config_map[f] ELSE config[f]]
  /\ failed' = FALSE
  /\ published' = TRUE
  /\ UNCHANGED <<config, posts, configured>>

\* The whole element is replaced; a failure is not noticed.  Where no program
\* has been loaded the descriptor is not of a map, and the update fails.
Publish(loaded) ==
  /\ phase = "updating"
  /\ phase' = "serving"
  /\ \/ /\ loaded
        /\ config_map' = config
        /\ failed' = FALSE
        /\ published' = TRUE
     \/ /\ failed' = TRUE
        /\ UNCHANGED <<config_map, published>>
  /\ UNCHANGED <<config, posts, configured>>

\* What a check of the program uses for field f: get_config looks up the only
\* element of an array, which never fails, so its fallback is never taken.
InUse(f) == config_map[f]

-----------------------------------------------------------------------------

\* Once a request has been handled, and unless the last update of the map
\* failed, what the settings API reports is what the checks use, for the
\* fields that no request has named too, whatever processes came before
\* (src/api/system.c:64-91).
SettingsInForce ==
  phase = "serving" /\ posts > 0 /\ ~ failed => config_map = config

\* From the first successful update on, no check uses a threshold that the
\* daemon was not configured with; before it they all use zero, also those of a
\* program that has outlived its daemon (src/api/system.c:80-91).
MapWasConfigured ==
  \A f \in Field : InUse(f) \in IF published THEN configured[f] ELSE {0}

=============================================================================
