-------------------------- MODULE MCTetragonMonitor --------------------------
(* Small instances of TetragonMonitor.                                     *)
EXTENDS TetragonMonitor
=============================================================================
