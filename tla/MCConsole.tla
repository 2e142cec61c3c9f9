----------------------------- MODULE MCConsole -----------------------------
(* A small instance of Console.  TLC cannot read records from a .cfg: the  *)
(* rules that come before the all-zero key are chosen here.                *)
EXTENDS Console

OtherFirst == {[ip |-> ip, proto |-> "tcp"] : ip \in Ip}
=============================================================================
