----------------------------- MODULE MCExecutor ------------------------------
(***************************************************************************)
(* A small instance of Executor for TLC.  Its liveness is checked in the   *)
(* same run, so the names of the attempts are not declared symmetric.      *)
(***************************************************************************)
EXTENDS Executor
=============================================================================
