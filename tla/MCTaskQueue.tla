----------------------------- MODULE MCTaskQueue -----------------------------
(***************************************************************************)
(* Six tasks: enough for a heap of three levels whose last level is not    *)
(* full, with equal times, and two tasks that share an ID.                 *)
(***************************************************************************)
EXTENDS TaskQueue

T(i, next) == [id |-> i, next |-> next]

MCTask == {T("a", 1), T("b", 2), T("c", 2), T("d", 3), T("e", 4), T("e", 1)}
MCID == {t.id : t \in MCTask}
MCTime == 0..4
=============================================================================
