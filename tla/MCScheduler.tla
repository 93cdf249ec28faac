----------------------------- MODULE MCScheduler -----------------------------
(***************************************************************************)
(* Small instances of Scheduler for TLC.                                   *)
(***************************************************************************)
EXTENDS Scheduler, TLC

CONSTANTS Addr  \* the addresses the allocator may use for an ID

\* Task objects: an ID and an address.
MCTask == [id : ID, addr : Addr]

\* Addresses are interchangeable, and so are the names of run loops and of
\* clients.
MCSymmetry == Permutations(Addr) \cup Permutations(Loop) \cup Permutations(Client)
=============================================================================
