------------------------------ MODULE Scheduler ------------------------------
(***************************************************************************)
(* The concurrent core of GoLiteCron (scheduler.go) over the heap storage. *)
(*                                                                         *)
(* Four kinds of goroutines meet here: callers of Start and Stop, which    *)
(* hold mu; the run loop, which ticks the storage WITHOUT taskMu and       *)
(* starts one goroutine per due task; the task goroutines, which run the   *)
(* job, compute the next time and put a NEW object of the same ID back     *)
(* under taskMu; and clients that list, remove and add tasks.              *)
(*                                                                         *)
(* A task goroutine is named by the task object it runs.  Calendar time is *)
(* left out: TimePasses says that the time of a stored task has come.  A   *)
(* task object no goroutine and no client can reach any more may be        *)
(* allocated again, as the garbage collector does.                         *)
(***************************************************************************)
EXTENDS TaskStorage, Naturals

CONSTANTS Loop,      \* names for the goroutines that execute run()
          Client,    \* callers of AddTask, RemoveTask and GetTasks
          Finite,    \* IDs whose schedule can run out of next times
          Panicky,   \* IDs whose job can panic (and has no timeout)
          MaxActive, \* bound: AddTask makes no more than this many per ID
          MaxHeld    \* bound: clients that hold a task of GetTasks at once

ASSUME SchedulerAssumption == /\ IsFiniteSet(Task)
                              /\ IsFiniteSet(Loop)
                              /\ Finite \subseteq ID
                              /\ Panicky \subseteq ID

VARIABLES running,  \* Scheduler.running
          closed,   \* the current stopChan has been closed
          mu,       \* Scheduler.mu is held by a Stop that waits for wg
          wg,       \* the counter of Scheduler.wg
          taskMu,   \* Scheduler.taskMu is held
          loops,    \* the live goroutines of run()
          batch,    \* loop -> tasksToExecute not yet handed to a goroutine
          due,      \* the stored tasks whose NextRunTime has come
          pc,       \* task object -> where its goroutine is
          busy,     \* task object -> Task.Running
          removed,  \* the task objects whose Task.Removed is 1
          cl,       \* client -> the call it is in and its *Task argument
          twinned   \* history: IDs AddTask accepted during an execution

loopVars == <<running, closed, mu, loops>>
callVars == <<taskMu, cl, twinned>>
taskVars == <<pc, busy, removed, due>>
vars == <<stored, index, running, closed, mu, wg, taskMu, loops, batch, due,
          pc, busy, removed, cl, twinned>>

GoState == {"none", "start", "job", "lock", "adding", "exit"}
Call == [at : {"idle", "lock", "removing", "adding"},
         id : ID,
         ref : Task \cup {Null}]

TypeOK ==
    /\ StorageTypeOK
    /\ running \in BOOLEAN /\ closed \in BOOLEAN
    /\ mu \in BOOLEAN /\ taskMu \in BOOLEAN
    /\ wg \in Nat
    /\ loops \subseteq Loop
    /\ batch \in [Loop -> SUBSET Task]
    /\ due \subseteq stored
    /\ pc \in [Task -> GoState]
    /\ busy \in [Task -> BOOLEAN]
    /\ removed \subseteq Task
    /\ cl \in [Client -> Call]
    /\ twinned \subseteq ID

-----------------------------------------------------------------------------
InBatch == UNION {batch[l] : l \in loops}

\* The goroutines of wg: they have not called wg.Done.
Going == {t \in Task : pc[t] # "none"}

\* The tasks that are waiting or being executed: the goroutine of any other
\* task has nothing left to do but its deferred calls.
Active(i) == {t \in Task : /\ t.id = i
                           /\ \/ t \in stored \cup InBatch
                              \/ pc[t] \in {"start", "job", "lock", "adding"}}

\* The objects a pointer still leads to.
Reachable == stored \cup InBatch \cup Going \cup {cl[c].ref : c \in Client}

\* A new object of ID i: its Removed and Running are zero.
Fresh(i) == {t \in Task \ Reachable : t.id = i}

Allocate(t) == /\ removed' = removed \ {t}
               /\ busy' = [busy EXCEPT ![t] = FALSE]

Init ==
    /\ StorageInit
    /\ running = FALSE /\ closed = FALSE
    /\ mu = FALSE /\ taskMu = FALSE
    /\ wg = 0
    /\ loops = {}
    /\ batch = [l \in Loop |-> {}]
    /\ due = {}
    /\ pc = [t \in Task |-> "none"]
    /\ busy = [t \in Task |-> FALSE]
    /\ removed = {}
    /\ cl \in [Client -> {[at |-> "idle", id |-> i, ref |-> Null] : i \in ID}]
    /\ twinned = {}

-----------------------------------------------------------------------------
(***************************************************************************)
(* Start and Stop.  A Start that finds the scheduler running and a Stop    *)
(* that finds it stopped change nothing.                                   *)
(***************************************************************************)
Start ==
    /\ ~mu
    /\ ~running
    /\ running' = TRUE
    /\ closed' = FALSE
    /\ wg' = wg + 1
    /\ \E l \in Loop \ loops : loops' = loops \cup {l}
    /\ UNCHANGED <<stored, index, mu, batch>>
    /\ UNCHANGED <<taskVars, callVars>>

\* Mutant of StopBegin: without close(stopChan).
StopUnheard ==
    /\ ~mu
    /\ running
    /\ mu' = TRUE
    /\ running' = FALSE
    /\ UNCHANGED <<stored, index, wg, loops, batch, closed>>
    /\ UNCHANGED <<taskVars, callVars>>

\* Stop up to wg.Wait, which it calls with mu held.
StopBegin ==
    /\ ~mu
    /\ running
    /\ mu' = TRUE
    /\ running' = FALSE
    /\ closed' = TRUE
    /\ UNCHANGED <<stored, index, wg, loops, batch>>
    /\ UNCHANGED <<taskVars, callVars>>

\* Mutant of StopEnd: without wg.Wait.
StopImpatient ==
    /\ mu
    /\ mu' = FALSE
    /\ UNCHANGED <<stored, index, running, closed, wg, loops, batch>>
    /\ UNCHANGED <<taskVars, callVars>>

StopEnd ==
    /\ mu
    /\ wg = 0
    /\ mu' = FALSE
    /\ UNCHANGED <<stored, index, running, closed, wg, loops, batch>>
    /\ UNCHANGED <<taskVars, callVars>>

-----------------------------------------------------------------------------
(***************************************************************************)
(* The run loop.  select takes any ready case, so a closed stopChan does   *)
(* not keep a tick that is ready from being served first.                  *)
(***************************************************************************)
LoopExit(l) ==
    /\ l \in loops /\ batch[l] = {}
    /\ closed
    /\ loops' = loops \ {l}
    /\ wg' = wg - 1
    /\ UNCHANGED <<stored, index, running, closed, mu, batch>>
    /\ UNCHANGED <<taskVars, callVars>>

\* taskStorage.Tick: the run loop does not take taskMu.
LoopTick(l) ==
    /\ l \in loops /\ batch[l] = {}
    /\ due # {}
    /\ StorageTick(due)
    /\ batch' = [batch EXCEPT ![l] = due]
    /\ due' = {}
    /\ UNCHANGED <<loopVars, wg, pc, busy, removed>>
    /\ UNCHANGED callVars

\* Mutant of Spawn: without wg.Add.
SpawnUncounted(l, t) ==
    /\ l \in loops
    /\ t \in batch[l]
    /\ batch' = [batch EXCEPT ![l] = @ \ {t}]
    /\ pc' = [pc EXCEPT ![t] = "start"]
    /\ UNCHANGED <<loopVars, stored, index, wg, busy, removed, due>>
    /\ UNCHANGED callVars

\* wg.Add and go func(t): one turn of the for loop.
Spawn(l, t) ==
    /\ l \in loops
    /\ t \in batch[l]
    /\ batch' = [batch EXCEPT ![l] = @ \ {t}]
    /\ wg' = wg + 1
    /\ pc' = [pc EXCEPT ![t] = "start"]
    /\ UNCHANGED <<loopVars, stored, index, busy, removed, due>>
    /\ UNCHANGED callVars

TimePasses(t) ==
    /\ t \in stored \ due
    /\ due' = due \cup {t}
    /\ UNCHANGED <<stored, index, wg, batch, pc, busy, removed>>
    /\ UNCHANGED <<loopVars, callVars>>

-----------------------------------------------------------------------------
(***************************************************************************)
(* A task goroutine: go func(t *Task).                                     *)
(***************************************************************************)
\* CompareAndSwap of Running; a goroutine that loses it returns at once.
GoStart(t) ==
    /\ pc[t] = "start"
    /\ pc' = [pc EXCEPT ![t] = IF busy[t] THEN "exit" ELSE "job"]
    /\ busy' = [busy EXCEPT ![t] = TRUE]
    /\ UNCHANGED <<stored, index, wg, batch, removed, due>>
    /\ UNCHANGED <<loopVars, callVars>>

\* The attempts are over, with or without an error.  A zero next time or a
\* stopped scheduler ends the goroutine, otherwise it asks for taskMu.
JobReturns(t) ==
    /\ pc[t] = "job"
    /\ \E zero \in {FALSE} \cup {t.id \in Finite} :
          pc' = [pc EXCEPT ![t] = IF zero \/ ~running THEN "exit" ELSE "lock"]
    /\ UNCHANGED <<stored, index, wg, batch, busy, removed, due>>
    /\ UNCHANGED <<loopVars, callVars>>

\* Without a timeout the panic reaches the outermost deferred function.
JobPanics(t) ==
    /\ pc[t] = "job"
    /\ t.id \in Panicky
    /\ pc' = [pc EXCEPT ![t] = "exit"]
    /\ UNCHANGED <<stored, index, wg, batch, busy, removed, due>>
    /\ UNCHANGED <<loopVars, callVars>>

\* Mutant of GoLock: without the check of Removed.
GoLockUnchecked(t) ==
    /\ pc[t] = "lock"
    /\ ~taskMu
    /\ pc' = [pc EXCEPT ![t] = "adding"] /\ taskMu' = TRUE
    /\ UNCHANGED <<stored, index, wg, batch, busy, removed, due>>
    /\ UNCHANGED <<loopVars, cl, twinned>>

\* taskMu.Lock and the check of Removed, which gives taskMu back if set.
GoLock(t) ==
    /\ pc[t] = "lock"
    /\ ~taskMu
    /\ IF t \in removed
       THEN pc' = [pc EXCEPT ![t] = "exit"] /\ UNCHANGED taskMu
       ELSE pc' = [pc EXCEPT ![t] = "adding"] /\ taskMu' = TRUE
    /\ UNCHANGED <<stored, index, wg, batch, busy, removed, due>>
    /\ UNCHANGED <<loopVars, cl, twinned>>

\* Mutant of GoReschedule: the storage gets t itself and no new object.
GoRescheduleSame(t) ==
    /\ pc[t] = "adding"
    /\ StorageAdd(t)
    /\ taskMu' = FALSE
    /\ pc' = [pc EXCEPT ![t] = "exit"]
    /\ UNCHANGED <<wg, batch, due, busy, removed>>
    /\ UNCHANGED <<loopVars, cl, twinned>>

\* Mutant of GoReschedule: taskMu.Unlock without storage.AddTask.
GoRescheduleNone(t) ==
    /\ pc[t] = "adding"
    /\ taskMu' = FALSE
    /\ pc' = [pc EXCEPT ![t] = "exit"]
    /\ UNCHANGED <<wg, batch, due, busy, removed, stored, index>>
    /\ UNCHANGED <<loopVars, cl, twinned>>

\* storage.AddTask(updateTask), a new object, and taskMu.Unlock.
GoReschedule(t) ==
    /\ pc[t] = "adding"
    /\ \E u \in Fresh(t.id) : StorageAdd(u) /\ Allocate(u)
    /\ taskMu' = FALSE
    /\ pc' = [pc EXCEPT ![t] = "exit"]
    /\ UNCHANGED <<wg, batch, due>>
    /\ UNCHANGED <<loopVars, cl, twinned>>

\* The deferred calls: Running := 0, then wg.Done.
GoExit(t) ==
    /\ pc[t] = "exit"
    /\ busy' = [busy EXCEPT ![t] = FALSE]
    /\ pc' = [pc EXCEPT ![t] = "none"]
    /\ wg' = wg - 1
    /\ UNCHANGED <<stored, index, batch, removed, due>>
    /\ UNCHANGED <<loopVars, callVars>>

-----------------------------------------------------------------------------
(***************************************************************************)
(* Clients.  One that is idle may hold a pointer it got from GetTasks, and *)
(* keep it for as long as it likes.                                        *)
(***************************************************************************)
Idle(i, t) == [at |-> "idle", id |-> i, ref |-> t]

GetTasks(c) ==
    /\ cl[c].at = "idle"
    /\ Cardinality({d \in Client \ {c} : cl[d].ref # Null}) < MaxHeld
    /\ \E t \in stored : cl' = [cl EXCEPT ![c] = Idle(t.id, t)]
    /\ UNCHANGED <<stored, index, wg, batch, taskMu, twinned>>
    /\ UNCHANGED <<loopVars, taskVars>>

\* RemoveTask up to taskMu.Lock.  Its argument is a task of GetTasks, or one
\* the caller has made from the ID alone.
RemoveBegin(c, i, t) ==
    /\ cl[c].at = "idle"
    /\ t \in {Null, cl[c].ref}
    /\ t # Null => t.id = i
    /\ removed' = removed \cup ({t} \ {Null})
    /\ cl' = [cl EXCEPT ![c] = [at |-> "lock", id |-> i, ref |-> t]]
    /\ UNCHANGED <<stored, index, wg, batch, pc, busy, due, taskMu, twinned>>
    /\ UNCHANGED loopVars

\* TaskExist under taskMu: without an entry RemoveTask returns false.
RemoveCheck(c) ==
    /\ cl[c].at = "lock"
    /\ ~taskMu
    /\ IF TaskExist(cl[c].id)
       THEN cl' = [cl EXCEPT ![c].at = "removing"] /\ taskMu' = TRUE
       ELSE cl' = [cl EXCEPT ![c] = Idle(@.id, Null)] /\ UNCHANGED taskMu
    /\ UNCHANGED <<stored, index, wg, batch, twinned>>
    /\ UNCHANGED <<loopVars, taskVars>>

\* storage.RemoveTask, which a Tick may have forestalled, and return true.
RemoveDo(c) ==
    /\ cl[c].at = "removing"
    /\ StorageRemove(cl[c].id)
    /\ due' = due \cap stored'
    /\ cl' = [cl EXCEPT ![c] = Idle(@.id, Null)]
    /\ taskMu' = FALSE
    /\ UNCHANGED <<wg, batch, pc, busy, removed, twinned>>
    /\ UNCHANGED loopVars

\* Mutant of AddCheck: without the check of TaskExist.
AddUnchecked(c, i) ==
    /\ cl[c].at = "idle"
    /\ ~taskMu
    /\ Cardinality(Active(i)) < MaxActive
    /\ cl' = [cl EXCEPT ![c] = [at |-> "adding", id |-> i, ref |-> Null]]
    /\ taskMu' = TRUE
    /\ UNCHANGED <<stored, index, wg, batch, twinned>>
    /\ UNCHANGED <<loopVars, taskVars>>

\* AddTask of a job with a valid expression: TaskExist under taskMu.
AddCheck(c, i) ==
    /\ cl[c].at = "idle"
    /\ ~taskMu
    /\ ~TaskExist(i)
    /\ Cardinality(Active(i)) < MaxActive
    /\ cl' = [cl EXCEPT ![c] = [at |-> "adding", id |-> i, ref |-> Null]]
    /\ taskMu' = TRUE
    /\ UNCHANGED <<stored, index, wg, batch, twinned>>
    /\ UNCHANGED <<loopVars, taskVars>>

AddDo(c) ==
    /\ cl[c].at = "adding"
    /\ \E t \in Fresh(cl[c].id) : StorageAdd(t) /\ Allocate(t)
    /\ twinned' = twinned \cup {i \in {cl[c].id} : /\ Active(i) # {}
                                                   /\ Of(stored, i) = {}}
    /\ cl' = [cl EXCEPT ![c] = Idle(@.id, Null)]
    /\ taskMu' = FALSE
    /\ UNCHANGED <<wg, batch, pc, due>>
    /\ UNCHANGED loopVars

-----------------------------------------------------------------------------
LoopStep(l) == \/ LoopExit(l)
               \/ LoopTick(l)
               \/ \E t \in Task : Spawn(l, t)

GoStep(t) == \/ GoStart(t)
             \/ JobReturns(t)
             \/ JobPanics(t)
             \/ GoLock(t)
             \/ GoReschedule(t)
             \/ GoExit(t)

ClientStep(c) == \/ GetTasks(c)
                 \/ \E i \in ID, t \in Task \cup {Null} : RemoveBegin(c, i, t)
                 \/ RemoveCheck(c)
                 \/ RemoveDo(c)
                 \/ \E i \in ID : AddCheck(c, i)
                 \/ AddDo(c)

Next == \/ Start
        \/ StopBegin
        \/ StopEnd
        \/ \E l \in Loop : LoopStep(l)
        \/ \E t \in Task : TimePasses(t) \/ GoStep(t)
        \/ \E c \in Client : ClientStep(c)

Spec == Init /\ [][Next]_vars

-----------------------------------------------------------------------------
(***************************************************************************)
(* Safety.                                                                 *)
(***************************************************************************)
\* Stop (scheduler.go:199) has waited for everything it started: once it has
\* returned, and until the next Start, no run loop and no task goroutine is
\* left, so no job runs and nothing puts a task back.
StopQuiesces == ~running /\ ~mu => loops = {} /\ Going = {}

\* However Start and Stop are called, at most one goroutine executes run():
\* a second one would read the new stopChan and never stop (Start, :186).
SingleRunLoop == \A l, m \in loops : l = m

\* A task object is in one place at a time: in the storage, in the slice a
\* loop has popped, or run by a goroutine.  A goroutine therefore never loses
\* the CompareAndSwap of Running (:238), which would drop the task for good,
\* because run() reschedules a new object and never the one it runs (:299).
SingleOwner ==
    /\ \A t \in stored : t \notin InBatch /\ pc[t] = "none"
    /\ \A l \in Loop : \A t \in batch[l] : pc[t] = "none"
    /\ \A t \in Task : pc[t] = "start" => ~busy[t]

\* Unless AddTask accepted an ID while a task of it was being executed, an ID
\* has one task that is waiting or executing, and TaskExist tells whether
\* the storage holds it: the heap, its map and the goroutines agree.
OneTaskPerID ==
    \A i \in ID \ twinned :
        /\ \A t, u \in Active(i) : t = u
        /\ TaskExist(i) <=> Of(stored, i) # {}

\* Every task of the ID carries Removed and no goroutine is past its check.
Dismissed(i) == \A t \in Active(i) : t \in removed /\ pc[t] # "adding"

Added(i) == \E c \in Client : /\ cl[c].at = "adding" /\ cl[c].id = i
                              /\ cl'[c].at = "idle"

\* The flag Removed that RemoveTask sets before it asks for taskMu (:172) is
\* enough: an ID all of whose tasks carry it, wherever they are on their way
\* from the heap through a job and back, ends unless AddTask adds it anew.
DismissalHolds == [][\A i \in ID : Dismissed(i) /\ ~Added(i) => Dismissed(i)']_vars

\* The client c leaves RemoveTask by return true.
RemoveReturnsTrue(c) == cl[c].at = "removing" /\ cl'[c].at = "idle"

\* A RemoveTask that still finds the task under taskMu (:181) leaves no task
\* of a singly added ID waiting, popped or executing.
FoundIsRemoved ==
    [][\A c \in Client :
          /\ RemoveReturnsTrue(c)
          /\ cl[c].id \notin twinned
          /\ TaskExist(cl[c].id)
          => Active(cl[c].id)' = {}]_vars

\* docs/getting-started.md, Removing Tasks: when RemoveTask returns true the
\* task is "removed successfully": it is gone, or on its way out.
TrueMeansRemoved ==
    [][\A c \in Client :
          RemoveReturnsTrue(c) /\ cl[c].id \notin twinned
          => Dismissed(cl[c].id)']_vars

\* The goroutine of t ends without putting a new object back: RemoveTask has
\* marked t, or the job is over and the scheduler stopped (:295), the schedule
\* has no next time (:290) or the job panicked (:233).
GivesUp(t) == \/ pc[t] = "lock" /\ t \in removed
              \/ pc[t] = "job" /\ (~running \/ t.id \in Finite \cup Panicky)

\* No task is lost on its way from the heap through the slice of a loop and a
\* goroutine back into the heap: the last task of an ID ceases to wait or to
\* execute only in a goroutine that gives up or by a RemoveTask of the ID.
NothingVanishes ==
    [][\A i \in ID :
          Active(i) # {} /\ Active(i)' = {}
          => \/ \E t \in Active(i) : GivesUp(t)
             \/ \E c \in Client : RemoveReturnsTrue(c) /\ cl[c].id = i]_vars

-----------------------------------------------------------------------------
(***************************************************************************)
(* Liveness.  Goroutines that can go on do; a job returns or panics; the   *)
(* ticker and the clock go on.  select chooses among its ready cases at    *)
(* random, so a loop whose channel stays closed leaves in the end; a       *)
(* sync.Mutex hands over to a waiter that has starved for a millisecond.   *)
(***************************************************************************)
Fairness ==
    /\ WF_vars(StopEnd)
    /\ \A l \in Loop : /\ SF_vars(LoopExit(l))
                       /\ WF_vars(LoopTick(l))
                       /\ WF_vars(\E t \in Task : Spawn(l, t))
    /\ \A t \in Task : /\ WF_vars(TimePasses(t))
                       /\ WF_vars(GoStart(t))
                       /\ WF_vars(JobReturns(t) \/ JobPanics(t))
                       /\ SF_vars(GoLock(t))
                       /\ WF_vars(GoReschedule(t))
                       /\ WF_vars(GoExit(t))
    /\ \A c \in Client : /\ SF_vars(RemoveCheck(c))
                         /\ WF_vars(RemoveDo(c))
                         /\ WF_vars(AddDo(c))

FairSpec == Spec /\ Fairness

\* Stop returns although the loop may go on ticking while stopChan is closed
\* and goroutines go on to wait for taskMu.
StopReturns == mu ~> ~mu

\* The task of an ID whose schedule goes on and whose job does not panic is
\* executed again and again until a client removes it or the scheduler stops.
Executing(i) == \E t \in Task : t.id = i /\ pc[t] = "job"
Removing(i) == \E c \in Client : cl[c].at \in {"lock", "removing"} /\ cl[c].id = i

KeepsFiring ==
    \A i \in ID \ (Finite \cup Panicky) :
        (running /\ ~Dismissed(i)) ~> (Executing(i) \/ ~running \/ Removing(i))
=============================================================================
