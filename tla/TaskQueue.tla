------------------------------ MODULE TaskQueue ------------------------------
(***************************************************************************)
(* The heap storage of task_queue.go, one comparison or swap at a time:    *)
(* container/heap over the slice tasks, and the map taskIdx from an ID to  *)
(* a slot, which Swap, Push and Pop keep.  TaskQueue.mu is held from the   *)
(* first step of an operation to its last, so readers and other operations *)
(* see the state at "idle" only.  Slots are numbered from 1, as in TLA+.   *)
(***************************************************************************)
EXTENDS Integers

CONSTANTS ID, Task, Null,
          Cap,    \* bound: the slots of the slice
          Time    \* the instants Tick may be called with

ASSUME QueueAssumption == /\ \A t \in Task : t.id \in ID /\ t.next \in Int
                          /\ Null \notin Task
                          /\ Cap \in Nat
                          /\ Time \subseteq Int

VARIABLES tasks,    \* slot -> task, Null behind the end of the slice
          len,      \* len(tasks)
          taskIdx,  \* ID -> slot, 0 when the map has no entry
          at,       \* where the operation that holds mu is
          kind,     \* which operation it is
          arg,      \* the task of AddTask, the ID of RemoveTask
          pos,      \* the slot being sifted, i of down and j of up
          moved,    \* down has moved the element: i > i0
          now,      \* the argument of Tick
          out,      \* the tasks Tick has popped
          was,      \* history: what the storage held when mu was taken
          twinned   \* history: IDs added while a task of the ID was held

heapVars == <<tasks, len, taskIdx>>
opVars == <<at, kind, arg, pos, moved, now, out>>
vars == <<heapVars, opVars, was, twinned>>

Slot == 1..Cap
Held == {tasks[j] : j \in 1..len}
Named == [i \in ID |-> IF taskIdx[i] = 0 THEN Null ELSE tasks[taskIdx[i]]]

Nothing == [stored |-> {}, index |-> [i \in ID |-> Null]]

TypeOK ==
    /\ tasks \in [Slot -> Task \cup {Null}]
    /\ len \in 0..Cap
    /\ taskIdx \in [ID -> 0..Cap]
    /\ at \in {"idle", "up", "down", "pop", "next"}
    /\ kind \in {"add", "remove", "tick"}
    /\ arg \in Task \cup ID \cup {Null}
    /\ pos \in 1..(Cap + 1)
    /\ moved \in BOOLEAN
    /\ now \in Int
    /\ out \subseteq Task
    /\ was \in [stored : SUBSET Task, index : [ID -> Task \cup {Null}]]
    /\ twinned \subseteq ID

Init ==
    /\ tasks = [j \in Slot |-> Null]
    /\ len = 0
    /\ taskIdx = [i \in ID |-> 0]
    /\ at = "idle" /\ kind = "add" /\ arg = Null /\ pos = 1 /\ moved = FALSE
    /\ now = 0 /\ out = {}
    /\ was = Nothing
    /\ twinned = {}

\* An operation takes mu.
Lock(k, x) ==
    /\ at = "idle"
    /\ kind' = k /\ arg' = x
    /\ was' = [stored |-> Held, index |-> Named]

\* It gives mu back, and its local variables are gone.
Unlock ==
    /\ at' = "idle"
    /\ kind' = "add" /\ arg' = Null /\ pos' = 1 /\ moved' = FALSE
    /\ now' = 0 /\ out' = {}
    /\ was' = Nothing

-----------------------------------------------------------------------------
(***************************************************************************)
(* The heap.Interface of TaskQueue.                                        *)
(***************************************************************************)
\* Mutant of Less: the later task first.
More(i, j) == tasks[i].next > tasks[j].next

Less(i, j) == tasks[i].next < tasks[j].next

\* Mutant of Swap: the map is not told.
SwapSlots(i, j) ==
    /\ tasks' = [tasks EXCEPT ![i] = tasks[j], ![j] = tasks[i]]
    /\ UNCHANGED <<len, taskIdx>>

Swap(i, j) ==
    /\ tasks' = [tasks EXCEPT ![i] = tasks[j], ![j] = tasks[i]]
    /\ taskIdx' = [taskIdx EXCEPT ![tasks[j].id] = i, ![tasks[i].id] = j]
    /\ UNCHANGED len

Push(t) ==
    /\ tasks' = [tasks EXCEPT ![len + 1] = t]
    /\ len' = len + 1
    /\ taskIdx' = [taskIdx EXCEPT ![t.id] = len + 1]

\* Mutant of Pop: the entry of the map stays.
PopSlot ==
    /\ tasks' = [tasks EXCEPT ![len] = Null]
    /\ len' = len - 1
    /\ UNCHANGED taskIdx

Pop ==
    /\ tasks' = [tasks EXCEPT ![len] = Null]
    /\ len' = len - 1
    /\ taskIdx' = [taskIdx EXCEPT ![tasks[len].id] = 0]

-----------------------------------------------------------------------------
(***************************************************************************)
(* container/heap.  In heap.Pop and heap.Remove the last slot is out of    *)
(* the heap while the others are sifted.                                   *)
(***************************************************************************)
Last == len - 1

\* The child that down compares with: the right one if it is strictly less.
Child(i) == IF 2 * i + 1 <= Last /\ Less(2 * i + 1, 2 * i)
            THEN 2 * i + 1
            ELSE 2 * i

Sinks(i) == 2 * i <= Last /\ Less(Child(i), i)
Rises(j) == j # 1 /\ Less(j, j \div 2)

DownSwap ==
    /\ at = "down"
    /\ Sinks(pos)
    /\ Swap(pos, Child(pos))
    /\ pos' = Child(pos)
    /\ moved' = TRUE
    /\ UNCHANGED <<at, kind, arg, now, out, was, twinned>>

\* down returns whether it has moved the element; heap.Remove tries up if not.
DownDone ==
    /\ at = "down"
    /\ ~Sinks(pos)
    /\ at' = IF kind = "remove" /\ ~moved THEN "up" ELSE "pop"
    /\ UNCHANGED <<heapVars, kind, arg, pos, moved, now, out, was, twinned>>

UpSwap ==
    /\ at = "up"
    /\ Rises(pos)
    /\ Swap(pos \div 2, pos)
    /\ pos' = pos \div 2
    /\ UNCHANGED <<at, kind, arg, moved, now, out, was, twinned>>

UpDone ==
    /\ at = "up"
    /\ ~Rises(pos)
    /\ IF kind = "remove"
       THEN at' = "pop" /\ UNCHANGED <<kind, arg, pos, moved, now, out, was>>
       ELSE Unlock
    /\ UNCHANGED <<heapVars, twinned>>

\* Mutant of PopLast: the list is begun anew with every task.
PopLastAlone ==
    /\ at = "pop"
    /\ Pop
    /\ IF kind = "tick"
       THEN /\ at' = "next" /\ out' = {tasks[len]}
            /\ UNCHANGED <<kind, arg, pos, moved, now, was>>
       ELSE Unlock
    /\ UNCHANGED twinned

PopLast ==
    /\ at = "pop"
    /\ Pop
    /\ IF kind = "tick"
       THEN /\ at' = "next" /\ out' = out \cup {tasks[len]}
            /\ UNCHANGED <<kind, arg, pos, moved, now, was>>
       ELSE Unlock
    /\ UNCHANGED twinned

-----------------------------------------------------------------------------
(***************************************************************************)
(* The operations of TaskQueue.                                            *)
(***************************************************************************)
AddTask(t) ==
    /\ Lock("add", t)
    /\ len < Cap
    /\ t \notin Held
    /\ twinned' = twinned \cup {u.id : u \in {v \in Held : v.id = t.id}}
    /\ Push(t)
    /\ at' = "up" /\ pos' = len + 1
    /\ UNCHANGED <<moved, now, out>>

\* Mutant of RemoveTask: heap.Pop instead of heap.Remove.
RemoveRoot(i) ==
    /\ Lock("remove", i)
    /\ taskIdx[i] # 0
    /\ Swap(1, len)
    /\ at' = "down"
    /\ pos' = 1
    /\ UNCHANGED <<moved, now, out, twinned>>

\* Without an entry in the map RemoveTask does nothing.
RemoveTask(i) ==
    /\ Lock("remove", i)
    /\ taskIdx[i] # 0
    /\ IF taskIdx[i] = len
       THEN at' = "pop" /\ UNCHANGED heapVars
       ELSE at' = "down" /\ Swap(taskIdx[i], len)
    /\ pos' = taskIdx[i]
    /\ UNCHANGED <<moved, now, out, twinned>>

Tick ==
    /\ Lock("tick", Null)
    /\ now' \in Time
    /\ at' = "next"
    /\ UNCHANGED <<heapVars, pos, moved, out, twinned>>

\* The root is not after now.
Due == len > 0 /\ tasks[1].next <= now

TickPop ==
    /\ at = "next"
    /\ Due
    /\ Swap(1, len)
    /\ at' = "down" /\ pos' = 1 /\ moved' = FALSE
    /\ UNCHANGED <<kind, arg, now, out, was, twinned>>

TickReturn ==
    /\ at = "next"
    /\ ~Due
    /\ Unlock
    /\ UNCHANGED <<heapVars, twinned>>

Sift == DownSwap \/ DownDone \/ UpSwap \/ UpDone \/ PopLast \/ TickPop \/ TickReturn

Next == \/ Sift
        \/ \E t \in Task : AddTask(t)
        \/ \E i \in ID : RemoveTask(i)
        \/ Tick

Spec == Init /\ [][Next]_vars

-----------------------------------------------------------------------------
(***************************************************************************)
(* What the heap guarantees between two operations.                        *)
(***************************************************************************)
Free == at = "idle"

\* No task is before its parent, whatever mix of AddTask, RemoveTask from
\* the middle and Tick went before (task_queue.go:59-104).
HeapOrder == Free => \A j \in 2..len : tasks[j \div 2].next <= tasks[j].next

\* An entry of taskIdx names a slot that holds a task of its ID, even when
\* two tasks share the ID, so that RemoveTask never takes out another task.
EntryNamesTask ==
    Free => \A i \in ID : taskIdx[i] # 0 => /\ taskIdx[i] <= len
                                            /\ tasks[taskIdx[i]].id = i

\* A task whose ID was never shared is in the map under its own slot: none
\* is invisible to TaskExist or out of reach of RemoveTask.
NoOrphan == Free => \A j \in 1..len :
    tasks[j].id \notin twinned => taskIdx[tasks[j].id] = j

\* Tick returns every task it found whose time has come, and no other, and
\* leaves the rest where it is: none is taken out and not returned, none is
\* returned and kept (:95-101).
TickIsExact ==
    [][at = "next" /\ at' = "idle" =>
          /\ out = {t \in was.stored : t.next <= now}
          /\ Held = was.stored \ out]_vars

\* The heap and its map do what TaskStorage promises of them: seen from
\* outside mu an operation is the one step that was asked for, and it takes
\* out or leaves exactly the tasks it should, twins included.
Storage == INSTANCE TaskStorage WITH
    stored <- IF Free THEN Held ELSE was.stored,
    index  <- IF Free THEN Named ELSE was.index

Implements ==
    /\ Storage!StorageInit
    /\ [][\/ kind = "add" /\ Storage!StorageAdd(arg)
          \/ kind = "remove" /\ Storage!StorageRemove(arg)
          \/ kind = "tick" /\ Storage!StorageTick({t \in Task : t.next <= now})
         ]_(Storage!storageVars)
=============================================================================
