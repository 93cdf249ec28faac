----------------------------- MODULE TaskStorage -----------------------------
(***************************************************************************)
(* What the default storage of a scheduler promises: the operations of the *)
(* interface TaskStorage (task_storage.go) as the binary heap of           *)
(* task_queue.go performs them, each one atomic because TaskQueue takes    *)
(* its own mutex.  The order inside the heap is abstracted away; the map   *)
(* taskIdx from an ID to a heap slot is kept, as the task in that slot,    *)
(* because TaskExist and RemoveTask answer from the map and not from the   *)
(* tasks.  AddTask does not look for a task of the same ID, so two tasks   *)
(* may share one; the map then names either of them, and popping or        *)
(* removing one of the two deletes the entry of both.                      *)
(***************************************************************************)
EXTENDS FiniteSets

CONSTANTS ID,    \* the task IDs
          Task,  \* the task objects, records with a field id
          Null   \* no task: an absent map entry, a nil pointer

ASSUME TaskAssumption == /\ \A t \in Task : t.id \in ID
                         /\ Null \notin Task

VARIABLES stored,  \* the tasks of the heap slice
          index    \* taskIdx, composed with the slice: ID -> task or Null

storageVars == <<stored, index>>

\* The tasks of S that carry the ID i.
Of(S, i) == {t \in S : t.id = i}

StorageTypeOK == /\ stored \subseteq Task
                 /\ index \in [ID -> Task \cup {Null}]

StorageInit == /\ stored = {}
               /\ index = [i \in ID |-> Null]

(***************************************************************************)
(* The maps the heap may be left with when it holds the tasks of S and the *)
(* entries of the IDs in Gone were deleted last.  Swaps write the entries  *)
(* of the tasks they move: an entry that exists keeps naming a task of its *)
(* ID, and the entry of a twin that was orphaned may come back.            *)
(***************************************************************************)
Reindexed(S, Gone) ==
    {f \in [ID -> S \cup {Null}] :
        \A i \in ID : /\ f[i] # Null => f[i].id = i
                      /\ f[i] = Null => \/ index[i] = Null
                                        \/ i \in Gone}

\* TaskExist asks the map.
TaskExist(i) == index[i] # Null

\* AddTask pushes without looking: the entry of t.id names t or its twin.
StorageAdd(t) ==
    /\ stored' = stored \cup {t}
    /\ index' \in Reindexed(stored', {})
    /\ index'[t.id] # Null

\* Mutant of StorageRemove: only the entry of the map is deleted.
StorageForget(i) == /\ index' = [index EXCEPT ![i] = Null]
                    /\ UNCHANGED stored

\* RemoveTask takes out the task the map names, which need not be the
\* argument; without an entry it does nothing.
StorageRemove(i) ==
    IF index[i] = Null
    THEN UNCHANGED storageVars
    ELSE /\ stored' = stored \ {index[i]}
         /\ index' \in Reindexed(stored', {i})
         /\ index'[i] = Null

\* Tick pops every task of D, the tasks whose time has come.
StorageTick(D) ==
    /\ stored' = stored \ D
    /\ index' \in Reindexed(stored', {t.id : t \in stored \cap D})
=============================================================================
