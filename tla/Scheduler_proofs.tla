--------------------------- MODULE Scheduler_proofs ---------------------------
(***************************************************************************)
(* Proofs about Scheduler, for any sets of IDs, task objects, run loops    *)
(* and clients, and whatever AddTask accepts.                              *)
(***************************************************************************)
EXTENDS Scheduler, FiniteSetTheorems, TLAPS

-----------------------------------------------------------------------------
(***************************************************************************)
(* The inductive invariant of the first theorems.  wg has to be tied to    *)
(* the goroutines it counts, because Stop learns that they are gone from   *)
(* wg alone; and a batch may only outlive a step in a live loop.           *)
(***************************************************************************)
LoopInv == /\ SingleRunLoop
           /\ \A l \in Loop \ loops : batch[l] = {}

OwnInv == /\ SingleOwner
          /\ \A t \in Task : pc[t] = "none" => ~busy[t]

CountInv == wg = Cardinality(loops) + Cardinality(Going)

Inv1 == TypeOK /\ LoopInv /\ OwnInv /\ CountInv /\ StopQuiesces

\* A map the heap may be left with is a map of tasks of the heap.
LEMMA ReindexedType ==
    ASSUME NEW S, S \subseteq Task, NEW Gone, NEW f \in Reindexed(S, Gone)
    PROVE  f \in [ID -> Task \cup {Null}]
  BY DEF Reindexed

\* The sets wg counts are finite.
LEMMA Finiteness ==
    ASSUME TypeOK
    PROVE  /\ IsFiniteSet(loops) /\ IsFiniteSet(Going)
           /\ Cardinality(loops) \in Nat /\ Cardinality(Going) \in Nat
  <1>1. loops \in SUBSET Loop /\ Going \in SUBSET Task
    BY DEF TypeOK, Going
  <1>2. IsFiniteSet(loops) /\ IsFiniteSet(Going)
    BY <1>1, FS_Subset, SchedulerAssumption
  <1> QED
    BY <1>2, FS_CardinalityType

-----------------------------------------------------------------------------
\* Every step keeps the types; a goroutine that calls wg.Done was counted.
LEMMA TypeStep == Inv1 /\ [Next]_vars => TypeOK'
  <1> SUFFICES ASSUME Inv1, [Next]_vars PROVE TypeOK'
    OBVIOUS
  <1> USE DEF TypeOK, StorageTypeOK, loopVars, callVars, taskVars
  <1>0. TypeOK
    BY DEF Inv1
  <1>1. CASE Start
    <2>1. loops' \subseteq Loop /\ wg' \in Nat
      BY <1>0, <1>1 DEF Start
    <2> QED
      BY <1>0, <1>1, <2>1 DEF Start
  <1>2. CASE StopBegin
    BY <1>0, <1>2 DEF StopBegin
  <1>3. CASE StopEnd
    BY <1>0, <1>3 DEF StopEnd
  <1>4. ASSUME NEW l \in Loop, LoopExit(l) PROVE TypeOK'
    <2>1. Cardinality(loops) # 0
      BY <1>0, <1>4, Finiteness, FS_EmptySet DEF LoopExit
    <2>2. wg - 1 \in Nat
      BY <1>0, <2>1, Finiteness DEF Inv1, CountInv
    <2> QED
      BY <1>0, <1>4, <2>2 DEF LoopExit
  <1>5. ASSUME NEW l \in Loop, LoopTick(l) PROVE TypeOK'
    <2>1. stored' \subseteq Task /\ due \in SUBSET Task
      BY <1>0, <1>5 DEF LoopTick, StorageTick
    <2>2. index' \in [ID -> Task \cup {Null}]
      BY <1>5, <2>1, ReindexedType DEF LoopTick, StorageTick
    <2> QED
      BY <1>0, <1>5, <2>1, <2>2 DEF LoopTick
  <1>6. ASSUME NEW l \in Loop, NEW t \in Task, Spawn(l, t) PROVE TypeOK'
    BY <1>0, <1>6 DEF Spawn, GoState
  <1>7. ASSUME NEW t \in Task, TimePasses(t) PROVE TypeOK'
    BY <1>0, <1>7 DEF TimePasses
  <1>8. ASSUME NEW t \in Task, GoStart(t) PROVE TypeOK'
    BY <1>0, <1>8 DEF GoStart, GoState
  <1>9. ASSUME NEW t \in Task, JobReturns(t) PROVE TypeOK'
    BY <1>0, <1>9 DEF JobReturns, GoState
  <1>10. ASSUME NEW t \in Task, JobPanics(t) PROVE TypeOK'
    BY <1>0, <1>10 DEF JobPanics, GoState
  <1>11. ASSUME NEW t \in Task, GoLock(t) PROVE TypeOK'
    BY <1>0, <1>11 DEF GoLock, GoState
  <1>12. ASSUME NEW t \in Task, GoReschedule(t) PROVE TypeOK'
    <2>1. PICK u \in Fresh(t.id) : StorageAdd(u) /\ Allocate(u)
      BY <1>12 DEF GoReschedule
    <2>2. u \in Task /\ stored' = stored \cup {u} /\ stored' \subseteq Task
      BY <1>0, <2>1 DEF Fresh, StorageAdd
    <2>3. index' \in [ID -> Task \cup {Null}]
      BY <2>1, <2>2, ReindexedType DEF StorageAdd
    <2> QED
      BY <1>0, <1>12, <2>1, <2>2, <2>3 DEF GoReschedule, Allocate, GoState
  <1>13. ASSUME NEW t \in Task, GoExit(t) PROVE TypeOK'
    <2>1. Cardinality(Going) # 0
      BY <1>0, <1>13, Finiteness, FS_EmptySet DEF GoExit, Going
    <2>2. wg - 1 \in Nat
      BY <1>0, <2>1, Finiteness DEF Inv1, CountInv
    <2> QED
      BY <1>0, <1>13, <2>2 DEF GoExit, GoState
  <1>14. ASSUME NEW c \in Client, GetTasks(c) PROVE TypeOK'
    <2>1. PICK t \in stored : cl' = [cl EXCEPT ![c] = Idle(t.id, t)]
      BY <1>14 DEF GetTasks
    <2>2. Idle(t.id, t) \in Call
      BY <1>0, <2>1, TaskAssumption DEF Idle, Call
    <2> QED
      BY <1>0, <1>14, <2>1, <2>2 DEF GetTasks
  <1>15. ASSUME NEW c \in Client, NEW i \in ID, NEW t \in Task \cup {Null},
                RemoveBegin(c, i, t)
         PROVE  TypeOK'
    BY <1>0, <1>15 DEF RemoveBegin, Call
  <1>16. ASSUME NEW c \in Client, RemoveCheck(c) PROVE TypeOK'
    <2>1. cl[c] \in Call /\ Idle(cl[c].id, Null) \in Call
      BY <1>0 DEF Idle, Call
    <2>2. [cl[c] EXCEPT !.at = "removing"] \in Call
      BY <2>1 DEF Call
    <2>3. cl' \in [Client -> Call] /\ taskMu' \in BOOLEAN
      BY <1>0, <1>16, <2>1, <2>2 DEF RemoveCheck
    <2> QED
      BY <1>0, <1>16, <2>3 DEF RemoveCheck
  <1>17. ASSUME NEW c \in Client, RemoveDo(c) PROVE TypeOK'
    <2>1. stored' \subseteq Task
      BY <1>0, <1>17 DEF RemoveDo, StorageRemove, storageVars
    <2>2. index' \in [ID -> Task \cup {Null}]
      BY <1>0, <1>17, <2>1, ReindexedType
      DEF RemoveDo, StorageRemove, storageVars
    <2>3. cl' \in [Client -> Call]
      BY <1>0, <1>17 DEF RemoveDo, Idle, Call
    <2> QED
      BY <1>0, <1>17, <2>1, <2>2, <2>3 DEF RemoveDo
  <1>18. ASSUME NEW c \in Client, NEW i \in ID, AddCheck(c, i) PROVE TypeOK'
    BY <1>0, <1>18 DEF AddCheck, Call
  <1>19. ASSUME NEW c \in Client, AddDo(c) PROVE TypeOK'
    <2>1. PICK u \in Fresh(cl[c].id) : StorageAdd(u) /\ Allocate(u)
      BY <1>19 DEF AddDo
    <2>2. u \in Task /\ stored' = stored \cup {u} /\ stored' \subseteq Task
      BY <1>0, <2>1 DEF Fresh, StorageAdd
    <2>3. index' \in [ID -> Task \cup {Null}]
      BY <2>1, <2>2, ReindexedType DEF StorageAdd
    <2>4. cl[c].id \in ID /\ cl' \in [Client -> Call]
      BY <1>0, <1>19 DEF AddDo, Idle, Call
    <2> QED
      BY <1>0, <1>19, <2>1, <2>2, <2>3, <2>4 DEF AddDo, Allocate
  <1>20. CASE UNCHANGED vars
    BY <1>0, <1>20 DEF vars
  <1> QED
    BY <1>1, <1>2, <1>3, <1>4, <1>5, <1>6, <1>7, <1>8, <1>9, <1>10, <1>11,
       <1>12, <1>13, <1>14, <1>15, <1>16, <1>17, <1>18, <1>19, <1>20
    DEF Next, LoopStep, GoStep, ClientStep

-----------------------------------------------------------------------------
\* Start finds no loop left by the Stop before it; only live loops take or
\* hand out batches, and a loop leaves with an empty one.
LEMMA LoopInvStep == Inv1 /\ [Next]_vars => LoopInv'
  <1> SUFFICES ASSUME Inv1, [Next]_vars PROVE LoopInv'
    OBVIOUS
  <1> USE DEF Inv1, TypeOK, LoopInv, SingleRunLoop, loopVars, callVars, taskVars
  <1>1. CASE Start
    BY <1>1 DEF Start, StopQuiesces
  <1>2. CASE UNCHANGED <<loops, batch>>
    BY <1>2
  <1>3. ASSUME NEW l \in Loop, LoopExit(l) PROVE LoopInv'
    BY <1>3 DEF LoopExit
  <1>4. ASSUME NEW l \in Loop, LoopTick(l) PROVE LoopInv'
    BY <1>4 DEF LoopTick
  <1>5. ASSUME NEW l \in Loop, NEW t \in Task, Spawn(l, t) PROVE LoopInv'
    BY <1>5 DEF Spawn
  <1>6. ASSUME NEW t \in Task, TimePasses(t) \/ GoStep(t)
        PROVE  UNCHANGED <<loops, batch>>
    BY <1>6 DEF TimePasses, GoStep, GoStart, JobReturns, JobPanics, GoLock,
                GoReschedule, GoExit
  <1>7. ASSUME NEW c \in Client, ClientStep(c) PROVE UNCHANGED <<loops, batch>>
    BY <1>7 DEF ClientStep, GetTasks, RemoveBegin, RemoveCheck, RemoveDo,
                AddCheck, AddDo
  <1>8. CASE StopBegin \/ StopEnd \/ UNCHANGED vars
    BY <1>2, <1>8 DEF StopBegin, StopEnd, vars
  <1> QED
    BY <1>1, <1>2, <1>3, <1>4, <1>5, <1>6, <1>7, <1>8 DEF Next, LoopStep

-----------------------------------------------------------------------------
\* An object that is put into the storage is new: nothing holds it.
LEMMA FreshIsFree ==
    ASSUME NEW i, NEW u \in Fresh(i)
    PROVE  u \in Task /\ u \notin stored /\ u \notin InBatch /\ pc[u] = "none"
  BY DEF Fresh, Reachable, Going

\* A task moves from the storage into a batch, from there to a goroutine, and
\* what comes back to the storage is another object.
LEMMA OwnInvStep == Inv1 /\ [Next]_vars => OwnInv'
  <1> SUFFICES ASSUME Inv1, [Next]_vars PROVE OwnInv'
    OBVIOUS
  <1> USE DEF Inv1, TypeOK, OwnInv, SingleOwner, InBatch,
              loopVars, callVars, taskVars
  <1>0. \A l \in Loop \ loops : batch[l] = {}
    BY DEF LoopInv
  <1>1. CASE Start
    BY <1>0, <1>1 DEF Start
  <1>2. CASE UNCHANGED <<stored, loops, batch, pc, busy>>
    BY <1>2
  <1>3. ASSUME NEW l \in Loop, LoopExit(l) PROVE OwnInv'
    BY <1>3 DEF LoopExit
  <1>4. ASSUME NEW l \in Loop, LoopTick(l) PROVE OwnInv'
    <2>1. /\ stored' = stored \ due /\ due \subseteq stored
          /\ batch' = [batch EXCEPT ![l] = due]
          /\ UNCHANGED <<loops, pc, busy>>
      BY <1>4 DEF LoopTick, StorageTick
    <2> QED
      BY <2>1
  <1>5. ASSUME NEW l \in Loop, NEW t \in Task, Spawn(l, t) PROVE OwnInv'
    <2>1. /\ l \in loops /\ t \in batch[l] /\ pc[t] = "none" /\ ~busy[t]
          /\ batch' = [batch EXCEPT ![l] = @ \ {t}]
          /\ pc' = [pc EXCEPT ![t] = "start"]
          /\ UNCHANGED <<stored, loops, busy>>
      BY <1>5 DEF Spawn
    <2>2. \A m \in Loop : t \notin batch'[m]
      BY <1>0, <2>1 DEF LoopInv, SingleRunLoop
    <2> QED
      BY <2>1, <2>2
  <1>6. ASSUME NEW t \in Task, GoStep(t) PROVE OwnInv'
    <2>1. CASE GoStart(t)
      BY <2>1, <1>0 DEF GoStart
    <2>2. CASE JobReturns(t) \/ JobPanics(t) \/ GoLock(t)
      <3>1. /\ pc[t] \in {"job", "lock"} /\ UNCHANGED <<stored, loops, batch, busy>>
            /\ \E x \in {"lock", "adding", "exit"} : pc' = [pc EXCEPT ![t] = x]
        BY <2>2 DEF JobReturns, JobPanics, GoLock
      <3> QED
        BY <3>1, <1>0
    <2>3. CASE GoReschedule(t)
      <3>1. PICK u \in Fresh(t.id) : StorageAdd(u) /\ Allocate(u)
        BY <2>3 DEF GoReschedule
      <3>2. /\ stored' = stored \cup {u}
            /\ u \in Task /\ u \notin InBatch /\ pc[u] = "none"
            /\ busy' = [busy EXCEPT ![u] = FALSE]
        BY <3>1, FreshIsFree DEF StorageAdd, Allocate
      <3>3. /\ pc[t] = "adding" /\ pc' = [pc EXCEPT ![t] = "exit"]
            /\ UNCHANGED <<loops, batch>>
        BY <2>3 DEF GoReschedule
      <3> QED
        BY <3>2, <3>3, <1>0
    <2>4. CASE GoExit(t)
      BY <2>4, <1>0 DEF GoExit
    <2> QED
      BY <1>6, <2>1, <2>2, <2>3, <2>4 DEF GoStep
  <1>7. ASSUME NEW c \in Client, ClientStep(c) PROVE OwnInv'
    <2>1. CASE GetTasks(c) \/ RemoveCheck(c) \/ \E i \in ID : AddCheck(c, i)
      BY <2>1, <1>2 DEF GetTasks, RemoveCheck, AddCheck
    <2>2. CASE \E i \in ID, t \in Task \cup {Null} : RemoveBegin(c, i, t)
      BY <2>2, <1>2 DEF RemoveBegin
    <2>3. CASE RemoveDo(c)
      <3>1. stored' \subseteq stored /\ UNCHANGED <<loops, batch, pc, busy>>
        BY <2>3 DEF RemoveDo, StorageRemove, storageVars
      <3> QED
        BY <3>1
    <2>4. CASE AddDo(c)
      <3>1. PICK u \in Fresh(cl[c].id) : StorageAdd(u) /\ Allocate(u)
        BY <2>4 DEF AddDo
      <3>2. /\ stored' = stored \cup {u}
            /\ u \in Task /\ u \notin InBatch /\ pc[u] = "none"
            /\ busy' = [busy EXCEPT ![u] = FALSE]
        BY <3>1, FreshIsFree DEF StorageAdd, Allocate
      <3>3. UNCHANGED <<pc, loops, batch>>
        BY <2>4 DEF AddDo
      <3> QED
        BY <3>2, <3>3
    <2> QED
      BY <1>7, <2>1, <2>2, <2>3, <2>4 DEF ClientStep
  <1>8. CASE \/ StopBegin \/ StopEnd \/ UNCHANGED vars
             \/ \E t \in Task : TimePasses(t)
    BY <1>2, <1>8 DEF StopBegin, StopEnd, TimePasses, vars
  <1> QED
    BY <1>1, <1>3, <1>4, <1>5, <1>6, <1>7, <1>8 DEF Next, LoopStep

-----------------------------------------------------------------------------
\* A goroutine that moves on without calling wg.Done is still one of wg.
LEMMA GoingSame ==
    ASSUME TypeOK, NEW t \in Task, pc[t] # "none",
           NEW x, x # "none", pc' = [pc EXCEPT ![t] = x]
    PROVE  Going' = Going
  BY DEF Going, TypeOK

\* wg counts the run loops and the task goroutines.
LEMMA CountInvStep == Inv1 /\ [Next]_vars => CountInv'
  <1> SUFFICES ASSUME Inv1, [Next]_vars PROVE CountInv'
    OBVIOUS
  <1> USE DEF loopVars, callVars, taskVars
  <1>0. /\ TypeOK /\ wg = Cardinality(loops) + Cardinality(Going)
        /\ IsFiniteSet(loops) /\ IsFiniteSet(Going)
        /\ Cardinality(loops) \in Nat /\ Cardinality(Going) \in Nat
    BY Finiteness DEF Inv1, CountInv
  <1>1. CASE Start
    <2>1. PICK l \in Loop \ loops : loops' = loops \cup {l}
      BY <1>1 DEF Start
    <2>2. Cardinality(loops') = Cardinality(loops) + 1
      BY <1>0, <2>1, FS_AddElement
    <2>3. wg' = wg + 1 /\ Going' = Going
      BY <1>1 DEF Start, Going
    <2> QED
      BY <1>0, <2>2, <2>3 DEF CountInv
  <1>2. CASE UNCHANGED wg /\ UNCHANGED loops /\ Going' = Going
    BY <1>0, <1>2 DEF CountInv
  <1>3. ASSUME NEW l \in Loop, LoopExit(l) PROVE CountInv'
    <2>1. l \in loops /\ loops' = loops \ {l} /\ wg' = wg - 1 /\ Going' = Going
      BY <1>3 DEF LoopExit, Going
    <2>2. Cardinality(loops') = Cardinality(loops) - 1
      BY <1>0, <2>1, FS_RemoveElement
    <2> QED
      BY <1>0, <2>1, <2>2 DEF CountInv
  <1>4. ASSUME NEW l \in Loop, NEW t \in Task, Spawn(l, t) PROVE CountInv'
    <2>1. pc[t] = "none" /\ t \in batch[l]
      BY <1>4 DEF Spawn, Inv1, OwnInv, SingleOwner
    <2>2. t \notin Going /\ Going' = Going \cup {t}
      BY <1>0, <1>4, <2>1 DEF Spawn, Going, TypeOK
    <2>3. Cardinality(Going') = Cardinality(Going) + 1
      BY <1>0, <2>2, FS_AddElement
    <2>4. wg' = wg + 1 /\ loops' = loops
      BY <1>4 DEF Spawn
    <2> QED
      BY <1>0, <2>3, <2>4 DEF CountInv
  <1>5. ASSUME NEW t \in Task, GoExit(t) PROVE CountInv'
    <2>1. t \in Going /\ Going' = Going \ {t}
      BY <1>0, <1>5 DEF GoExit, Going, TypeOK
    <2>2. Cardinality(Going') = Cardinality(Going) - 1
      BY <1>0, <2>1, FS_RemoveElement
    <2>3. wg' = wg - 1 /\ loops' = loops
      BY <1>5 DEF GoExit
    <2> QED
      BY <1>0, <2>2, <2>3 DEF CountInv
  <1>6. ASSUME NEW t \in Task,
               \/ GoStart(t) \/ JobReturns(t) \/ JobPanics(t)
               \/ GoLock(t) \/ GoReschedule(t)
        PROVE  CountInv'
    <2>1. pc[t] # "none" /\ UNCHANGED <<wg, loops>>
      BY <1>6 DEF GoStart, JobReturns, JobPanics, GoLock, GoReschedule
    <2>2. \E x \in GoState \ {"none"} : pc' = [pc EXCEPT ![t] = x]
      BY <1>6 DEF GoStart, JobReturns, JobPanics, GoLock, GoReschedule, GoState
    <2>3. Going' = Going
      BY <1>0, <2>1, <2>2, GoingSame
    <2> QED
      BY <1>2, <2>1, <2>3
  <1>7. ASSUME NEW c \in Client, ClientStep(c) PROVE UNCHANGED <<wg, loops, pc>>
    BY <1>7 DEF ClientStep, GetTasks, RemoveBegin, RemoveCheck, RemoveDo,
                AddCheck, AddDo
  <1>8. CASE UNCHANGED <<wg, loops, pc>>
    BY <1>2, <1>8 DEF Going
  <1>9. CASE \/ StopBegin \/ StopEnd \/ UNCHANGED vars
             \/ \E t \in Task : TimePasses(t)
             \/ \E l \in Loop : LoopTick(l)
    BY <1>8, <1>9 DEF StopBegin, StopEnd, TimePasses, LoopTick, vars
  <1> QED
    BY <1>1, <1>3, <1>4, <1>5, <1>6, <1>7, <1>8, <1>9
    DEF Next, LoopStep, GoStep

-----------------------------------------------------------------------------
\* Stop returns when wg is zero, and until the next Start there is nobody
\* left to start a goroutine.
LEMMA QuiesceStep == Inv1 /\ [Next]_vars => StopQuiesces'
  <1> SUFFICES ASSUME Inv1, [Next]_vars PROVE StopQuiesces'
    OBVIOUS
  <1> USE DEF StopQuiesces, loopVars, callVars, taskVars
  <1>0. TypeOK /\ StopQuiesces
    BY DEF Inv1
  <1>1. CASE Start \/ StopBegin
    BY <1>1 DEF Start, StopBegin
  <1>2. CASE StopEnd
    <2>1. Cardinality(loops) = 0 /\ Cardinality(Going) = 0
      BY <1>0, <1>2, Finiteness DEF StopEnd, Inv1, CountInv
    <2>2. loops = {} /\ Going = {}
      BY <1>0, <2>1, Finiteness, FS_EmptySet
    <2> QED
      BY <1>2, <2>2 DEF StopEnd, Going
  <1>3. CASE UNCHANGED <<running, mu, loops, pc>>
    BY <1>0, <1>3 DEF Going
  <1>4. ASSUME NEW l \in Loop, LoopStep(l) PROVE StopQuiesces'
    BY <1>0, <1>4 DEF LoopStep, LoopExit, LoopTick, Spawn
  <1>5. ASSUME NEW t \in Task, GoStep(t) PROVE StopQuiesces'
    <2>1. t \in Going /\ UNCHANGED <<running, mu>>
      BY <1>5 DEF GoStep, GoStart, JobReturns, JobPanics, GoLock,
                  GoReschedule, GoExit, Going
    <2> QED
      BY <1>0, <2>1
  <1>6. ASSUME NEW c \in Client, ClientStep(c)
        PROVE  UNCHANGED <<running, mu, loops, pc>>
    BY <1>6 DEF ClientStep, GetTasks, RemoveBegin, RemoveCheck, RemoveDo,
                AddCheck, AddDo
  <1>7. CASE UNCHANGED vars \/ \E t \in Task : TimePasses(t)
    BY <1>3, <1>7 DEF TimePasses, vars
  <1> QED
    BY <1>1, <1>2, <1>3, <1>4, <1>5, <1>6, <1>7 DEF Next

-----------------------------------------------------------------------------
LEMMA Inv1Init == Init => Inv1
  <1> SUFFICES ASSUME Init PROVE Inv1
    OBVIOUS
  <1>1. loops = {} /\ Going = {} /\ wg = 0
    BY DEF Init, Going
  <1>2. CountInv
    BY <1>1, FS_EmptySet DEF CountInv
  <1>3. StorageTypeOK /\ stored = {}
    BY DEF Init, StorageInit, StorageTypeOK
  <1>4. cl \in [Client -> Call]
    BY DEF Init, Call
  <1>5. TypeOK
    BY <1>3, <1>4 DEF Init, TypeOK, GoState
  <1>6. LoopInv /\ StopQuiesces
    BY <1>1 DEF Init, LoopInv, SingleRunLoop, StopQuiesces
  <1>7. OwnInv
    BY <1>3 DEF Init, OwnInv, SingleOwner
  <1> QED
    BY <1>2, <1>5, <1>6, <1>7 DEF Inv1

LEMMA Inv1Step == Inv1 /\ [Next]_vars => Inv1'
  BY TypeStep, LoopInvStep, OwnInvStep, CountInvStep, QuiesceStep DEF Inv1

THEOREM Invariant1 == Spec => []Inv1
  BY Inv1Init, Inv1Step, PTL DEF Spec

\* Every variable keeps its type; in particular wg never goes below zero,
\* which sync.WaitGroup answers with a panic.
THEOREM TypeCorrect == Spec => []TypeOK
  <1>1. Inv1 => TypeOK
    BY DEF Inv1
  <1> QED
    BY <1>1, Invariant1, PTL

\* When Stop has returned nothing it should have waited for is left.
THEOREM StopIsComplete == Spec => []StopQuiesces
  <1>1. Inv1 => StopQuiesces
    BY DEF Inv1
  <1> QED
    BY <1>1, Invariant1, PTL

\* Never two goroutines in run(), in any sequence of Start and Stop.
THEOREM OneRunLoop == Spec => []SingleRunLoop
  <1>1. Inv1 => SingleRunLoop
    BY DEF Inv1, LoopInv
  <1> QED
    BY <1>1, Invariant1, PTL

\* A task object is in one place only, so the CompareAndSwap never fails.
THEOREM OneOwner == Spec => []SingleOwner
  <1>1. Inv1 => SingleOwner
    BY DEF Inv1, OwnInv
  <1> QED
    BY <1>1, Invariant1, PTL

-----------------------------------------------------------------------------
(***************************************************************************)
(* The second layer: who holds taskMu, what the map names, and how many    *)
(* active tasks an ID has.  A client between its TaskExist and its AddTask *)
(* relies on nobody adding the ID meanwhile, which only taskMu ensures.    *)
(***************************************************************************)
Critical(c) == cl[c].at \in {"removing", "adding"}

MutexInv ==
    /\ \A t \in Task : pc[t] = "adding" => taskMu
    /\ \A c \in Client : Critical(c) => taskMu
    /\ \A t, u \in Task : pc[t] = "adding" /\ pc[u] = "adding" => t = u
    /\ \A c, d \in Client : Critical(c) /\ Critical(d) => c = d
    /\ \A t \in Task, c \in Client : ~(pc[t] = "adding" /\ Critical(c))

IndexInv == \A i \in ID : index[i] # Null => index[i] \in Of(stored, i)

ClaimInv == \A c \in Client :
    cl[c].at = "adding" => Of(stored, cl[c].id) = {} \/ cl[c].id \in twinned

Inv2 == Inv1 /\ MutexInv /\ IndexInv /\ ClaimInv /\ OneTaskPerID

\* taskMu is held by one goroutine or client at a time.
LEMMA MutexInvStep == Inv2 /\ [Next]_vars => MutexInv'
  <1> SUFFICES ASSUME Inv2, [Next]_vars PROVE MutexInv'
    OBVIOUS
  <1> USE DEF MutexInv, Critical, loopVars, callVars, taskVars
  <1>0. TypeOK /\ MutexInv
    BY DEF Inv2, Inv1
  <1>a. pc \in [Task -> GoState] /\ cl \in [Client -> Call]
    BY <1>0 DEF TypeOK
  <1>1. CASE UNCHANGED <<pc, cl, taskMu>>
    BY <1>0, <1>1
  <1>2. CASE Start \/ StopBegin \/ StopEnd \/ UNCHANGED vars
    BY <1>1, <1>2 DEF Start, StopBegin, StopEnd, vars
  <1>3. ASSUME NEW l \in Loop, LoopStep(l) PROVE MutexInv'
    <2>1. CASE LoopExit(l) \/ LoopTick(l)
      BY <1>1, <2>1 DEF LoopExit, LoopTick
    <2>2. ASSUME NEW t \in Task, Spawn(l, t) PROVE MutexInv'
      BY <1>0, <1>a, <2>2 DEF Spawn
    <2> QED
      BY <1>3, <2>1, <2>2 DEF LoopStep
  <1>4. ASSUME NEW t \in Task, TimePasses(t) PROVE MutexInv'
    BY <1>1, <1>4 DEF TimePasses
  <1>5. ASSUME NEW t \in Task, GoStep(t) PROVE MutexInv'
    <2>1. CASE GoStart(t) \/ JobReturns(t) \/ JobPanics(t) \/ GoExit(t)
      <3>1. /\ \E x \in GoState \ {"adding"} : pc' = [pc EXCEPT ![t] = x]
            /\ UNCHANGED <<cl, taskMu>>
        BY <2>1 DEF GoStart, JobReturns, JobPanics, GoExit, GoState
      <3> QED
        BY <1>0, <1>a, <3>1
    <2>2. CASE GoLock(t)
      BY <1>0, <1>a, <2>2 DEF GoLock
    <2>3. CASE GoReschedule(t)
      BY <1>0, <1>a, <2>3 DEF GoReschedule
    <2> QED
      BY <1>5, <2>1, <2>2, <2>3 DEF GoStep
  <1>6. ASSUME NEW c \in Client, ClientStep(c) PROVE MutexInv'
    <2>1. CASE \/ GetTasks(c)
               \/ \E i \in ID, t \in Task \cup {Null} : RemoveBegin(c, i, t)
      <3>1. /\ \E x \in [at : {"idle", "lock"}, id : ID, ref : Task \cup {Null}] :
                  cl' = [cl EXCEPT ![c] = x]
            /\ UNCHANGED <<pc, taskMu>>
        BY <1>0, <2>1, TaskAssumption
        DEF GetTasks, RemoveBegin, Idle, TypeOK, StorageTypeOK
      <3> QED
        BY <1>0, <1>a, <3>1
    <2>2. CASE RemoveCheck(c)
      BY <1>0, <1>a, <2>2 DEF RemoveCheck, Idle, Call
    <2>3. CASE RemoveDo(c) \/ AddDo(c)
      <3>1. /\ Critical(c) /\ taskMu' = FALSE /\ UNCHANGED pc
            /\ cl' = [cl EXCEPT ![c] = Idle(cl[c].id, Null)]
        BY <2>3 DEF RemoveDo, AddDo
      <3> QED
        BY <1>0, <1>a, <3>1 DEF Idle
    <2>4. CASE \E i \in ID : AddCheck(c, i)
      BY <1>0, <1>a, <2>4 DEF AddCheck
    <2> QED
      BY <1>6, <2>1, <2>2, <2>3, <2>4 DEF ClientStep
  <1> QED
    BY <1>2, <1>3, <1>4, <1>5, <1>6 DEF Next

-----------------------------------------------------------------------------
\* What a map that the heap may be left with names.
LEMMA ReindexedFacts ==
    ASSUME NEW S, S \subseteq Task, NEW Gone, NEW f \in Reindexed(S, Gone),
           NEW i \in ID
    PROVE  /\ f[i] # Null => f[i] \in Of(S, i)
           /\ f[i] = Null /\ i \notin Gone => index[i] = Null
  BY DEF Reindexed, Of

\* An entry of the map names a stored task of its ID.
LEMMA IndexInvStep == Inv2 /\ [Next]_vars => IndexInv'
  <1> SUFFICES ASSUME Inv2, [Next]_vars PROVE IndexInv'
    OBVIOUS
  <1>0. TypeOK /\ IndexInv /\ TypeOK'
    BY TypeStep DEF Inv2, Inv1
  <1>a. stored' \subseteq Task
    BY <1>0 DEF TypeOK, StorageTypeOK
  <1>1. CASE UNCHANGED <<stored, index>>
    BY <1>0, <1>1 DEF IndexInv, Of
  <1>2. CASE \E Gone : index' \in Reindexed(stored', Gone)
    BY <1>a, <1>2, ReindexedFacts DEF IndexInv, Of
  <1>3. \/ UNCHANGED <<stored, index>>
        \/ \E Gone : index' \in Reindexed(stored', Gone)
    BY DEF Next, LoopStep, GoStep, ClientStep, vars, Start, StopBegin, StopEnd,
           LoopExit, LoopTick, Spawn, TimePasses, GoStart, JobReturns,
           JobPanics, GoLock, GoReschedule, GoExit, GetTasks, RemoveBegin,
           RemoveCheck, RemoveDo, AddCheck, AddDo, StorageAdd, StorageRemove,
           StorageTick, storageVars
  <1> QED
    BY <1>1, <1>2, <1>3

-----------------------------------------------------------------------------
(***************************************************************************)
(* Where an active task can come from.  Only AddTask and the rescheduling  *)
(* of an execution make a new object active; every other step moves the    *)
(* tasks on or drops them.                                                 *)
(***************************************************************************)
NewByAdd(i, u) == \E c \in Client : /\ AddDo(c) /\ cl[c].id = i
                                    /\ u \in Fresh(i) /\ StorageAdd(u) /\ Allocate(u)
NewByGo(i, u) == \E t \in Task : /\ GoReschedule(t) /\ t.id = i
                                 /\ u \in Fresh(i) /\ StorageAdd(u) /\ Allocate(u)

LEMMA ActiveComesFrom ==
    ASSUME Inv2, [Next]_vars, NEW i \in ID, NEW x \in Active(i)'
    PROVE  x \in Active(i) \/ NewByAdd(i, x) \/ NewByGo(i, x)
  <1> USE DEF Active, InBatch, loopVars, callVars, taskVars
  <1>0. TypeOK /\ LoopInv
    BY DEF Inv2, Inv1
  <1>a. /\ pc \in [Task -> GoState] /\ cl \in [Client -> Call]
        /\ batch \in [Loop -> SUBSET Task] /\ due \subseteq stored
        /\ loops \subseteq Loop /\ stored \subseteq Task
    BY <1>0 DEF TypeOK, StorageTypeOK
  <1>b. x \in Task /\ x.id = i
    OBVIOUS
  <1>1. CASE UNCHANGED <<stored, loops, batch, pc>>
    BY <1>1
  <1>2. CASE Start
    BY <1>0, <1>a, <1>2 DEF Start, LoopInv
  <1>3. CASE StopBegin \/ StopEnd \/ UNCHANGED vars
    BY <1>1, <1>3 DEF StopBegin, StopEnd, vars
  <1>4. ASSUME NEW l \in Loop, LoopStep(l) PROVE x \in Active(i)
    <2>1. CASE LoopExit(l)
      BY <1>a, <2>1 DEF LoopExit
    <2>2. CASE LoopTick(l)
      <3>1. /\ stored' = stored \ due /\ batch' = [batch EXCEPT ![l] = due]
            /\ UNCHANGED <<loops, pc>>
        BY <2>2 DEF LoopTick, StorageTick
      <3> QED
        BY <1>a, <3>1
    <2>3. ASSUME NEW t \in Task, Spawn(l, t) PROVE x \in Active(i)
      <3>1. /\ l \in loops /\ t \in batch[l]
            /\ batch' = [batch EXCEPT ![l] = @ \ {t}]
            /\ pc' = [pc EXCEPT ![t] = "start"]
            /\ UNCHANGED <<stored, loops>>
        BY <2>3 DEF Spawn
      <3> QED
        BY <1>a, <3>1
    <2> QED
      BY <1>4, <2>1, <2>2, <2>3 DEF LoopStep
  <1>5. ASSUME NEW t \in Task, TimePasses(t) PROVE x \in Active(i)
    BY <1>1, <1>5 DEF TimePasses
  <1>6. ASSUME NEW t \in Task, GoStep(t)
        PROVE  x \in Active(i) \/ NewByGo(i, x)
    <2>1. CASE GoReschedule(t)
      <3>1. PICK u \in Fresh(t.id) : StorageAdd(u) /\ Allocate(u)
        BY <2>1 DEF GoReschedule
      <3>2. /\ stored' = stored \cup {u} /\ u.id = t.id /\ pc[t] = "adding"
            /\ pc' = [pc EXCEPT ![t] = "exit"] /\ UNCHANGED <<loops, batch>>
        BY <2>1, <3>1 DEF GoReschedule, StorageAdd, Fresh
      <3>3. CASE x = u
        BY <1>b, <2>1, <3>1, <3>2, <3>3 DEF NewByGo
      <3>4. CASE x # u
        BY <1>a, <3>2, <3>4
      <3> QED
        BY <3>3, <3>4
    <2>2. CASE ~GoReschedule(t)
      <3>1. /\ pc[t] \in {"start", "job", "lock", "exit"}
            /\ \E y \in GoState : pc' = [pc EXCEPT ![t] = y]
            /\ pc[t] = "exit" => pc'[t] = "none"
            /\ UNCHANGED <<stored, loops, batch>>
        BY <1>6, <1>a, <2>2
        DEF GoStep, GoStart, JobReturns, JobPanics, GoLock, GoExit, GoState
      <3> QED
        BY <1>a, <3>1
    <2> QED
      BY <2>1, <2>2
  <1>7. ASSUME NEW c \in Client, ClientStep(c)
        PROVE  x \in Active(i) \/ NewByAdd(i, x)
    <2>1. CASE AddDo(c)
      <3>1. PICK u \in Fresh(cl[c].id) : StorageAdd(u) /\ Allocate(u)
        BY <2>1 DEF AddDo
      <3>2. /\ stored' = stored \cup {u} /\ u.id = cl[c].id
            /\ UNCHANGED <<pc, loops, batch>>
        BY <2>1, <3>1 DEF AddDo, StorageAdd, Fresh
      <3>3. CASE x = u
        BY <1>b, <2>1, <3>1, <3>2, <3>3 DEF NewByAdd
      <3>4. CASE x # u
        BY <3>2, <3>4
      <3> QED
        BY <3>3, <3>4
    <2>2. CASE ~AddDo(c)
      <3>1. stored' \subseteq stored /\ UNCHANGED <<pc, loops, batch>>
        BY <1>7, <2>2 DEF ClientStep, GetTasks, RemoveBegin, RemoveCheck,
                          RemoveDo, AddCheck, StorageRemove, storageVars
      <3> QED
        BY <3>1
    <2> QED
      BY <2>1, <2>2
  <1> QED
    BY <1>2, <1>3, <1>4, <1>5, <1>6, <1>7 DEF Next

-----------------------------------------------------------------------------
\* The storage grows by one new object, or it only loses tasks.
LEMMA StorageStep ==
    ASSUME Inv2, [Next]_vars
    PROVE  \/ UNCHANGED storageVars
           \/ \E l \in Loop : LoopTick(l)
           \/ \E t \in Task : GoReschedule(t)
           \/ \E c \in Client : RemoveDo(c) \/ AddDo(c)
  BY DEF Next, LoopStep, GoStep, ClientStep, vars, storageVars, Start, StopBegin,
         StopEnd, LoopExit, Spawn, TimePasses, GoStart, JobReturns, JobPanics,
         GoLock, GoExit, GetTasks, RemoveBegin, RemoveCheck, AddCheck

\* A stored task is an active one.
LEMMA StoredIsActive == \A i : Of(stored, i) \cap Task \subseteq Active(i)
  BY DEF Of, Active

\* Nobody adds the ID a client has found absent until the client adds it.
LEMMA ClaimInvStep == Inv2 /\ [Next]_vars => ClaimInv'
  <1> SUFFICES ASSUME Inv2, [Next]_vars,
                      NEW c \in Client, cl'[c].at = "adding"
               PROVE  Of(stored', cl'[c].id) = {} \/ cl'[c].id \in twinned'
    BY DEF ClaimInv
  <1> USE DEF loopVars, callVars, taskVars
  <1>0. TypeOK /\ MutexInv /\ ClaimInv /\ OneTaskPerID
    BY DEF Inv2, Inv1
  <1>a. cl \in [Client -> Call]
    BY <1>0 DEF TypeOK
  <1>1. CASE \E i \in ID : AddCheck(c, i)
    <2>1. PICK i \in ID : AddCheck(c, i)
      BY <1>1
    <2>2. ~TaskExist(i) /\ cl'[c].id = i /\ UNCHANGED <<stored, twinned>>
      BY <1>a, <2>1 DEF AddCheck
    <2> QED
      BY <1>0, <2>2 DEF OneTaskPerID
  <1>2. CASE ~\E i \in ID : AddCheck(c, i)
    <2>1. cl'[c] = cl[c]
      <3>1. CASE UNCHANGED cl
        BY <3>1
      <3>2. ASSUME NEW d \in Client, ClientStep(d), d # c PROVE cl'[c] = cl[c]
        BY <1>a, <3>2 DEF ClientStep, GetTasks, RemoveBegin, RemoveCheck,
                          RemoveDo, AddCheck, AddDo
      <3>3. ASSUME ClientStep(c) PROVE FALSE
        <4>1. CASE GetTasks(c) \/ RemoveDo(c) \/ AddDo(c)
          BY <1>a, <4>1 DEF GetTasks, RemoveDo, AddDo, Idle
        <4>2. CASE \E i \in ID, t \in Task \cup {Null} : RemoveBegin(c, i, t)
          BY <1>a, <4>2 DEF RemoveBegin
        <4>3. CASE RemoveCheck(c)
          BY <1>a, <4>3 DEF RemoveCheck, Idle, Call
        <4> QED
          BY <1>2, <3>3, <4>1, <4>2, <4>3 DEF ClientStep
      <3>4. UNCHANGED cl \/ \E d \in Client : ClientStep(d)
        BY DEF Next, LoopStep, GoStep, vars, Start, StopBegin, StopEnd, LoopExit,
               LoopTick, Spawn, TimePasses, GoStart, JobReturns, JobPanics,
               GoLock, GoReschedule, GoExit
      <3> QED
        BY <3>1, <3>2, <3>3, <3>4
    <2>2. Of(stored, cl[c].id) = {} \/ cl[c].id \in twinned
      BY <1>0, <2>1 DEF ClaimInv
    <2>3. ~\E t \in Task : GoReschedule(t)
      BY <1>0, <2>1 DEF MutexInv, Critical, GoReschedule
    <2>4. ~\E d \in Client : AddDo(d)
      BY <1>0, <1>a, <2>1 DEF MutexInv, Critical, AddDo, Idle
    <2>5. stored' \subseteq stored /\ twinned \subseteq twinned'
      BY <2>3, <2>4, StorageStep
      DEF Next, LoopStep, GoStep, ClientStep, vars, Start, StopBegin, StopEnd,
          LoopExit, LoopTick, Spawn, TimePasses, GoStart, JobReturns, JobPanics,
          GoLock, GoExit, GetTasks, RemoveBegin, RemoveCheck,
          RemoveDo, AddCheck, StorageTick, StorageRemove, storageVars
    <2> QED
      BY <2>1, <2>2, <2>5 DEF Of
  <1> QED
    BY <1>1, <1>2

-----------------------------------------------------------------------------
\* The history only grows.
LEMMA TwinnedGrows == Inv2 /\ [Next]_vars => twinned \subseteq twinned'
  BY DEF Next, LoopStep, GoStep, ClientStep, vars, loopVars, callVars, taskVars,
         Start, StopBegin, StopEnd, LoopExit, LoopTick, Spawn, TimePasses, GoStart,
         JobReturns, JobPanics, GoLock, GoReschedule, GoExit, GetTasks,
         RemoveBegin, RemoveCheck, RemoveDo, AddCheck, AddDo

\* The first half of OneTaskPerID: the object that is rescheduled takes the
\* place of the one that was executed, and AddTask finds no other.
LEMMA SingleStep ==
    ASSUME Inv2, [Next]_vars, NEW i \in ID \ twinned',
           NEW x \in Active(i)', NEW y \in Active(i)'
    PROVE  x = y
  <1>0. /\ TypeOK /\ OneTaskPerID /\ ClaimInv /\ SingleOwner
        /\ i \notin twinned
    BY TwinnedGrows DEF Inv2, Inv1, OwnInv
  <1>1. \A t, u \in Active(i) : t = u
    BY <1>0 DEF OneTaskPerID
  <1>2. ASSUME NEW u, NewByAdd(i, u) PROVE Active(i) = {}
    <2>1. PICK c \in Client : AddDo(c) /\ cl[c].id = i
      BY <1>2 DEF NewByAdd
    <2>2. Of(stored, i) = {}
      BY <1>0, <2>1 DEF AddDo, ClaimInv
    <2> QED
      BY <2>1, <2>2 DEF AddDo
  <1>3. ASSUME NEW u, NewByGo(i, u), NEW t \in Active(i)
        PROVE  t \notin Active(i)'
    <2>1. PICK g \in Task : /\ GoReschedule(g) /\ g.id = i
                            /\ u \in Fresh(i) /\ StorageAdd(u)
      BY <1>3 DEF NewByGo
    <2>2. pc[g] = "adding" /\ g \in Active(i)
      BY <2>1 DEF GoReschedule, Active
    <2>3. t = g
      BY <1>1, <1>3, <2>2
    <2>4. g \notin stored /\ g \notin InBatch
      BY <1>0, <2>2 DEF SingleOwner, InBatch, TypeOK
    <2>5. u # g /\ stored' = stored \cup {u}
      BY <2>1, <2>2, FreshIsFree DEF StorageAdd
    <2>6. pc'[g] = "exit" /\ UNCHANGED <<loops, batch>>
      BY <1>0, <2>1 DEF GoReschedule, TypeOK, loopVars
    <2> QED
      BY <2>3, <2>4, <2>5, <2>6 DEF Active, InBatch
  <1>4. \A u : NewByAdd(i, u) \/ NewByGo(i, u)
              => u \notin stored /\ stored' = stored \cup {u}
    BY FreshIsFree DEF NewByAdd, NewByGo, StorageAdd
  <1>5. \A z \in {x, y} : z \in Active(i) \/ NewByAdd(i, z) \/ NewByGo(i, z)
    BY ActiveComesFrom
  <1>6. CASE x \in Active(i) /\ y \in Active(i)
    BY <1>1, <1>6
  <1>7. CASE /\ NewByAdd(i, x) \/ NewByGo(i, x)
             /\ NewByAdd(i, y) \/ NewByGo(i, y)
    BY <1>4, <1>7
  <1>8. CASE x \in Active(i) /\ (NewByAdd(i, y) \/ NewByGo(i, y))
    BY <1>2, <1>3, <1>8
  <1>9. CASE y \in Active(i) /\ (NewByAdd(i, x) \/ NewByGo(i, x))
    BY <1>2, <1>3, <1>9
  <1> QED
    BY <1>5, <1>6, <1>7, <1>8, <1>9

\* The second half: the map follows the tasks.
LEMMA ExistStep ==
    ASSUME Inv2, [Next]_vars, NEW i \in ID \ twinned', NEW y \in Of(stored', i)
    PROVE  index'[i] # Null
  <1>0. /\ TypeOK /\ OneTaskPerID /\ IndexInv /\ TypeOK' /\ i \notin twinned
    BY TwinnedGrows, TypeStep DEF Inv2, Inv1
  <1>a. stored \subseteq Task /\ stored' \subseteq Task /\ due \subseteq stored
    BY <1>0 DEF TypeOK, StorageTypeOK
  <1>1. /\ Of(stored, i) # {} => index[i] # Null
        /\ \A t, u \in Of(stored, i) : t = u
    BY <1>0, <1>a, StoredIsActive DEF OneTaskPerID, TaskExist, Of
  <1>2. CASE UNCHANGED storageVars
    BY <1>1, <1>2 DEF storageVars
  <1>3. ASSUME NEW l \in Loop, LoopTick(l) PROVE index'[i] # Null
    <2>1. /\ stored' = stored \ due
          /\ index' \in Reindexed(stored', {t.id : t \in stored \cap due})
      BY <1>3 DEF LoopTick, StorageTick
    <2>2. y \in Of(stored, i)
      BY <2>1 DEF Of
    <2>3. i \notin {t.id : t \in stored \cap due}
      BY <1>1, <2>1, <2>2 DEF Of
    <2> QED
      BY <1>1, <1>a, <2>1, <2>2, <2>3, ReindexedFacts
  <1>4. ASSUME NEW u, StorageAdd(u) PROVE index'[i] # Null
    <2>1. /\ stored' = stored \cup {u} /\ index' \in Reindexed(stored', {})
          /\ index'[u.id] # Null
      BY <1>4 DEF StorageAdd
    <2>2. CASE y = u
      BY <2>1, <2>2 DEF Of
    <2>3. CASE y # u
      <3>1. y \in Of(stored, i)
        BY <2>1, <2>3 DEF Of
      <3> QED
        BY <1>1, <1>a, <2>1, <3>1, ReindexedFacts
    <2> QED
      BY <2>2, <2>3
  <1>5. ASSUME NEW j \in ID, StorageRemove(j) PROVE index'[i] # Null
    <2>1. CASE index[j] = Null
      BY <1>2, <1>5, <2>1 DEF StorageRemove
    <2>2. CASE index[j] # Null
      <3>1. /\ stored' = stored \ {index[j]} /\ index[j] \in Of(stored, j)
            /\ index' \in Reindexed(stored', {j})
        BY <1>0, <1>5, <2>2 DEF StorageRemove, IndexInv
      <3>2. y \in Of(stored, i) /\ y # index[j]
        BY <3>1 DEF Of
      <3>3. i # j
        BY <1>1, <3>1, <3>2
      <3> QED
        <4>1. i \in ID /\ i \notin {j} /\ index[i] # Null
          BY <1>1, <3>2, <3>3
        <4> QED
          BY <1>a, <3>1, <4>1, ReindexedFacts
    <2> QED
      BY <2>1, <2>2
  <1>6. \A c \in Client : cl[c].id \in ID
    BY <1>0 DEF TypeOK, Call
  <1> QED
    BY <1>2, <1>3, <1>4, <1>5, <1>6, StorageStep DEF GoReschedule, RemoveDo, AddDo

LEMMA OneTaskPerIDStep == Inv2 /\ [Next]_vars => OneTaskPerID'
  <1> SUFFICES ASSUME Inv2, [Next]_vars, NEW i \in ID \ twinned'
               PROVE  /\ \A t, u \in Active(i)' : t = u
                      /\ index'[i] # Null <=> Of(stored', i) # {}
    BY DEF OneTaskPerID, TaskExist, Of
  <1>1. \A t, u \in Active(i)' : t = u
    BY SingleStep
  <1>2. index'[i] # Null => Of(stored', i) # {}
    BY IndexInvStep DEF IndexInv, Of
  <1> QED
    BY <1>1, <1>2, ExistStep

-----------------------------------------------------------------------------
LEMMA Inv2Init == Init => Inv2
  <1> SUFFICES ASSUME Init PROVE Inv2
    OBVIOUS
  <1>1. \A i : Active(i) = {}
    BY DEF Init, StorageInit, Active, InBatch
  <1>2. MutexInv /\ IndexInv /\ ClaimInv
    BY DEF Init, StorageInit, MutexInv, Critical, IndexInv, ClaimInv
  <1>3. OneTaskPerID
    BY <1>1 DEF Init, StorageInit, OneTaskPerID, TaskExist, Of
  <1> QED
    BY <1>2, <1>3, Inv1Init DEF Inv2

LEMMA Inv2Step == Inv2 /\ [Next]_vars => Inv2'
  BY Inv1Step, MutexInvStep, IndexInvStep, ClaimInvStep, OneTaskPerIDStep DEF Inv2

THEOREM Invariant2 == Spec => []Inv2
  BY Inv2Init, Inv2Step, PTL DEF Spec

\* Unless AddTask accepted an ID during an execution, an ID has one active
\* task and TaskExist tells whether it waits in the storage.
THEOREM OneTask == Spec => []OneTaskPerID
  <1>1. Inv2 => OneTaskPerID
    BY DEF Inv2
  <1> QED
    BY <1>1, Invariant2, PTL

-----------------------------------------------------------------------------
\* A flag that is set on an active task stays, and it keeps the goroutine of
\* the task from getting past its check.
LEMMA RemovedHolds ==
    ASSUME Inv2, [Next]_vars, NEW i, NEW x \in Active(i), x \in removed,
           pc[x] # "adding"
    PROVE  x \in removed' /\ pc'[x] # "adding"
  <1> USE DEF loopVars, callVars, taskVars
  <1>0. /\ x \in Task /\ x \in Reachable /\ pc \in [Task -> GoState]
        /\ Null \notin Task
    BY TaskAssumption DEF Inv2, Inv1, TypeOK, Active, Reachable, Going
  <1>1. CASE UNCHANGED <<removed, pc>>
    BY <1>1
  <1>2. CASE Start \/ StopBegin \/ StopEnd \/ UNCHANGED vars
    BY <1>1, <1>2 DEF Start, StopBegin, StopEnd, vars
  <1>3. ASSUME NEW l \in Loop, LoopStep(l)
        PROVE  x \in removed' /\ pc'[x] # "adding"
    BY <1>0, <1>3 DEF LoopStep, LoopExit, LoopTick, Spawn
  <1>4. ASSUME NEW t \in Task, TimePasses(t) \/ GoStep(t)
        PROVE  x \in removed' /\ pc'[x] # "adding"
    <2>1. CASE TimePasses(t) \/ GoStart(t) \/ JobPanics(t) \/ GoExit(t)
      BY <1>0, <2>1 DEF TimePasses, GoStart, JobPanics, GoExit
    <2>2. CASE JobReturns(t)
      BY <1>0, <2>2 DEF JobReturns
    <2>3. CASE GoLock(t)
      BY <1>0, <2>3 DEF GoLock
    <2>4. CASE GoReschedule(t)
      BY <1>0, <2>4 DEF GoReschedule, Fresh, Allocate
    <2> QED
      BY <1>4, <2>1, <2>2, <2>3, <2>4 DEF GoStep
  <1>5. ASSUME NEW c \in Client, ClientStep(c)
        PROVE  x \in removed' /\ pc'[x] # "adding"
    BY <1>0, <1>5 DEF ClientStep, GetTasks, RemoveBegin, RemoveCheck, RemoveDo,
                      AddCheck, AddDo, Fresh, Allocate
  <1> QED
    BY <1>2, <1>3, <1>4, <1>5 DEF Next

\* An ID all of whose tasks carry Removed ends, whatever runs concurrently,
\* unless AddTask adds it anew.
THEOREM RemovalWins == Spec => DismissalHolds
  <1>1. ASSUME Inv2, [Next]_vars, NEW i \in ID, Dismissed(i), ~Added(i)
        PROVE  Dismissed(i)'
    <2> SUFFICES ASSUME NEW x \in Active(i)'
                 PROVE  x \in removed' /\ pc'[x] # "adding"
      BY DEF Dismissed
    <2>1. cl \in [Client -> Call] /\ \A t \in Active(i) : t \in Task
      BY <1>1 DEF Inv2, Inv1, TypeOK, Active
    <2>2. ~NewByAdd(i, x)
      BY <1>1, <2>1 DEF NewByAdd, AddDo, Added, Idle
    <2>3. ~NewByGo(i, x)
      BY <1>1 DEF NewByGo, GoReschedule, Dismissed, Active
    <2>4. x \in Active(i)
      BY <1>1, <2>2, <2>3, ActiveComesFrom
    <2> QED
      BY <1>1, <2>4, RemovedHolds DEF Dismissed
  <1>2. Inv2 /\ [Next]_vars
        => [\A i \in ID : Dismissed(i) /\ ~Added(i) => Dismissed(i)']_vars
    BY <1>1
  <1> QED
    BY <1>2, Invariant2, PTL DEF Spec, DismissalHolds

\* A RemoveTask that finds the task under taskMu leaves nothing of its ID.
THEOREM FoundTaskIsGone == Spec => FoundIsRemoved
  <1>1. ASSUME Inv2, [Next]_vars, NEW c \in Client, RemoveReturnsTrue(c),
               cl[c].id \notin twinned, TaskExist(cl[c].id)
        PROVE  Active(cl[c].id)' = {}
    <2> DEFINE i == cl[c].id
    <2>0. /\ TypeOK /\ OneTaskPerID /\ IndexInv /\ SingleOwner
          /\ cl \in [Client -> Call] /\ i \in ID
      BY <1>1 DEF Inv2, Inv1, OwnInv, TypeOK, Call
    <2>1. RemoveDo(c)
      <3>1. CASE UNCHANGED cl
        BY <1>1, <3>1 DEF RemoveReturnsTrue
      <3>2. ASSUME NEW d \in Client, ClientStep(d), ~RemoveDo(c) PROVE FALSE
        <4>1. d = c
          BY <1>1, <2>0, <3>2 DEF RemoveReturnsTrue, ClientStep, GetTasks,
             RemoveBegin, RemoveCheck, RemoveDo, AddCheck, AddDo
        <4> QED
          BY <1>1, <3>2, <4>1 DEF RemoveReturnsTrue, ClientStep, GetTasks,
             RemoveBegin, RemoveCheck, AddCheck, AddDo
      <3>3. UNCHANGED cl \/ \E d \in Client : ClientStep(d)
        BY <1>1 DEF Next, LoopStep, GoStep, vars, Start, StopBegin, StopEnd,
               LoopExit, LoopTick, Spawn, TimePasses, GoStart, JobReturns,
               JobPanics, GoLock, GoReschedule, GoExit, callVars
      <3> QED
        BY <3>1, <3>2, <3>3
    <2>2. /\ index[i] \in Of(stored, i) /\ stored' = stored \ {index[i]}
          /\ UNCHANGED <<pc, batch, loops>>
      BY <1>1, <2>0, <2>1
      DEF RemoveDo, StorageRemove, TaskExist, IndexInv, loopVars
    <2>3. index[i] \in Task /\ Active(i) = {index[i]}
      BY <1>1, <2>0, <2>2, StoredIsActive
      DEF OneTaskPerID, TypeOK, StorageTypeOK, Of
    <2>4. index[i] \notin InBatch /\ pc[index[i]] = "none"
      BY <2>0, <2>2 DEF SingleOwner, Of
    <2>5. cl'[c].id = i
      BY <2>0, <2>1 DEF RemoveDo, Idle
    <2> QED
      BY <2>2, <2>3, <2>4, <2>5 DEF Active, InBatch
  <1>2. Inv2 /\ [Next]_vars
        => [\A c \in Client :
              /\ RemoveReturnsTrue(c)
              /\ cl[c].id \notin twinned
              /\ TaskExist(cl[c].id)
              => Active(cl[c].id)' = {}]_vars
    BY <1>1
  <1> QED
    BY <1>2, Invariant2, PTL DEF Spec, FoundIsRemoved

-----------------------------------------------------------------------------
\* An active task goes on, leaves a new object behind, is removed from the
\* storage by a client, or gives up.
LEMMA ActiveGoesOn ==
    ASSUME Inv2, [Next]_vars, NEW i \in ID, NEW x \in Active(i), ~GivesUp(x)
    PROVE  \/ Active(i)' # {}
           \/ \E c \in Client : RemoveReturnsTrue(c) /\ cl[c].id = i
  <1> USE DEF loopVars, callVars, taskVars
  <1>0. TypeOK /\ LoopInv /\ IndexInv /\ SingleOwner
    BY DEF Inv2, Inv1, OwnInv
  <1>a. /\ pc \in [Task -> GoState] /\ cl \in [Client -> Call]
        /\ batch \in [Loop -> SUBSET Task] /\ due \subseteq stored
        /\ loops \subseteq Loop /\ stored \subseteq Task
        /\ running \in BOOLEAN
    BY <1>0 DEF TypeOK, StorageTypeOK
  <1>b. x \in Task /\ x.id = i
    BY DEF Active
  <1>c. ASSUME stored \subseteq stored', UNCHANGED pc,
               \A t \in InBatch : t \in InBatch' \/ pc[t] = "start"
        PROVE  Active(i)' # {}
    <2>1. x \in Active(i)'
      BY <1>c, <1>b DEF Active
    <2> QED
      BY <2>1
  <1>1. ASSUME UNCHANGED <<stored, loops, batch, pc>> PROVE Active(i)' # {}
    <2>1. UNCHANGED InBatch
      BY <1>1 DEF InBatch
    <2> QED
      BY <1>1, <1>c, <2>1
  <1>2. CASE Start
    <2>1. InBatch \subseteq InBatch' /\ UNCHANGED <<stored, pc>>
      BY <1>a, <1>2 DEF Start, InBatch
    <2> QED
      BY <1>c, <2>1
  <1>3. CASE StopBegin \/ StopEnd \/ UNCHANGED vars
    BY <1>1, <1>3 DEF StopBegin, StopEnd, vars
  <1>4. ASSUME NEW l \in Loop, LoopStep(l) PROVE Active(i)' # {}
    <2>1. CASE LoopExit(l)
      <3>1. InBatch \subseteq InBatch' /\ UNCHANGED <<stored, pc>>
        BY <1>a, <2>1 DEF LoopExit, InBatch
      <3> QED
        BY <1>c, <3>1
    <2>2. CASE LoopTick(l)
      <3>1. /\ stored' = stored \ due /\ batch' = [batch EXCEPT ![l] = due]
            /\ l \in loops /\ batch[l] = {} /\ UNCHANGED <<loops, pc>>
        BY <2>2 DEF LoopTick, StorageTick
      <3>2. InBatch \cup due \subseteq InBatch'
        BY <1>a, <3>1 DEF InBatch
      <3>3. x \in Active(i)'
        BY <1>b, <3>1, <3>2 DEF Active
      <3> QED
        BY <3>3
    <2>3. ASSUME NEW t \in Task, Spawn(l, t) PROVE x \in Active(i)'
      <3>1. /\ l \in loops /\ t \in batch[l]
            /\ batch' = [batch EXCEPT ![l] = @ \ {t}]
            /\ pc' = [pc EXCEPT ![t] = "start"]
            /\ UNCHANGED <<stored, loops>>
        BY <2>3 DEF Spawn
      <3>2. InBatch \subseteq InBatch' \cup {t}
        BY <1>a, <3>1 DEF InBatch
      <3> QED
        BY <1>a, <1>b, <3>1, <3>2 DEF Active
    <2> QED
      BY <1>4, <2>1, <2>2, <2>3 DEF LoopStep
  <1>5. ASSUME NEW t \in Task, TimePasses(t) PROVE Active(i)' # {}
    BY <1>1, <1>5 DEF TimePasses
  <1>6. ASSUME NEW t \in Task, GoStep(t) PROVE Active(i)' # {}
    <2>1. CASE GoReschedule(t)
      <3>1. PICK u \in Fresh(t.id) : StorageAdd(u)
        BY <2>1 DEF GoReschedule
      <3>2. /\ u \in stored' /\ u \in Task /\ u.id = t.id /\ stored \subseteq stored'
            /\ pc' = [pc EXCEPT ![t] = "exit"] /\ UNCHANGED <<loops, batch>>
        BY <2>1, <3>1 DEF GoReschedule, StorageAdd, Fresh
      <3>3. CASE x = t
        BY <1>b, <3>2, <3>3 DEF Active
      <3>4. CASE x # t
        <4>1. x \in Active(i)'
          BY <1>a, <1>b, <3>2, <3>4 DEF Active, InBatch
        <4> QED
          BY <4>1
      <3> QED
        BY <3>3, <3>4
    <2>2. CASE ~GoReschedule(t)
      <3>1. /\ pc[t] \in {"start", "job", "lock", "exit"}
            /\ \E y \in GoState : pc' = [pc EXCEPT ![t] = y]
            /\ UNCHANGED <<stored, loops, batch>>
        BY <1>6, <1>a, <2>2
        DEF GoStep, GoStart, JobReturns, JobPanics, GoLock, GoExit, GoState
      <3>2. UNCHANGED InBatch
        BY <3>1 DEF InBatch
      <3>3. ASSUME t = x, pc[x] \in {"start", "job", "lock"}
            PROVE  pc'[x] \in {"start", "job", "lock", "adding"}
        <4>1. CASE GoStart(t)
          BY <1>0, <1>a, <1>b, <3>3, <4>1 DEF GoStart, SingleOwner
        <4>2. CASE JobReturns(t)
          BY <1>a, <1>b, <3>3, <4>2 DEF JobReturns, GivesUp
        <4>3. CASE JobPanics(t)
          BY <1>a, <1>b, <3>3, <4>3 DEF JobPanics, GivesUp
        <4>4. CASE GoLock(t)
          BY <1>a, <1>b, <3>3, <4>4 DEF GoLock, GivesUp
        <4>5. ~GoExit(t)
          BY <3>3 DEF GoExit
        <4> QED
          BY <1>6, <2>2, <4>1, <4>2, <4>3, <4>4, <4>5 DEF GoStep
      <3>4. x \in Active(i)'
        BY <1>a, <1>b, <3>1, <3>2, <3>3 DEF Active
      <3> QED
        BY <3>4
    <2> QED
      BY <2>1, <2>2
  <1>7. ASSUME NEW c \in Client, ClientStep(c)
        PROVE  \/ Active(i)' # {}
               \/ RemoveReturnsTrue(c) /\ cl[c].id = i
    <2>1. CASE RemoveDo(c)
      <3>1. /\ stored \ {index[cl[c].id]} \subseteq stored'
            /\ UNCHANGED <<pc, loops, batch>> /\ RemoveReturnsTrue(c)
            /\ cl[c].id \in ID
        BY <1>a, <2>1 DEF RemoveDo, StorageRemove, RemoveReturnsTrue, Idle, Call,
                          TaskExist, storageVars
      <3>2. UNCHANGED InBatch
        BY <3>1 DEF InBatch
      <3>3. CASE cl[c].id = i
        BY <3>1, <3>3
      <3>4. CASE cl[c].id # i
        <4>1. x \in stored => x # index[cl[c].id]
          BY <1>0, <1>b, <3>1, <3>4, TaskAssumption DEF IndexInv, Of
        <4>2. x \in Active(i)'
          BY <1>b, <3>1, <3>2, <4>1 DEF Active
        <4> QED
          BY <4>2
      <3> QED
        BY <3>3, <3>4
    <2>2. CASE ~RemoveDo(c)
      <3>1. stored \subseteq stored' /\ UNCHANGED <<pc, loops, batch>>
        BY <1>7, <2>2 DEF ClientStep, GetTasks, RemoveBegin, RemoveCheck,
                          AddCheck, AddDo, StorageAdd
      <3>2. UNCHANGED InBatch
        BY <3>1 DEF InBatch
      <3> QED
        BY <1>c, <3>1, <3>2
    <2> QED
      BY <2>1, <2>2
  <1> QED
    BY <1>2, <1>3, <1>4, <1>5, <1>6, <1>7 DEF Next

\* No task is lost between the heap, the slice of a loop, the goroutine and
\* the heap again, however Start, Stop, AddTask and RemoveTask interleave.
THEOREM NoTaskIsLost == Spec => NothingVanishes
  <1>1. ASSUME Inv2, [Next]_vars, NEW i \in ID, Active(i) # {}, Active(i)' = {}
        PROVE  \/ \E t \in Active(i) : GivesUp(t)
               \/ \E c \in Client : RemoveReturnsTrue(c) /\ cl[c].id = i
    BY <1>1, ActiveGoesOn
  <1>2. Inv2 /\ [Next]_vars
        => [\A i \in ID :
              Active(i) # {} /\ Active(i)' = {}
              => \/ \E t \in Active(i) : GivesUp(t)
                 \/ \E c \in Client : RemoveReturnsTrue(c) /\ cl[c].id = i]_vars
    BY <1>1
  <1> QED
    BY <1>2, Invariant2, PTL DEF Spec, NothingVanishes
=============================================================================
