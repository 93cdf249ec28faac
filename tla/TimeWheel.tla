------------------------------ MODULE TimeWheel ------------------------------
(***************************************************************************)
(* The hierarchical wheel of task_timewheel.go, the storage behind         *)
(* StorageTypeTimeWheel. Level 0 turns by one slot every tick; one turn of *)
(* level l is one slot of level l + 1, and levels are added when a task is *)
(* too far away. Tick walks the levels from the top, under the mutex of    *)
(* one level at a time and without DynamicTimeWheel.mu, and what it takes  *)
(* out of a level is in no level until it is put back, so AddTask and      *)
(* RemoveTask interleave with it between any two of its steps. There is    *)
(* one run loop, hence one Tick; Scheduler.taskMu serialises the other     *)
(* operations, hence one client.                                           *)
(***************************************************************************)
EXTENDS Integers

CONSTANTS ID, Task, Null,
          Size,           \* DefaultWheelSize
          Levels,         \* bound: the levels AddTask may expand to
          tickDuration,   \* of each level, in units of the clock
          MaxTime         \* bound: the clock

Level == 0..(Levels - 1)

\* expandLevelLocked: a slot of a level spans a whole turn of the one below.
ASSUME WheelAssumption ==
    /\ \A t \in Task : t.id \in ID /\ t.next \in Nat
    /\ Null \notin Task
    /\ Size \in Nat \ {0} /\ Levels \in Nat \ {0} /\ MaxTime \in Nat
    /\ tickDuration \in [Level -> Nat \ {0}]
    /\ \A l \in Level \ {0} : tickDuration[l] = tickDuration[l - 1] * Size
    /\ Null \notin [slot : 0..(Size - 1), task : Task]

SlotIndex == 0..(Size - 1)

VARIABLES clock,      \* time.Now()
          depth,      \* len(levels)
          current,    \* level -> currentSlot
          lastTick,   \* level -> lastTickTime
          slots,      \* level -> slot -> the tasks of its list
          tasks,      \* level -> ID -> its entry, Null when there is none
          tick,       \* where Tick is
          tickNow,    \* its argument
          lvl,        \* the level it is at, i
          hand,       \* tasks out of a level and not yet redistributed
          placeNow,   \* the clock as redistributeTasks read it
          ready,      \* readyTasks
          op,         \* where AddTask or RemoveTask is
          arg,        \* the task of AddTask, the ID of RemoveTask
          duration,   \* how far away AddTask found its task to be
          sweep,      \* the level it looks at
          fresh       \* history: what AddTask has placed since Tick copied the levels

wheelVars == <<depth, current, lastTick, slots, tasks>>
tickVars == <<tick, tickNow, lvl, hand, placeNow, ready>>
clientVars == <<op, arg, duration, sweep>>
vars == <<clock, wheelVars, tickVars, clientVars, fresh>>

Entry == [slot : SlotIndex, task : Task]

TypeOK ==
    /\ clock \in 0..MaxTime
    /\ depth \in 1..Levels
    /\ current \in [Level -> SlotIndex]
    /\ lastTick \in [Level -> 0..MaxTime]
    /\ slots \in [Level -> [SlotIndex -> SUBSET Task]]
    /\ tasks \in [Level -> [ID -> Entry \cup {Null}]]
    /\ tick \in {"idle", "call", "level", "read", "place"}
    /\ tickNow \in 0..MaxTime
    /\ lvl \in Level
    /\ hand \subseteq Task
    /\ placeNow \in 0..MaxTime
    /\ ready \subseteq Task
    /\ op \in {"idle", "add", "remove"}
    /\ arg \in Task \cup ID \cup {Null}
    /\ duration \in Nat
    /\ sweep \in 0..Levels
    /\ fresh \subseteq Task

Init ==
    /\ clock = 0
    /\ depth = 1
    /\ current = [l \in Level |-> 0]
    /\ lastTick = [l \in Level |-> 0]
    /\ slots = [l \in Level |-> [s \in SlotIndex |-> {}]]
    /\ tasks = [l \in Level |-> [i \in ID |-> Null]]
    /\ tick = "idle" /\ tickNow = 0 /\ lvl = 0 /\ hand = {} /\ placeNow = 0
    /\ ready = {}
    /\ op = "idle" /\ arg = Null /\ duration = 0 /\ sweep = 0
    /\ fresh = {}

InLevel(l) == UNION {slots[l][s] : s \in SlotIndex}
InWheel == UNION {InLevel(l) : l \in Level}
Everywhere == InWheel \cup hand \cup ready

-----------------------------------------------------------------------------
(***************************************************************************)
(* One level.                                                              *)
(***************************************************************************)
Coverage(l) == tickDuration[l] * Size

\* maxCoverageLocked, for the first d levels.
maxCoverage[d \in Nat] == IF d = 0 THEN 0 ELSE maxCoverage[d - 1] + Coverage(d - 1)

AtLeastZero(x) == IF x > 0 THEN x ELSE 0

\* The slot that comes n ticks after s.
Ahead(s, n) == (s + n) % Size

\* The ticks of level l that a wait of d takes, rounded up.
TicksFor(l, d) == (AtLeastZero(d) + tickDuration[l] - 1) \div tickDuration[l]

\* Mutant of Without: the entry stays in the map.
WithoutSlot(l, i) ==
    /\ slots' = [slots EXCEPT ![l] = [s \in SlotIndex |-> {t \in @[s] : t.id # i}]]
    /\ UNCHANGED tasks

\* removeTask: the list element and the entry of an ID go, if there are any.
Without(l, i) ==
    /\ slots' = [slots EXCEPT ![l] = [s \in SlotIndex |->
          IF tasks[l][i] # Null /\ tasks[l][i].slot = s
          THEN @[s] \ {tasks[l][i].task}
          ELSE @[s]]]
    /\ tasks' = [tasks EXCEPT ![l][i] = Null]

\* Mutant of Put: the task of the same ID is not taken out first.
PutBeside(l, t, last) ==
    LET s == Ahead(current[l], TicksFor(l, t.next - last)) IN
    /\ slots' = [slots EXCEPT ![l][s] = @ \cup {t}]
    /\ tasks' = [tasks EXCEPT ![l][t.id] = [slot |-> s, task |-> t]]

\* addTaskLocked, on a level whose lastTickTime is last: the task takes the
\* place of the one with its ID, and the slot whose turn comes no earlier
\* than its time.
Put(l, t, last) ==
    LET s   == Ahead(current[l], TicksFor(l, t.next - last))
        old == IF tasks[l][t.id] = Null THEN {} ELSE {tasks[l][t.id].task}
    IN  /\ slots' = [slots EXCEPT ![l] =
              [r \in SlotIndex |-> IF r = s THEN (@[r] \ old) \cup {t} ELSE @[r] \ old]]
        /\ tasks' = [tasks EXCEPT ![l][t.id] = [slot |-> s, task |-> t]]

-----------------------------------------------------------------------------
(***************************************************************************)
(* Tick.                                                                   *)
(***************************************************************************)
\* A new second; a Tick may be under way.
TimePasses ==
    /\ clock < MaxTime
    /\ clock' = clock + 1
    /\ UNCHANGED <<wheelVars, tickVars, clientVars, fresh>>

\* The run loop reads the clock for the call of Tick.
TickCall ==
    /\ tick = "idle"
    /\ tick' = "call" /\ tickNow' = clock
    /\ UNCHANGED <<clock, wheelVars, lvl, hand, placeNow, ready, clientVars, fresh>>

\* Tick copies dtw.levels.
TickBegin ==
    /\ tick = "call"
    /\ tick' = "level" /\ lvl' = depth - 1
    /\ UNCHANGED <<clock, wheelVars, tickNow, hand, placeNow, ready, clientVars, fresh>>

\* The ticks that have elapsed; none while lastTickTime is in the future.
Ticks(l) == AtLeastZero(tickNow - lastTick[l]) \div tickDuration[l]

\* collectExpiredTasksFromCurrentSlot.
Expired(l) == {t \in slots[l][current[l]] : t.next <= tickNow}

\* Mutant of Turned: the slots that were skipped are not looked at.
TurnedTo(l) == IF Ticks(l) = 0 THEN {} ELSE {Ahead(current[l], Ticks(l))}

\* The slots the level has turned past, all others at most, and the new one.
Turned(l) ==
    IF Ticks(l) = 0
    THEN {}
    ELSE {Ahead(current[l], n) : n \in {k \in 1..(Size - 1) : k < Ticks(l)}}
         \cup {Ahead(current[l], Ticks(l))}

Taken(l) == Expired(l) \cup UNION {slots[l][s] : s \in Turned(l)}

\* Mutant of NewTickTime: the ticks are counted from now on.
NewTickNow(l) == IF Ticks(l) = 0 THEN lastTick[l] ELSE tickNow

\* lastTickTime moves by whole ticks.
NewTickTime(l) == lastTick[l] + Ticks(l) * tickDuration[l]

\* Mutant of Emptied: slot.Init() is not called.
EmptiedOfExpired(l, S) == [s \in SlotIndex |-> slots[l][s] \ Expired(l)]

Emptied(l, S) == [s \in SlotIndex |-> slots[l][s] \ S]

\* What Tick does to one level while it holds its mutex; redistributeTasks
\* returns at once if that gave it no task.
TickLevel ==
    /\ tick = "level"
    /\ hand' = Taken(lvl)
    /\ slots' = [slots EXCEPT ![lvl] = Emptied(lvl, Taken(lvl))]
    /\ tasks' = [tasks EXCEPT ![lvl] = [i \in ID |->
                    IF \E t \in Taken(lvl) : t.id = i THEN Null ELSE @[i]]]
    /\ lastTick' = [lastTick EXCEPT ![lvl] = NewTickTime(lvl)]
    /\ current' = [current EXCEPT ![lvl] = Ahead(@, Ticks(lvl))]
    /\ tick' = IF Taken(lvl) = {} THEN "place" ELSE "read"
    /\ UNCHANGED <<clock, depth, tickNow, lvl, placeNow, ready, clientVars, fresh>>

\* redistributeTasks reads the clock, when the level is unlocked again.
TickRead ==
    /\ tick = "read"
    /\ tick' = "place" /\ placeNow' = clock
    /\ UNCHANGED <<clock, wheelVars, tickNow, lvl, hand, ready, clientVars, fresh>>

\* Mutant of Redistribute: a task that is not due is not cascaded.
RedistributeDue(t) ==
    /\ tick = "place"
    /\ t \in hand
    /\ hand' = hand \ {t}
    /\ IF t.next <= placeNow
       THEN IF lvl = 0
            THEN ready' = ready \cup {t} /\ UNCHANGED <<slots, tasks>>
            ELSE Put(lvl - 1, t, lastTick[lvl - 1]) /\ UNCHANGED ready
       ELSE UNCHANGED <<slots, tasks, ready>>
    /\ UNCHANGED <<clock, depth, current, lastTick, tick, tickNow, lvl, placeNow,
                   clientVars, fresh>>

\* redistributeTasks, one task: from level 0 it is ready or goes back, from
\* a higher level it goes down by one, due or not.
Redistribute(t) ==
    /\ tick = "place"
    /\ t \in hand
    /\ hand' = hand \ {t}
    /\ IF lvl = 0 /\ t.next <= placeNow
       THEN ready' = ready \cup {t} /\ UNCHANGED <<slots, tasks>>
       ELSE LET l == IF lvl = 0 THEN 0 ELSE lvl - 1 IN
            Put(l, t, lastTick[l]) /\ UNCHANGED ready
    /\ UNCHANGED <<clock, depth, current, lastTick, tick, tickNow, lvl, placeNow,
                   clientVars, fresh>>

\* Mutant of TickDown: the loop does not stop at level 0.
TickBelow ==
    /\ tick = "place" /\ hand = {}
    /\ tick' = "level" /\ lvl' = lvl - 1 /\ placeNow' = 0
    /\ UNCHANGED <<clock, wheelVars, tickNow, hand, ready, clientVars, fresh>>

TickDown ==
    /\ tick = "place" /\ hand = {} /\ lvl > 0
    /\ tick' = "level" /\ lvl' = lvl - 1 /\ placeNow' = 0
    /\ UNCHANGED <<clock, wheelVars, tickNow, hand, ready, clientVars, fresh>>

\* The ready tasks go to the run loop.
TickReturn ==
    /\ tick = "place" /\ hand = {} /\ lvl = 0
    /\ tick' = "idle" /\ tickNow' = 0 /\ placeNow' = 0 /\ ready' = {} /\ fresh' = {}
    /\ UNCHANGED <<clock, wheelVars, lvl, hand, clientVars>>

-----------------------------------------------------------------------------
(***************************************************************************)
(* AddTask and RemoveTask.                                                 *)
(***************************************************************************)
ClientDone == op' = "idle" /\ arg' = Null /\ duration' = 0 /\ sweep' = 0

\* AddTask reads the clock before it waits for dtw.mu.  The tasks the wheel
\* is given are never in it, and never further away than Levels can cover.
AddBegin(t) ==
    /\ op = "idle"
    /\ t \notin Everywhere
    /\ AtLeastZero(t.next - clock) <= maxCoverage[Levels]
    /\ op' = "add" /\ arg' = t /\ duration' = AtLeastZero(t.next - clock)
    /\ sweep' = 0
    /\ UNCHANGED <<clock, wheelVars, tickVars, fresh>>

\* It takes the task of the same ID out of one level after the other.
AddSweep ==
    /\ op = "add"
    /\ sweep < depth
    /\ Without(sweep, arg.id)
    /\ sweep' = sweep + 1
    /\ UNCHANGED <<clock, depth, current, lastTick, tickVars, op, arg, duration, fresh>>

\* The levels there will be once maxCoverageLocked has reached d.
Expanded(d) == CHOOSE n \in depth..Levels :
    /\ d <= maxCoverage[n]
    /\ \A m \in depth..(n - 1) : ~(d <= maxCoverage[m])

\* It adds levels, whose time begins now, until all of them together cover
\* duration, and puts the task in the first that covers it alone.  There
\* need not be one.
AddPlace ==
    /\ op = "add"
    /\ sweep = depth
    /\ depth' = Expanded(duration)
    /\ lastTick' = [l \in Level |-> IF l \in depth..(depth' - 1) THEN clock ELSE lastTick[l]]
    /\ \/ \E l \in 0..(depth' - 1) :
             /\ duration <= Coverage(l)
             /\ \A m \in 0..(l - 1) : duration > Coverage(m)
             /\ Put(l, arg, lastTick'[l])
             /\ fresh' = IF tick \in {"idle", "call"} THEN {} ELSE fresh \cup {arg}
       \/ /\ \A l \in 0..(depth' - 1) : duration > Coverage(l)
          /\ UNCHANGED <<slots, tasks, fresh>>
    /\ ClientDone
    /\ UNCHANGED <<clock, current, tickVars>>

RemoveBegin(i) ==
    /\ op = "idle"
    /\ op' = "remove" /\ arg' = i /\ sweep' = 0
    /\ UNCHANGED <<clock, wheelVars, tickVars, duration, fresh>>

\* RemoveTask stops at the first level that knows the ID.
RemoveSweep ==
    /\ op = "remove"
    /\ Without(sweep, arg)
    /\ IF tasks[sweep][arg] # Null \/ sweep + 1 = depth
       THEN ClientDone
       ELSE sweep' = sweep + 1 /\ UNCHANGED <<op, arg, duration>>
    /\ UNCHANGED <<clock, depth, current, lastTick, tickVars, fresh>>

Next == \/ TimePasses
        \/ TickCall \/ TickBegin \/ TickLevel \/ TickRead \/ TickDown \/ TickReturn
        \/ \E t \in hand : Redistribute(t)
        \/ \E t \in Task : AddBegin(t)
        \/ AddSweep \/ AddPlace
        \/ \E i \in ID : RemoveBegin(i)
        \/ RemoveSweep

Spec == Init /\ [][Next]_vars

-----------------------------------------------------------------------------
(***************************************************************************)
(* What the wheel guarantees.                                              *)
(***************************************************************************)
\* The map of a level and its lists tell the same story at every moment, so
\* whatever TaskExist and RemoveTask find by ID is what Tick will run.
MapMatchesSlots == \A l \in Level :
    /\ \A t \in Task, s \in SlotIndex :
          t \in slots[l][s] <=> tasks[l][t.id] = [slot |-> s, task |-> t]
    /\ \A i \in ID : tasks[l][i] # Null => tasks[l][i].task.id = i

\* A task is in one slot of one level, or on its way, or about to run: it
\* is never there twice, and so never runs twice for one AddTask.
SingleCopy == \A t \in Task :
    /\ \A l, m \in Level : \A r, s \in SlotIndex :
          t \in slots[l][r] /\ t \in slots[m][s] => l = m /\ r = s
    /\ t \in InWheel => t \notin hand /\ t \notin ready
    /\ t \notin hand \/ t \notin ready

\* A level that has turned, by however many slots at once, still holds every
\* task in the slot that its time asks for (task_timewheel.go:197-230, 427-430).
SlotMatchesTime == \A l \in Level : \A s \in SlotIndex : \A t \in slots[l][s] :
    s = (current[l] + TicksFor(l, t.next - lastTick[l])) % Size

\* A task that the wheel holds only leaves it to run, for an operation on
\* its ID, or for another task of that ID (:184-238, 334-359).
NothingIsLost ==
    [][\A t \in Everywhere :
          \/ t \in Everywhere'
          \/ t \in ready /\ tick' = "idle"
          \/ op = "add" /\ arg.id = t.id
          \/ op = "remove" /\ arg = t.id
          \/ \E u \in hand : u # t /\ u.id = t.id]_vars

\* When Tick returns, a task that level l still holds is overdue by less
\* than a tick of that level, unless it was added while Tick ran.
LateByLessThanATick ==
    [][tick # "idle" /\ tick' = "idle" =>
          \A l \in Level : \A t \in InLevel(l) \ fresh :
              t.next > tickNow - tickDuration[l]]_vars

\* What the code is expected to do, and does not:

\* Tick returns what is due, to within the tick the wheel was given
\* (task_timewheel_test.go:36, getting-started.md:244).
DueTasksAreReturned ==
    [][tick # "idle" /\ tick' = "idle" =>
          \A t \in InWheel \ fresh : t.next > tickNow - tickDuration[0]]_vars

\* A task that AddTask was called with is in the wheel when it returns
\* (task_timewheel_multilevel_test.go:58-60).
AddedTaskExists ==
    [][op = "add" /\ op' = "idle" => arg \in Everywhere']_vars
=============================================================================
