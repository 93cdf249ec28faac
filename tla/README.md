# GoLiteCron in TLA+

A verification project for GoLiteCron, an in-process cron scheduler in Go: TLA+
modules that follow its source, TLC configurations that check them on small
instances, and TLAPS proofs of what matters most for instances of any size.
Line numbers below are those of the Go files.

Contents: 1 the system, 2 the modules, 3 the code and the modules, 4 the runs,
5 disagreements between code and docs, 6 fairness, 7 the proofs, 8 what is not
covered, 9 plan.

## 1. The system

| part | source | state | operations |
|---|---|---|---|
| Scheduler | `scheduler.go` | `running`, `stopChan`, `wg`, the mutexes `mu` (Start, Stop) and `taskMu` (tasks), a storage | Start, Stop, AddTask, RemoveTask, GetTasks, GetTaskInfo, LoadTasksFromConfig; `run` |
| Task | `task.go` | `NextRunTime`, the atomics `Running` and `Removed` | read and written by the scheduler |
| Task execution | `scheduler.go:243-284` | loop variable, `done`, `ctx` | attempts, timeout, retry |
| Heap storage | `task_queue.go` | the heap `tasks`, the map `taskIdx`, a mutex | AddTask, RemoveTask, TaskExist, Tick, GetTasks |
| Time wheel storage | `task_timewheel.go` | levels; in each the slots, the map, `currentSlot`, `lastTickTime`, a mutex; a mutex of the wheel | the same interface; the cascade and the expansion of levels inside |
| Cron parser | `cron_parser.go` | the parsed fields, location, timeout, retry | newCronParser, Next |
| Schedule builder | `schedule_builder.go` | unit, interval, time, options | Every ... Do |
| Job registry, wrapper | `job_registry.go`, `job_wrapper.go` | a map under an RWMutex | RegisterJob, GetJob, WrapJob |
| Config loader | `config.go`, `config_loader.go` | none | LoadFromYAML, LoadFromJSON |

How they interact. `Start` starts one goroutine for `run`. Every 500 ms `run`
calls `storage.Tick`, **without** `taskMu`, and starts a goroutine for each task
it gets. That goroutine takes `Running` by compare-and-swap, calls `Job.Execute`
with its timeout and retries, asks `CronParser.Next` for the next time, and,
under `taskMu`, puts a **new** `Task` of the same ID into the storage unless the
old one has been marked `Removed` or the scheduler has been stopped. Clients add
and remove under `taskMu`; `RemoveTask` marks its argument **before** it takes
the lock. `Stop` clears `running`, closes `stopChan` and waits for `wg` with `mu`
held.

What is hard, and what makes each part correct:

* *Scheduler.* Interleavings of Tick, goroutines, Add and Remove; Stop against
  everything else. Stop leaves nothing running; one run loop; a task is never
  dropped by accident, never in two places; a removal holds; Stop returns; a
  task that is not removed keeps firing.
* *Execution.* Timeouts that race late answers, jobs that never return. Retries
  are exact, do not overlap, and an execution with a timeout ends.
* *Heap.* Order and map under any sequence of operations, also with two tasks of
  one ID; Tick is exact; each operation looks atomic.
* *Wheel.* Late ticks, cascades that other operations interrupt, boundaries
  between slots and levels. Nothing is lost or doubled; slots match times; a
  bound on lateness.
* *Parser.* Many forms of a field that are told apart by the order of tests;
  ends of months and years, leap days, L and W, time zones. A field is read as
  documented or refused, what is accepted is safe to search, Next is the earliest
  time that fits, and later than its argument.
* *Builder.* Calls in any order, a builder used again. The task runs when the
  calls say; a fresh builder works; builders of one generated ID ask for the same
  times and days, though maybe in different locations.
* *Loading.* Entries that fail half way, other loads, registrations and removals
  in between. What is loaded is a prefix of the file, as it is written.

All hazards, each with its line and the properties aimed at it, are in
`PROJECT.json` under `hazards`.

## 2. The modules

| module | what it is |
|---|---|
| `TaskStorage` | what the heap promises: atomic operations on a set of tasks and a map |
| `Scheduler` | EXTENDS `TaskStorage`; the concurrent core |
| `TaskQueue` | the binary heap step by step; implements `TaskStorage` (INSTANCE ... WITH) |
| `Executor` | what one task goroutine does with a job: a refinement in more detail of Scheduler's `JobReturns`, for one ID |
| `TimeWheel` | the hierarchical wheel |
| `CronField` | operators only: macros, `parseField`, `newCronParser`, and what a field means |
| `CronNext` | EXTENDS `CronField`; `newCronParser` and one call of `CronParser.Next` on its result |
| `ScheduleBuilder` | EXTENDS `CronField`; the chain API, down to the parser of the task it adds |
| `ConfigLoad` | EXTENDS `CronField`; the loaders, LoadTasksFromConfig, the job registry and WrapJob |
| `MC*` | instances for TLC |
| `*_proofs` | the theorems; `CronField_proofs` holds those about texts, which `CronNext_proofs` and `ScheduleBuilder_proofs` extend |

Every property stands at the end of the module it is about, after the state
machine. A definition named as a mutant (its comment begins "Mutant of") is a
plausible mistake in the operation that follows it; it is part of no behaviour,
and each checked property is paired in `PROJECT.json` with a mutant that TLC
finds to violate it.

## 3. The code and the modules

`PROJECT.json` maps every definition to its lines. What the maps do not say:

**Scheduler.** A goroutine is named by the task object it runs, since
`SingleOwner` shows that none runs two. Task objects are records of an ID and an
address, so that there can be several of one ID; an object that nothing points
to may be allocated again (`Fresh`, `Allocate`), which is what `&Task{}` does.
The steps of a goroutine are cut at every lock and atomic: `GoStart` (the CAS of
`Running`), `JobReturns` (all attempts, Next, and the read of `running`),
`GoLock` (taskMu and the read of `Removed`), `GoReschedule` (storage.AddTask and
unlock), `GoExit`. `RemoveTask` is `RemoveBegin` (set `Removed`), `RemoveCheck`
(lock, TaskExist), `RemoveDo` (storage.RemoveTask, unlock); `AddTask` is
`AddCheck` and `AddDo`. Only calendar time is abstracted: `TimePasses(t)` says
that the time of a stored task has come, in any order, which includes every
order real clocks produce. The argument of RemoveTask may be a task of GetTasks,
held for as long as the client likes, or one the client made from the ID alone
(`Null` here: its mark reaches nobody).

**TaskStorage.** AddTask does not look for another task of the same ID. With two
the map names one of them, and which one depends on the order of the heap that
this module leaves out; `Reindexed` allows every map that the heap can leave,
and `TaskQueue` is checked to stay within it. `twinned` (history) collects the
IDs for which AddTask did accept a second task, because scheduler.go:163 does
not see a task that is being executed.

**TaskQueue.** container/heap is external and modelled from its documented
algorithm: `DownSwap`, `DownDone`, `UpSwap`, `UpDone`. The mutex is held from the
first to the last step of an operation, so the properties speak of the state
when no operation is under way. `was` (history) is what the storage held when
the lock was taken; the refinement shows that state until the lock is released,
and TickIsExact compares what Tick returns with it, which the refinement does not
(TaskStorage says what Tick takes out).

**TimeWheel.** Tick is a call with the time at which `run` read the clock
(`TickCall`), a copy of the list of levels (`TickBegin`), and then the mutex of one
level at a time: `TickLevel` is what it does under it, `TickRead` the clock that
redistributeTasks reads when the level is unlocked again, `Redistribute` puts one
task back (one lock each), and between any two of those a client may take a step
of its own. A task between the two is in `hand`, in no level. The clock moves at
any time; `tickNow`, `placeNow` and `duration` are the three places where the code
reads it, and may be stale. `fresh` (history) is what AddTask has placed since
Tick copied the levels.

**Executor.** One ID; `pc` is where its task is. With a timeout every attempt
has a goroutine that nothing can stop: `job` says which calls of Execute are
still under way or have an answer to send, `mine` whose channel `select` listens
to. `done` is what the buffer of each attempt's channel holds; a send waits until
there is room in it (`Capacity`, one) or until `select` is there to receive. The
channel of an abandoned attempt is garbage once its one value is in. After the
attempts `NextTime` asks for the next time and reads `running`, and `Reschedule`
takes `taskMu` and looks at `Removed`: a Stop or a RemoveTask may come between.
A job may call Stop (`JobStops`): `callers` are the attempts that are in that
call, `holder` the one whose call has taken `mu` and waits in `wg.Wait`; that
attempt answers only when `StopEnd` lets it go. Scheduler's clients call Stop
from outside and need none of this.

**CronField.** A field is a sequence of numbers and symbols (`*`, `?`, `,`, `/`,
`-`, L, W), and all other text is the symbol Other, which is what `strconv.Atoi`
makes of it. So `1-5/2` is `<<1, Dash, 5, Slash, 2>>`, and every malformed mix of
the symbols can be written, too. `Part` has the tests in the code's order;
`Parts` is `strings.Split` at commas. The code tells an error from an empty set
of values, but newCronParser refuses both, so `{}` stands for both. `Meanings`
is written from the documents instead: one set of texts per legal form. `Reads`
compares the two.

**CronNext.** `New` parses one source (a text and its options), `Call` is Next up
to its loop: in any location and at any time whose next second (or next minute,
without seconds) has the cursor for its local fields, before or after a
transition. A cursor of fields moves forward as in the code: an iteration
starts at the year and each `continue` is `Again`. The calendar is the real one;
only the lengths of a day, an hour and a minute are constants. Package time is
external: `Instant` is the algorithm of `time.Date` for times that do not exist
or exist twice, `MidnightDay` what `time.Date(y, m, d, 0, ...)` gives when that
midnight is missing. A location is an offset that changes at most once.
What an expression means is stated from the documentation of the fields
(`DayFits`, `Fits`, `NothingFits`), without the code's operators. So is which
field comes where (`Layout`), beside the code's `Rules`; how many fields there
are with which options is what the tests use, as the documents say otherwise
(section 5).

**ScheduleBuilder.** One builder, which the caller keeps after `Do`, and the
tasks of the scheduler, each with what the calls had asked for when it was added
(history). The twenty-odd methods that only set a field are `SetUnit` and
`SetWeekday`. `Do` is `DoAdds` or `DoFails`; both leave behind what
buildCronExpression sets on the way (`BuiltOptions`). The expression is the
sequence of fields that `fmt.Sprintf` writes, and goes through `newCronParser`. A
task keeps its parser and its location, and beside them all that the builder's
fields were, also a time that the unit ignores.
An ID is the tuple of what goes into its text: the texts differ when the tuples
do, as each unit has its own form. `tainted` (history) marks builders whose
seconds or years were set by hand or by an earlier Do.

**ConfigLoad.** A loader reads its file (`Read`, `ReadFails`) and goes through the
entries: `Lookup` is GetJob under `registryMu`, with all that follows up to
AddTask, since none of it touches shared state; `Add` is AddTask's critical
section. Between the two, and between entries, other loaders, `RegisterJob` and
`RemoveTask` may take steps. `k` counts the entries that are done. Each task
remembers the entry it came from; `seen` and `removed` (history) are what was
ever registered under a name and which IDs were removed. The scheduler is not
running, as in examples/config_file: what its run loop does with an ID is module
Scheduler, and would only add ways for a task to be gone.

## 4. The runs

All runs check deadlock unless said otherwise. Times are for two workers.

| run | states | shows |
|---|---|---|
| `scheduler` | 171 k, 35 s | TypeOK, StopQuiesces, SingleOwner, OneTaskPerID, DismissalHolds, FoundIsRemoved, NothingVanishes |
| `scheduler_live` | 11 k | StopReturns, KeepsFiring, under fairness |
| `task_queue` | 28 k | HeapOrder, EntryNamesTask, NoOrphan, TickIsExact, Implements |
| `time_wheel` | 3.5 M, 55 s | TypeOK, MapMatchesSlots, SingleCopy, SlotMatchesTime, NothingIsLost, LateByLessThanATick |
| `executor` | 331 k, 40 s | OneAttemptAtATime, RetriesAreUsedUp, ExecutionEnds, StopReturns, NoLeak, under fairness |
| `cron_next` | 926 k, 70 s | TypeOK, NextIsEarliest, RunsOnAllowedDay, EastIsLater, ParserIsSound, FieldsAreRead |
| `builder` | 1.1 M, 90 s | ScheduleIsAsAsked, NewBuilderWorks, SameIDSameLocalTimes |
| `config` | 400 k, 20 s | PrefixIsLoaded, ReloadNeedsRemoval |

`cron_next` does not check deadlock: a behaviour is one parse and one call of
Next, and stops when it returns. Nor does `executor`: a job without a timeout
that calls Stop waits for itself, which is the code's own deadlock (section 5).

Bounds, and why they are enough.

* *Scheduler.* Four addresses are `MaxHeld + MaxActive + 1`: one for each pointer
  a client may hold, one for each active task, one for the object a rescheduling
  allocates; with fewer the allocator would block steps the program can take
  (three in the live run, where `MaxActive` is 1). `MaxActive` bounds only how
  often AddTask accepts an ID again; two twins already show everything a map with
  one entry per ID can get wrong, and make a batch of two tasks. One ID is enough
  for TLC: no step of the scheduler reads anything of another ID but `wg`, the
  locks and the batch, which twins share as two IDs would, and the theorems hold
  for any number of IDs. Three clients are one in the middle of a removal, one of
  an addition and one that waits for both. Two loop names: the second is there
  should a second run loop ever be possible. `Finite` and `Panicky` put a schedule
  that ends and a job that panics into the safety run. With one ID these are
  reasons for a task to go after any job, so that there NothingVanishes says
  something of the steps up to the job and of the rescheduling; the theorem
  NoTaskIsLost covers IDs whose schedule goes on and whose job returns. The live
  run leaves both out and has no symmetry, which is not sound for liveness.
* *TaskQueue.* Six slots are three levels with a last level that is not full:
  inner nodes with two children, one and none, and `heap.Remove` from the middle
  that must go up. The times repeat, one ID is shared, and Tick is called with
  every instant before, at and after them.
* *TimeWheel.* Two levels of two slots; the tick of level 0 is two units of the
  clock so that times fall between ticks. Eight units are two turns of level 0
  at any pace, and let Tick come late by more than a whole turn of it. Two tasks
  share an ID and lie in different levels; the third has another ID.
* *Executor.* Three attempts: two abandoned and one under way. Two retries: a
  first, a middle and a last attempt. `Fire` waits for a free name, so no attempt
  is ever refused in the middle of an execution.
* *CronNext.* A day of four hours of two minutes of two seconds keeps every
  carry and makes an offset of one hour a quarter of a day. The starts are the
  first second, the last and two others of the last days of February in and out
  of leap years, of a year and of a month, and of the day of the transitions, on
  both sides of the gap and of the fold. The years
  include 2096-2101, where 2100 is no leap year, so that a 29 February is out of
  reach. One expression fits no day in any month and runs into the bound of 25
  iterations, which is the code's own (`MaxIterations`), as are the five years.

* *CronField* (in `cron_next`). Every text of up to four tokens and every one of
  five of the common tokens, in the hours, and in the days of the month and of the
  week, the two that know letters; and macros and expressions of zero to eight
  fields under all four options. Five tokens are the longest legal form,
  `a-b/n`, and one more symbol around each shorter one. The numbers 0, 1, 2,
  6, 31 and 32 are inside, at and outside the limits.
* *ScheduleBuilder.* A day of four hours of six minutes of six seconds, so that an
  interval of 2 divides the unit above, 4 does not, 7 is beyond it, and 0 is
  refused. Times without and with seconds, one out of range, one that is no time.
  One task at a time: the properties relate a task to the builder, not to
  another task; Remove makes room for the next. Two locations, which nothing but
  the comparison of one with another tells apart, hence their symmetry.
* *ConfigLoad.* Two loaders; files of up to three entries with one bad entry of
  each kind in the middle, so that there is a prefix to keep and a rest to leave;
  one ID twice in a file and the same IDs in another order; three functions, one
  that WrapJob refuses.

## 5. Where the code and its docs disagree

Each is a run whose single property TLC finds violated; `PROJECT.json` quotes
the lines.

* `scheduler_true`: RemoveTask can return true for a task that goes on, because
  the run loop's Tick does not take `taskMu`. FoundIsRemoved and DismissalHolds
  are what does hold.
* `wheel_dropped`: AddTask of the wheel drops a task whose distance lies between
  the coverage of the last level and the sum of all (with the defaults, just
  above one hour, and again just above 60 hours).
* `wheel_late`: a task of a higher level runs up to one tick of that level late,
  an hour for tasks added more than an hour ahead. LateByLessThanATick is the
  bound that does hold.
* `cron_zone`: west of Greenwich Next may return a time before its argument in
  the night of a transition, and the task is then due again at once. EastIsLater
  is the half that holds.

Met while reading, and not turned into a run:

* Stop does not wait for abandoned attempts (docs/api-reference.md:136 says it
  waits for running tasks). `executor` shows it: StopReturns holds although jobs
  hang, and its mutant `StopEndOfAll`, which waits for them, breaks it.
* AddTask accepts an ID while its task is executing (`twinned`), although
  duplicates are said to be refused (scheduler_lifecycle_test.go:192).
* The comment at task_timewheel.go:305-308 says that tasks in skipped slots are
  all overdue; a task one whole turn ahead of a wrapped level is not, and
  redistributeTasks is right to look again.
* A panic without a timeout ends the task for good, one with a timeout is an
  error that is retried (scheduler.go:231, 255).
* A task executing when Stop is called is gone after the next Start
  (scheduler_lifecycle_test.go:36 says "by design").
* With a timeout, the job that is given up goes on (a func() error never sees the
  cancelled context), and the next execution of the task calls Execute beside it,
  although scheduler_execution_test.go:205 and concurrent_stress_test.go:532 speak
  of preventing concurrent execution and docs/getting-started.md:281 of cancelling
  the task. OneAttemptAtATime is the half that holds: within one execution
  attempts never overlap.
* A job without a timeout that calls Stop waits in `wg.Wait` for its own
  goroutine, with `mu` held: every later Start or Stop hangs, too. With a timeout
  its attempt is given up and Stop returns (StopReturns of `executor`).
* The builder: docs/getting-started.md lists `Every(2).Weeks()`, which
  schedule_builder.go:254 refuses; `Every(2).Monday()` ignores the 2, and At is
  ignored for seconds, minutes and hours; an interval that does not divide the
  unit above starts anew with it (ScheduleIsAsAsked excludes those); WithYears
  never works on a builder, as no expression it builds has seven fields, nor
  WithSeconds on minutes, hours, or times without seconds; a builder used for
  seconds or for a time with seconds keeps WithSeconds and is then refused
  (`tainted`).
* The number of fields: docs/getting-started.md:202 and :314,
  docs/api-reference.md:203 and README.md:118 say seven fields for WithYears, and
  docs/getting-started.md:317 has a six-field example with WithSeconds and
  WithYears. The code (cron_parser.go:130-138) refuses both: it wants six fields
  with one of the options and seven with both, as the tests have it
  (cron_parser_semantic_test.go:112, boundary_test.go:374). FieldsAreRead is about
  the tests' numbers.
* generateTaskID leaves out the location (schedule_builder.go:346) that Do passes
  on (:204): every day at 10:00 is one ID in New York and in London, and the second
  Do is refused as a duplicate although its schedule is another.
  SameIDSameLocalTimes says that nothing else is left out.
* Macros have five fields and are refused with WithSeconds or WithYears; an
  unknown macro is refused for its number of fields.
* Fields: nL as a day of the month is L, and 0L as a weekday is 0, every Sunday,
  since -0 is 0. `*/1` is not a wildcard where `*` is, so that with a weekday
  beside it every day fits.
* LoadTasksFromConfig leaves what it added before an error, and says so nowhere;
  loading the corrected file then fails on the first ID (ReloadNeedsRemoval).

## 6. Fairness

Safety runs assume none. `scheduler_live` assumes: a goroutine that can go on
does (weak fairness of its steps); a job returns or panics; the clock and the
ticker go on; a goroutine that waits for `taskMu` gets it if the lock is free
again and again (strong fairness of `GoLock` and `RemoveCheck`: sync.Mutex hands
over to a waiter that has starved for a millisecond); a loop whose `stopChan`
stays closed leaves (strong fairness of `LoopExit`: `select` picks among ready
cases at random). Nothing is assumed of clients beyond finishing a call they
have begun, nor of anyone calling Start or Stop. KeepsFiring excuses IDs whose
schedule ends or whose job panics, a stopped scheduler, and a client that is
inside RemoveTask of the ID.

`executor` assumes that goroutines go on and timers fire, and **nothing of the
job**: Execute need not return, and a job may call Stop or not, and wait for `mu`
as long as it likes. A goroutine goes on only where it can: the fairness of `Send`
says nothing of one whose channel has no room, and NoLeak fails if the channel has
no buffer (`Unbuffered`). ExecutionEnds and StopReturns are stated for a
task with a timeout, the only ones for which the code promises anything.

## 7. The proofs

The proofs hold for every value of the constants that satisfies the named
assumption of the module: `TaskAssumption`, `SchedulerAssumption` (task objects
and loops are finitely many, as `wg` counts them), `QueueAssumption`,
`WheelAssumption` (a slot of a level spans a whole turn of the level below, as
expandLevelLocked makes it), `ExecutorAssumption`, `ClockAssumption` (CronField),
`SymbolAssumption` (CronField: the symbols of a field differ from each other and
from numbers), `ParserAssumption` (CronField: the answer to a refused expression
is no parser), `SourceAssumption` (CronNext: the texts are sequences of tokens,
the options Boolean), `SearchAssumption` (CronNext: starts are valid dates,
offsets are less than a day), `BuilderAssumption`, `ConfigAssumption`. TLC
evaluates each of them in the runs.

* **Scheduler_proofs**, first layer `Inv1`. StopQuiesces is not inductive: Stop
  learns that everything is gone from `wg` alone. The invariant ties `wg` to the
  number of loops and goroutines (`CountInv`), says that only live loops have a
  batch (`LoopInv`), and that an object no goroutine runs is not busy (`OwnInv`).
  From it: TypeCorrect, StopIsComplete, OneRunLoop, OneOwner.
* Second layer `Inv2`. OneTaskPerID needs that nobody adds the ID between
  TaskExist and AddTask: `MutexInv` (taskMu has one holder), `IndexInv` (the map
  names tasks of the right ID), `ClaimInv` (the client in between still finds the
  storage without the ID, or has made a twin). From it: OneTask, RemovalWins (an
  action property: every step that could make a task of a dismissed ID active
  starts from a task that carries Removed), FoundTaskIsGone, and NoTaskIsLost
  (`ActiveGoesOn`: an active task that is not the last one's victim is active
  after the step, as itself or as the object that replaces it).
* **TaskQueue_proofs**. While an element is sifted the order has a hole at `pos`;
  `OrderInv` says that all other slots are in order and that the children of the
  hole are in order with its parent, in either direction of sifting. `EntryInv`
  is the map at every step, `PoppedInv` what Tick has taken. From `Inv`:
  TypeCorrect, HeapIsOrdered, EntriesAreRight, NoTaskIsOrphaned, TickIsComplete.
  The last needs that the root is the earliest of all, by strong induction over
  the slots (`RootIsEarliest`), and `EffectInv` (below): what Tick has popped and
  what is left are together what it found (`TickSplits`).
* **TaskQueue_proofs**, the refinement. HeapImplementsStorage: `Implements` for heaps of any
  size. From outside `mu` nothing moves until the lock is released, so the last
  step of an operation has to be one step of TaskStorage from the state before the
  first. `EffectInv` says what the operation under way has done to the tasks and
  the entries it found (`Adding`, `Removing`, `Ticking`); sifting does nothing to
  either, as a swap keeps the set of tasks and which IDs have an entry
  (`SwapKeeps`), though not which task an entry names: that is why TaskStorage
  leaves it open.
* **TimeWheel_proofs**. The map and slot properties are inductive together with
  `Control` (what Tick and the client may hold at each point). The heart is
  `TicksRemain`: for a level that turns by n ticks, a task more than n ticks
  ahead is exactly n ticks closer and its slot does not change; all others are
  taken out (`Staying`). From `Inv`: TypeCorrect, MapsAndListsAgree, OneCopy,
  SlotsAreRight, TasksAreKept.
* **TimeWheel_proofs**, lateness. LateByLessThanATick compares a stored task with
  the clock of the last Tick, while the placing of a task reads a clock that may
  be older; `LateInv` adds that those clocks are never ahead of the wheel's, and
  that what AddTask has placed since is in `fresh`. A task that a turn leaves where
  it is was more than that turn ahead, so it cannot be overdue by a tick
  (`StayingIsInTime`).
* **Executor_proofs**. Where the loop stands tells how many attempts there have
  been (`TriesInv`) and which can be under way (`OwnInv`): none before an attempt,
  the one waited for during it, one abandoned after it. From `Inv`: TypeCorrect,
  OneAttempt, RetriesAreExact; and AnswersFindRoom, the safety half of NoLeak, from
  `RoomInv`: the buffer of an attempt that has not sent is empty.

* **CronField_proofs**. ParsersAreSound goes down the parse: a range is within the
  limits of its field, what a step goes through is a part of that, a part adds the
  letters' values, a list is their union; so what newCronParser accepts has values
  in each field, within its limits. FieldIsRead says more, for every text: parseField
  refuses it exactly when it is not `Legal`, and otherwise its values are exactly
  those that some part of the list means. It goes both ways through the three forms
  of a part; a list is cut at its commas (`CutAt`: the text between two adjacent
  commas is a part, and each part is one of those), and a loop `i += step` reaches
  the members of an arithmetic progression (`EveryNth`).
* **CronNext_proofs**, the fields. The search is only ever given a parser as
  ParsersAreSound has it (NextIsGivenSoundParser), and the invariant `Judged` (what
  the parse has said of the text at hand) gives FieldsMeanWhatIsDocumented: the
  code's Rules are the fields of `Layout` (`LayoutIsRules`), and newCronParser
  stores the values of each under its name (`FieldIsKept`).
* **CronNext_proofs**, the search. Cursors are ordered like dates (`AtLeast`, the
  lexicographic order of the fields), and `SecondsInOrder` shows that for valid
  ones it is the order of the seconds they stand for. The invariant `SearchInv`
  says that the cursor has moved on from its start and, with a fixed offset, past
  no cursor that suits (`Forward`), that the fields before the one the code is at
  have allowed values (`Decided`), that it stands at second 0 where there are no
  seconds (`Minutely`), and what each return knows (`Returned`). Each way a field
  moves on is one of `Skips`, a move to the next allowed value over values that
  are not allowed. From it: SearchTyped; ResultIsLater; ResultIsOnAllowedDay;
  and EarliestIsFound, for which `DaysAgree` shows that the code's isDayValid and
  what the documents say of a day's fields are one, for every year and month. Its
  hypothesis is an offset of whole minutes (`WholeMinutes`; the code truncates t
  to minutes of absolute time, so that otherwise the cursor is not at second 0).
* **CronNext_proofs**, the bound on the iterations (cron_parser.go:389), which
  ends a search with the zero time. EarliestIsFound needs that nothing is left to
  find then, and the invariant `Pace` counts: a carry out of the seconds, the
  minutes and the hours happens once each, since what is below a carry starts
  again from values it may have (`Settled`); from the fourth carry on only whole
  months are passed over, and a whole month without an allowed day has less than
  31 days (`EmptyMonths`). So if some month has an allowed day in every year, it is
  found by the next allowed year, within 15 iterations (`FoundBy`); if February is
  the only month, a year costs two (`EveryFebruary`); otherwise no month ever has
  an allowed day and the zero time is right (`ThreeKinds`). The theorem's premise
  `EnoughIterations`, more than 15 and more than 2 * Years + 5, holds of the code's
  25 iterations and 5 years, with room.
* **ScheduleBuilder_proofs**. `TaskInv` says what a task is: its parser is
  `newCronParser` of the expression its own unit, interval, weekday and time build,
  with seconds where that expression has them, and its interval is positive. Two
  of one generated ID agree in all that the expression depends on:
  IDLeavesOutLocationAlone.
* **ScheduleBuilder_proofs**, meaning. TasksRunWhenAsked: the seconds at which that
  parser fires, and its days, are those that the calls asked for, for every weekday
  and time and for every interval that divides its cycle (others are a finding of
  section 5). Each unit is one lemma (`EverySecondsRun`, ...,
  `DaysRun`); under them lies FieldIsRead on the texts the builder writes, and the
  hour, minute and second of a second of the day as its digits (`HasDigits`).
  NewBuildersWork: a builder whose options nobody has touched gives a parser
  whenever its settings are complete; `OptionsInv` says which options can be set.
* **ConfigLoad_proofs**. The invariant is about the entries that are done: each
  has its task, or its ID was removed, and a task's origin is a done entry that it
  is the task of. A loader between Lookup and Add holds a function that was
  registered (`fn`), and the entry it will add is complete.

Only model-checked: the liveness properties (StopReturns and KeepsFiring of
Scheduler, ExecutionEnds, StopReturns and NoLeak of Executor), which are beyond
the prover.

## 8. Not covered

* The scheduler over the wheel. The interface is the same, but the wheel's
  operations are not atomic and it replaces a task of the same ID.
* A location with more than one transition within a call, or an offset that is
  not whole minutes.
* The digits of numbers: `+5`, `007`, times like `9:5` and `09:05` that are one
  time with two IDs, and steps near the largest int, where `i += step` overflows.
* Two builders used at once: a builder is not meant to be shared.
* LoadTasksFromConfig on a running scheduler, jobs that call Start, AddTask or
  RemoveTask (the first waits for `mu` like any client, the others are clients of
  Scheduler).
* The syntax of YAML and JSON, GetTaskInfo, WithLogger, logging, formatting,
  benchmarks, examples.

## 9. Plan

Done, in this order because what the scheduler does concurrently matters most:
Scheduler over TaskStorage with proofs; TaskQueue with proofs;
TimeWheel with proofs; Executor with proofs; CronNext; CronField with its parser
proved sound; ScheduleBuilder and ConfigLoad with proofs; in the last pass
NothingVanishes for Scheduler, jobs that call Stop for Executor, the proof
that TaskQueue implements TaskStorage, and the proofs about the search of Next;
then the proofs that were left: how late the wheel is, what a field means, that a
schedule runs when its builder was asked to, and that the bound on the iterations
of Next skips nothing. Every invariant and action property of a passing run is a
theorem now.

Next, modelling: which days a missing midnight makes Next skip; the scheduler
over an abstraction of the wheel that shows what its non-atomic Tick costs.

Next, proving: Executor implements the goroutine of Scheduler, an abstract
execution that `JobReturns` and `JobPanics` state, as a step refinement.
