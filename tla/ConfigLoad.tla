------------------------------ MODULE ConfigLoad ------------------------------
(***************************************************************************)
(* Tasks from a file: goroutines that read one (config_loader.go) and hand *)
(* it to LoadTasksFromConfig (scheduler.go:74), which looks each entry's   *)
(* function up in the registry (job_registry.go), wraps it as a job        *)
(* (job_wrapper.go) and calls AddTask.  Meanwhile others register          *)
(* functions and remove tasks.  The scheduler is not started yet, as in    *)
(* examples/config_file: what a started one does is module Scheduler.      *)
(*                                                                         *)
(* A function of an entry is looked up in one step, under registryMu; what *)
(* follows up to taskMu touches nothing shared, and belongs to that step.  *)
(* In an entry None is a text that is missing or empty, and Other one that *)
(* is no duration or no location.                                          *)
(***************************************************************************)
EXTENDS CronField

CONSTANTS Loader,     \* goroutines that load one file each
          ID, Name,   \* of tasks and of functions
          Fn,         \* what is registered as a function
          Wrappable,  \* func() error, func(context.Context) error
          Location,
          Local,      \* the location of a task that names none
          Expr,       \* expressions of entries
          Unsatisfiable,  \* those that newCronParser accepts and Next ends with no time for
          Config,     \* what a file may hold
          None

Entry == [id : ID \cup {None}, expr : Expr \cup {None}, func : Name \cup {None},
          timeout : Int \cup {None, Other}, retry : Int,
          location : Location \cup {None, Other},
          enableSeconds : BOOLEAN, enableYears : BOOLEAN]

ASSUME ConfigAssumption == /\ \A c \in Config : c \in Seq(Entry)
                           /\ None \notin ID \cup Name \cup Fn \cup Expr
                           /\ Wrappable \subseteq Fn

VARIABLES registry,  \* jobRegistry
          tasks,     \* the storage
          at,        \* where each loader is
          config,    \* the tasks of its file
          k,         \* the number of the entry it has come to
          fn,        \* the function found for that entry
          seen,      \* history: all that was ever registered under a name
          removed    \* history: the IDs of tasks that were removed

vars == <<registry, tasks, at, config, k, fn, seen, removed>>

Init ==
    /\ registry \in [Name -> Fn \cup {None}]
    /\ seen = [n \in Name |-> {registry[n]}]
    /\ tasks = {}
    /\ at = [l \in Loader |-> "read"]
    /\ config = [l \in Loader |-> <<>>]
    /\ k = [l \in Loader |-> 1]
    /\ fn = [l \in Loader |-> None]
    /\ removed = {}

Goto(l, place) == at' = [at EXCEPT ![l] = place]

-----------------------------------------------------------------------------
\* LoadFromYAML, LoadFromJSON.
Read(l) ==
    /\ at[l] = "read"
    /\ \E c \in Config : config' = [config EXCEPT ![l] = c]
    /\ Goto(l, "lookup")
    /\ UNCHANGED <<registry, tasks, k, fn, seen, removed>>

\* There is no such file, or it does not hold a Config.
ReadFails(l) ==
    /\ at[l] = "read"
    /\ Goto(l, "unread")
    /\ UNCHANGED <<registry, tasks, config, k, fn, seen, removed>>

entry(l) == config[l][k[l]]
HasEntry(l) == k[l] \in DOMAIN config[l]

Incomplete(e) == None \in {e.id, e.expr, e.func}

Parser(e) == newCronParser(e.expr, [enableSeconds |-> e.enableSeconds,
                                    enableYears |-> e.enableYears])

\* The timeout, the location, WrapJob, newCronParser, the first run time.
Unusable(e, f) ==
    \/ e.timeout = Other \/ e.location = Other
    \/ f \notin Wrappable
    \/ Parser(e) = Refused \/ e.expr \in Unsatisfiable

\* GetJob has a function for a complete entry, and all else can be used, too.
Found(e) == /\ ~Incomplete(e)
            /\ registry[e.func] # None
            /\ ~Unusable(e, registry[e.func])

\* Mutant of LookupFails: continue with the next entry.
LookupSkips(l) ==
    /\ at[l] = "lookup" /\ HasEntry(l)
    /\ ~Found(entry(l))
    /\ k' = [k EXCEPT ![l] = @ + 1]
    /\ UNCHANGED <<registry, tasks, at, config, fn, seen, removed>>

\* return fmt.Errorf(...)
LookupFails(l) ==
    /\ at[l] = "lookup" /\ HasEntry(l)
    /\ ~Found(entry(l))
    /\ Goto(l, "error")
    /\ UNCHANGED <<registry, tasks, config, k, fn, seen, removed>>

Lookup(l) ==
    /\ at[l] = "lookup" /\ HasEntry(l)
    /\ Found(entry(l))
    /\ fn' = [fn EXCEPT ![l] = registry[entry(l).func]]
    /\ Goto(l, "add")
    /\ UNCHANGED <<registry, tasks, config, k, seen, removed>>

\* The task of an entry; options that are not set leave the defaults.
TaskOf(e, f, origin) ==
    [id |-> e.id, fn |-> f, origin |-> origin, parser |-> Parser(e),
     timeout |-> IF e.timeout = None \/ e.timeout < 0 THEN 0 ELSE e.timeout,
     retry |-> IF e.retry > 0 THEN e.retry ELSE 0,
     location |-> IF e.location = None THEN Local ELSE e.location]

TaskExist(i) == \E t \in tasks : t.id = i

\* Mutant of Add: the ID is not looked up.
AddUnchecked(l) ==
    /\ at[l] = "add"
    /\ tasks' = tasks \cup {TaskOf(entry(l), fn[l], <<l, k[l]>>)}
    /\ k' = [k EXCEPT ![l] = @ + 1]
    /\ Goto(l, "lookup")
    /\ UNCHANGED <<registry, config, fn, seen, removed>>

\* AddTask, under taskMu.
Add(l) ==
    /\ at[l] = "add"
    /\ ~TaskExist(entry(l).id)
    /\ tasks' = tasks \cup {TaskOf(entry(l), fn[l], <<l, k[l]>>)}
    /\ k' = [k EXCEPT ![l] = @ + 1]
    /\ Goto(l, "lookup")
    /\ UNCHANGED <<registry, config, fn, seen, removed>>

\* The ID exists.
AddFails(l) ==
    /\ at[l] = "add"
    /\ TaskExist(entry(l).id)
    /\ Goto(l, "error")
    /\ UNCHANGED <<registry, tasks, config, k, fn, seen, removed>>

LoadEnds(l) ==
    /\ at[l] = "lookup" /\ ~HasEntry(l)
    /\ Goto(l, "ok")
    /\ UNCHANGED <<registry, tasks, config, k, fn, seen, removed>>

\* A name that is taken is overwritten.
RegisterJob(n, f) ==
    /\ registry' = [registry EXCEPT ![n] = f]
    /\ seen' = [seen EXCEPT ![n] = @ \cup {f}]
    /\ UNCHANGED <<tasks, at, config, k, fn, removed>>

RemoveTask(t) ==
    /\ tasks' = tasks \ {t}
    /\ removed' = removed \cup {t.id}
    /\ UNCHANGED <<registry, at, config, k, fn, seen>>

Next == \/ \E l \in Loader : \/ Read(l) \/ ReadFails(l) \/ Lookup(l) \/ LookupFails(l)
                             \/ Add(l) \/ AddFails(l) \/ LoadEnds(l)
        \/ \E n \in Name, f \in Fn : RegisterJob(n, f)
        \/ \E t \in tasks : RemoveTask(t)

Spec == Init /\ [][Next]_vars

-----------------------------------------------------------------------------
\* The registry, the loaders and the tasks keep their types.
TypeOK ==
    /\ registry \in [Name -> Fn \cup {None}]
    /\ seen \in [Name -> SUBSET (Fn \cup {None})]
    /\ at \in [Loader -> {"read", "unread", "lookup", "add", "error", "ok"}]
    /\ config \in [Loader -> Config \cup {<<>>}]
    /\ k \in [Loader -> Nat \ {0}]
    /\ fn \in [Loader -> Fn \cup {None}]
    /\ \A t \in tasks : t.id \in ID /\ t.fn \in Wrappable /\ t.parser # Refused
    /\ removed \subseteq ID

\* The j-th entry of a file is loaded: its task is what it says, with a function
\* that was registered under its name, or has been removed since.
Loaded(l, j) ==
    LET e == config[l][j] IN
    \/ e.id \in removed
    \/ \E f \in seen[e.func] \cap Wrappable : TaskOf(e, f, <<l, j>>) \in tasks

\* Why an entry may have been refused: for what it says, for a function that
\* was registered or missing once, or for a task that has its ID or had it.
MayFail(e) ==
    \/ Incomplete(e)
    \/ \E f \in seen[e.func] : f = None \/ Unusable(e, f)
    \/ TaskExist(e.id) \/ e.id \in removed

\* A load adds the entries of its file in their order up to the first that is
\* refused, and those stay although it returns an error (scheduler.go:114): all
\* before the k-th are there and none from it on, whatever another load, a
\* registration or a removal does in between; ok means all of them, and an
\* error has its cause in the k-th.
PrefixIsLoaded ==
    \A l \in Loader :
        /\ \A j \in DOMAIN config[l] :
              IF j < k[l] THEN Loaded(l, j) ELSE \A t \in tasks : t.origin # <<l, j>>
        /\ at[l] = "ok" => ~HasEntry(l)
        /\ at[l] = "error" => HasEntry(l) /\ MayFail(entry(l))

\* An ID is loaded by one entry of one file: a second load of it, at the same
\* time or after the first, succeeds only if its task has been removed, so a
\* load that failed half way cannot simply be repeated.
ReloadNeedsRemoval ==
    \A l, m \in Loader : \A i \in DOMAIN config[l], j \in DOMAIN config[m] :
        /\ i < k[l] /\ j < k[m]
        /\ config[l][i].id = config[m][j].id
        /\ <<l, i>> # <<m, j>>
        => config[l][i].id \in removed
=============================================================================
