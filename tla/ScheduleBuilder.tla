--------------------------- MODULE ScheduleBuilder ---------------------------
(***************************************************************************)
(* The chain API (schedule_builder.go): a builder gathers what its calls   *)
(* say, in any order, and Do turns that into an expression, an ID and a    *)
(* call of AddTask.  A builder stays in the caller's hands after Do, and   *)
(* keeps what the calls, and Do itself, have left in it.                   *)
(*                                                                         *)
(* WithTimeout, WithRetry and WithLocation append options that the builder *)
(* passes on and newCronParser keeps for the task; the location stands for *)
(* the three, and is on whose clock the times are meant.  secondsEnabled   *)
(* is set exactly when the option enableSeconds is, and left out.  A time  *)
(* is the sequence of the parts between its colons, each number being      *)
(* written in one way only; <<>> is no time.                               *)
(***************************************************************************)
EXTENDS CronField

CONSTANTS Interval,  \* arguments of Every
          Weekday,   \* the weekdays whose methods are called
          Time,      \* arguments of At
          Location,  \* arguments of WithLocation, and the default
          MaxTasks   \* bound: tasks that a Do adds to

ASSUME BuilderAssumption == /\ Interval \subseteq Int
                            /\ Weekday \subseteq 0..6
                            /\ Time \subseteq Seq(Int \cup Symbol)
                            /\ Location # {}

VARIABLES unit, interval, weekday, timeSpec,  \* fields of ScheduleBuilder
          options,  \* the options gathered so far
          tainted,  \* history: WithSeconds, WithYears, or a Do that set seconds
          tasks     \* the tasks of the scheduler, each with what was asked for

builder == <<unit, interval, weekday, timeSpec, options>>
vars == <<builder, tainted, tasks>>

Unit == {"second", "minute", "hour", "day", "week", "month"}
Subday == {"second", "minute", "hour"}

Init ==
    /\ unit = "" /\ interval \in Interval /\ weekday = 0 /\ timeSpec = <<>>
    /\ \E l \in Location :
          options = [enableSeconds |-> FALSE, enableYears |-> FALSE, location |-> l]
    /\ tainted = FALSE
    /\ tasks = {}

-----------------------------------------------------------------------------
(***************************************************************************)
(* buildCronExpression and generateTaskID.                                 *)
(***************************************************************************)
\* parseTimeSpec.
TimeIsValid ==
    /\ Len(timeSpec) \in {2, 3}
    /\ \A k \in DOMAIN timeSpec :
          timeSpec[k] \in Allowed(<<"hours", "minutes", "seconds">>[k])

\* buildCronExpression returns no error.
IsBuildable ==
    /\ unit # ""
    /\ unit \in {"day", "week", "month"} => interval <= 1
    /\ unit \notin Subday /\ timeSpec # <<>> => TimeIsValid

HasSeconds == unit = "second" \/ (unit \notin Subday /\ Len(timeSpec) = 3)

\* Mutant of EveryField: an interval counts from one.
EveryFromOne == IF interval = 1 THEN Any ELSE <<1, Slash, interval>>

EveryField == IF interval = 1 THEN Any ELSE <<Star, Slash, interval>>

\* Second, minute and hour of a time, the least first; midnight without one.
Clock == IF timeSpec = <<>> THEN <<<<0>>, <<0>>>>
         ELSE [k \in DOMAIN timeSpec |-> <<timeSpec[Len(timeSpec) + 1 - k]>>]

Days == CASE unit = "day" -> <<Any, Any, Any>>
          [] unit = "week" -> <<Any, Any, <<0>>>>
          [] unit = "month" -> <<<<1>>, Any, Any>>
          [] unit = "weekday" -> <<Any, Any, <<weekday>>>>

Expression ==
    [macro |-> "",
     fields |-> CASE unit = "second" -> <<EveryField, Any, Any, Any, Any, Any>>
                  [] unit = "minute" -> <<EveryField, Any, Any, Any, Any>>
                  [] unit = "hour" -> <<<<0>>, EveryField, Any, Any, Any>>
                  [] OTHER -> Clock \o Days]

\* Mutant of BuiltOptions: without the call of WithSeconds.
BuiltUnmarked == options

\* sb.WithSeconds() inside buildCronExpression.
BuiltOptions == [options EXCEPT !.enableSeconds = @ \/ HasSeconds]

\* Mutant of generateTaskID: the time is left out.
IDWithoutTime ==
    <<unit, IF unit \in Subday THEN interval ELSE IF unit = "weekday" THEN weekday ELSE 0, <<>>>>

\* The text of an ID, by what goes into it.
generateTaskID ==
    <<unit, IF unit \in Subday THEN interval ELSE IF unit = "weekday" THEN weekday ELSE 0,
      IF unit \in Subday THEN <<>> ELSE timeSpec>>

Built == newCronParser(Expression, BuiltOptions)

-----------------------------------------------------------------------------
(***************************************************************************)
(* The calls.                                                              *)
(***************************************************************************)
\* Every: a new builder.
Every(n) ==
    /\ unit' = "" /\ interval' = n /\ weekday' = 0 /\ timeSpec' = <<>>
    /\ options' \in {[enableSeconds |-> FALSE, enableYears |-> FALSE, location |-> l] :
                        l \in Location}
    /\ tainted' = FALSE
    /\ UNCHANGED tasks

\* Second, Minutes, ... Month.
SetUnit(u) ==
    /\ unit' = u
    /\ UNCHANGED <<interval, weekday, timeSpec, options, tainted, tasks>>

\* Monday, ... Sunday.
SetWeekday(w) ==
    /\ unit' = "weekday" /\ weekday' = w
    /\ UNCHANGED <<interval, timeSpec, options, tainted, tasks>>

At(t) ==
    /\ timeSpec' = t
    /\ UNCHANGED <<unit, interval, weekday, options, tainted, tasks>>

WithLocation(l) ==
    /\ options' = [options EXCEPT !.location = l]
    /\ UNCHANGED <<unit, interval, weekday, timeSpec, tainted, tasks>>

WithSeconds ==
    /\ options' = [options EXCEPT !.enableSeconds = TRUE]
    /\ tainted' = TRUE
    /\ UNCHANGED <<unit, interval, weekday, timeSpec, tasks>>

WithYears ==
    /\ options' = [options EXCEPT !.enableYears = TRUE]
    /\ tainted' = TRUE
    /\ UNCHANGED <<unit, interval, weekday, timeSpec, tasks>>

Taken(id) == \E t \in tasks : t.id = id

\* Do whose expression is built: what that leaves in the builder.
DoBuilds ==
    /\ IsBuildable
    /\ options' = BuiltOptions
    /\ tainted' = (tainted \/ HasSeconds)
    /\ UNCHANGED <<unit, interval, weekday, timeSpec>>

\* The job is of no supported type, or AddTask refuses the expression or the
\* ID.  A Do that cannot build its expression changes nothing at all.
DoFails(id, supported) ==
    /\ DoBuilds
    /\ ~supported \/ Built = Refused \/ Taken(id)
    /\ UNCHANGED tasks

\* The parser's location is that of the options (cron_parser.go:71); the
\* builder's fields are what the task was asked for.
NewTask(id) == [id |-> id, parser |-> Built, location |-> BuiltOptions.location,
                generated |-> id = generateTaskID,
                unit |-> unit, interval |-> interval, weekday |-> weekday,
                timeSpec |-> timeSpec]

\* Everything has succeeded, the insertion included.
DoAdds(id) ==
    /\ DoBuilds
    /\ Built # Refused /\ ~Taken(id)
    /\ Cardinality(tasks) < MaxTasks
    /\ tasks' = tasks \cup {NewTask(id)}

\* RemoveTask.
Remove(t) ==
    /\ tasks' = tasks \ {t}
    /\ UNCHANGED <<builder, tainted>>

\* An ID that a caller may give: here, one that builders make, too.
Named == {<<"day", 0, <<>>>>}

Next == \/ \E n \in Interval : Every(n)
        \/ \E u \in Unit : SetUnit(u)
        \/ \E w \in Weekday : SetWeekday(w)
        \/ \E t \in Time : At(t)
        \/ \E l \in Location : WithLocation(l)
        \/ WithSeconds \/ WithYears
        \/ \E id \in Named \cup {generateTaskID} :
              DoAdds(id) \/ \E supported \in BOOLEAN : DoFails(id, supported)
        \/ \E t \in tasks : Remove(t)

Spec == Init /\ [][Next]_vars

-----------------------------------------------------------------------------
(***************************************************************************)
(* What the calls mean, from docs/getting-started.md, Chain API.           *)
(***************************************************************************)
Minute == SecondsPerMinute
Hour == MinutesPerHour * Minute
Midnights == HoursPerDay * Hour

\* The builder's fields keep their types, and every task has a parser.
TypeOK ==
    /\ unit \in Unit \cup {"", "weekday"}
    /\ interval \in Interval /\ weekday \in Weekday \cup {0}
    /\ timeSpec \in Time \cup {<<>>}
    /\ options \in [enableSeconds : BOOLEAN, enableYears : BOOLEAN, location : Location]
    /\ tainted \in BOOLEAN
    /\ \A t \in tasks : t.parser # Refused /\ t.location \in Location

\* The seconds of a day, and the days, at which a task runs.
TimesOf(p) == {h * Hour + m * Minute + s :
                  h \in p.hours, m \in p.minutes,
                  s \in IF p.enableSeconds THEN p.seconds ELSE {0}}

DaysOf(p) == {d \in (1..31) \X (0..6) :
                 CASE p.dayOfMonthWildcard -> p.dayOfWeekWildcard \/ d[2] \in p.dayOfWeek
                   [] p.dayOfWeekWildcard -> d[1] \in p.dayOfMonth
                   [] OTHER -> d[1] \in p.dayOfMonth \/ d[2] \in p.dayOfWeek}

\* A unit in seconds, and the unit above it, where cron starts to count anew.
Length == [second |-> 1, minute |-> Minute, hour |-> Hour]
Cycle == [second |-> Minute, minute |-> Hour, hour |-> Midnights]

TimesAsked(t) ==
    IF t.unit \in Subday
    THEN {x \in 0..(Midnights - 1) : x % (t.interval * Length[t.unit]) = 0}
    ELSE IF t.timeSpec = <<>> THEN {0}
    ELSE {t.timeSpec[1] * Hour + t.timeSpec[2] * Minute
          + (IF Len(t.timeSpec) = 3 THEN t.timeSpec[3] ELSE 0)}

DaysAsked(t) ==
    {d \in (1..31) \X (0..6) : /\ t.unit = "week" => d[2] = 0
                               /\ t.unit = "month" => d[1] = 1
                               /\ t.unit = "weekday" => d[2] = t.weekday}

\* A task runs at the times and on the days that the calls asked for, through
\* the text of the expression, the options and the parser: an interval, at
\* even distances round the clock.  An interval that does not divide the unit
\* above has no such expression: Do adds it all the same, to start anew with
\* every minute, hour or day (schedule_builder.go:216, :224, :231).
ScheduleIsAsAsked ==
    \A t \in tasks :
        (t.unit \in Subday => Cycle[t.unit] % (t.interval * Length[t.unit]) = 0) =>
            TimesOf(t.parser) = TimesAsked(t) /\ DaysOf(t.parser) = DaysAsked(t)

\* The expression of a builder has as many fields as its options ask for, so
\* that the parser accepts it, unless the caller has set seconds or years by
\* hand, or an earlier Do of this builder has left seconds behind (:218, :245).
NewBuilderWorks ==
    ~tainted /\ IsBuildable /\ (unit \in Subday => interval > 0) => Built # Refused

\* When a task runs, on the clock of its location.
ScheduleOf(t) == [times |-> TimesOf(t.parser), days |-> DaysOf(t.parser),
                  location |-> t.location]

\* A generated ID leaves out the location and nothing else: a Do whose ID is
\* taken by another builder's task asks for the times and days of that task,
\* though on the clock of its own location.  Two builders that differ in no
\* more than the location are two schedules with one ID, of which AddTask
\* refuses the second (schedule_builder.go:204, :346).
SameIDSameLocalTimes ==
    \A t \in tasks :
        t.generated /\ IsBuildable /\ t.id = generateTaskID /\ Built # Refused =>
            ScheduleOf(NewTask(t.id)) = [ScheduleOf(t) EXCEPT !.location = options.location]
=============================================================================
