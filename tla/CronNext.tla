------------------------------- MODULE CronNext -------------------------------
(***************************************************************************)
(* An expression from its text to a time: newCronParser, which is module   *)
(* CronField, and CronParser.Next (cron_parser.go:372), the search for the *)
(* next time that the expression allows.  Next moves a cursor of calendar  *)
(* fields forward, field by field; a field that has no allowed value left  *)
(* carries into the field above it and the next iteration begins.  A       *)
(* behaviour of this module is what AddTask does first: one call of        *)
(* newCronParser and, unless that refuses, one of Next.                    *)
(*                                                                         *)
(* Years, months, days and weekdays are those of the Gregorian calendar.   *)
(* The length of a day is a constant.  An instant is a number of seconds;  *)
(* a location is an offset that changes at most once, which is what Next   *)
(* sees of a daylight saving rule within one call.                         *)
(***************************************************************************)
EXTENDS CronField, FiniteSetsExt

CONSTANTS Source,        \* arguments of newCronParser: a text and options
          Zone,          \* locations: offsets before and after the instant at
          Start,         \* local times at which the search begins
          MaxIterations, \* the bound of the loop
          Years,         \* how many years Next looks ahead
          None           \* no value yet, or no more

Hour == MinutesPerHour * SecondsPerMinute
Day == HoursPerDay * Hour

VARIABLES source,     \* the text and the options, until Next is called
          expr,       \* the CronParser
          zone,       \* its location
          from,       \* t, the argument of Next
          at,         \* the step that comes next: a field, or a call
          cursor,     \* the fields year, month, ... second
          maxYear,
          iteration,
          result      \* the instant returned, Zero for time.Time{}, or None

vars == <<source, expr, zone, from, at, cursor, maxYear, iteration, result>>
parser == <<source, expr, zone, from, maxYear>>

Zero == -1

-----------------------------------------------------------------------------
(***************************************************************************)
(* The calendar, and package time.                                         *)
(***************************************************************************)
Leap(y) == y % 4 = 0 /\ (y % 100 # 0 \/ y % 400 = 0)

daysInMonth(y, m) == CASE m \in {4, 6, 9, 11} -> 30
                       [] m = 2 -> IF Leap(y) THEN 29 ELSE 28
                       [] OTHER -> 31

DaysBefore == <<0, 31, 59, 90, 120, 151, 181, 212, 243, 273, 304, 334>>

\* The day of a date, counted from the beginning of the year 1.
DayNumber(y, m, d) ==
    365 * (y - 1) + (y - 1) \div 4 - (y - 1) \div 100 + (y - 1) \div 400
    + DaysBefore[m] + (IF m > 2 /\ Leap(y) THEN 1 ELSE 0) + d

\* Sunday is 0.
Weekday(n) == n % 7

Offset(x) == IF x < zone.at THEN zone.before ELSE zone.after
Local(x) == x + Offset(x)

\* time.Date, of a number of local seconds: the offset at that number, taken
\* for an instant, is tried first, and kept if it is in force at the result.
Instant(n) ==
    LET x == n - Offset(n) IN
    IF Offset(n) = 0 \/ (x < zone.at <=> n < zone.at) THEN x ELSE n - Offset(x)

Clock(c) == c.hour * Hour + c.minute * SecondsPerMinute + c.second
LocalSecond(c) == DayNumber(c.year, c.month, c.day) * Day + Clock(c)
Date(c) == Instant(LocalSecond(c))

\* The day that time.Date(y, m, d, 0, ...) falls on.
MidnightDay(y, m, d) == Local(Instant(DayNumber(y, m, d) * Day)) \div Day

\* Mutant of After: the present second or minute will do.
AfterNow(x) == IF expr.enableSeconds
               THEN x
               ELSE (x \div SecondsPerMinute) * SecondsPerMinute

\* An expression with seconds is looked up from the next second on, any other
\* from the next minute on.
After(x) == IF expr.enableSeconds
            THEN x + 1
            ELSE (x \div SecondsPerMinute + 1) * SecondsPerMinute

ASSUME SourceAssumption ==
    \A x \in Source : /\ x.text.fields \in Seq(Seq(Token))
                      /\ x.opts.enableSeconds \in BOOLEAN /\ x.opts.enableYears \in BOOLEAN

ASSUME SearchAssumption ==
    /\ Zone \subseteq [at : Int, before : (1 - Day)..(Day - 1), after : (1 - Day)..(Day - 1)]
    /\ Start \subseteq [year : Nat \ {0}, month : 1..12, day : 1..31, hour : 0..(HoursPerDay - 1),
                       minute : 0..(MinutesPerHour - 1), second : 0..(SecondsPerMinute - 1)]
    /\ \A d \in Start : d.day <= daysInMonth(d.year, d.month)
    /\ MaxIterations \in Nat /\ Years \in Nat

-----------------------------------------------------------------------------
(***************************************************************************)
(* Which days an expression allows.                                        *)
(***************************************************************************)
\* time.Date(y, m + 1, 0, ..., loc).Day()
lastDay(y, m) ==
    LET n == daysInMonth(y, m) IN
    IF MidnightDay(y, m, n) = DayNumber(y, m, n) THEN n ELSE n - 1

\* Mutant of findNearestWeekday: a Sunday always moves on to Monday.
NearestOnwards(y, m, target) ==
    LET w == Weekday(MidnightDay(y, m, target)) IN
    CASE target > lastDay(y, m) -> -1
      [] target <= lastDay(y, m) /\ w = 6 -> IF target > 1 THEN target - 1 ELSE target + 2
      [] target <= lastDay(y, m) /\ w = 0 -> target + 1
      [] OTHER -> target

\* The day from Monday to Friday next to target in its month.
findNearestWeekday(y, m, target) ==
    LET w == Weekday(MidnightDay(y, m, target)) IN
    CASE target > lastDay(y, m) -> -1
      [] target <= lastDay(y, m) /\ w = 6 -> IF target > 1 THEN target - 1 ELSE target + 2
      [] target <= lastDay(y, m) /\ w = 0 ->
            IF target < lastDay(y, m) THEN target + 1 ELSE target - 2
      [] OTHER -> target

findLastWeekdayOfMonth(y, m, w) ==
    Max({d \in 1..lastDay(y, m) : Weekday(MidnightDay(y, m, d)) = w})

\* A day of the month is 0 for L and -d for dW.
isDayOfMonthMatch(y, m, d) ==
    \E x \in expr.dayOfMonth :
        \/ x = 0 /\ d = daysInMonth(y, m)
        \/ x < 0 /\ d = findNearestWeekday(y, m, -x)
        \/ x > 0 /\ d = x

\* A day of the week is -w for wL.
isDayOfWeekMatch(y, m, d) ==
    \E w \in expr.dayOfWeek :
        \/ w < 0 /\ d = findLastWeekdayOfMonth(y, m, -w)
        \/ w >= 0 /\ Weekday(MidnightDay(y, m, d)) = w

isDayValid(y, m, d) ==
    \/ expr.dayOfMonthWildcard /\ expr.dayOfWeekWildcard
    \/ ~expr.dayOfMonthWildcard /\ isDayOfMonthMatch(y, m, d)
    \/ ~expr.dayOfWeekWildcard /\ isDayOfWeekMatch(y, m, d)

ValidDays == {d \in cursor.day..daysInMonth(cursor.year, cursor.month) :
                 isDayValid(cursor.year, cursor.month, d)}

-----------------------------------------------------------------------------
(***************************************************************************)
(* The search.                                                             *)
(***************************************************************************)
First == [month |-> Min(expr.months), day |-> 1,
          hour |-> Min(expr.hours), minute |-> Min(expr.minutes),
          second |-> IF expr.enableSeconds THEN Min(expr.seconds) ELSE 0]

\* The fields that are smaller than one.
Below == [year |-> {"month", "day", "hour", "minute", "second"},
          month |-> {"day", "hour", "minute", "second"},
          day |-> {"hour", "minute", "second"},
          hour |-> {"minute", "second"},
          minute |-> {"second"},
          second |-> {}]

\* Mutant of Moved: the fields below keep their values.
MovedAlone(f, v) == [cursor EXCEPT ![f] = v]

\* The cursor with another value in a field and the first ones below it.
Moved(f, v) == [g \in DOMAIN cursor |->
                   IF g = f THEN v ELSE IF g \in Below[f] THEN First[g] ELSE cursor[g]]

\* Mutant of NextMonth: a thirteenth month.
NextMonthOnwards == Moved("month", cursor.month + 1)

NextMonth == IF cursor.month = 12
             THEN [Moved("year", cursor.year + 1) EXCEPT !.month = 1]
             ELSE Moved("month", cursor.month + 1)

Init ==
    /\ source \in Source
    /\ at = "parse"
    /\ expr = None /\ zone = None /\ from = None /\ cursor = None
    /\ maxYear = None /\ iteration = 0 /\ result = None

New ==
    /\ at = "parse"
    /\ expr' = newCronParser(source.text, source.opts)
    /\ at' = IF expr' = Refused THEN "refused" ELSE "call"
    /\ UNCHANGED <<source, zone, from, cursor, maxYear, iteration, result>>

\* Next up to its loop, in any location and at any time: the second or minute
\* that follows t has the cursor for its fields there.
Call ==
    /\ at = "call"
    /\ UNCHANGED <<expr, iteration, result>>
    /\ zone' \in Zone /\ cursor' \in Start
    /\ \E offset \in {zone'.before, zone'.after} :
          LET x == LocalSecond(cursor') - offset IN from' \in (x - SecondsPerMinute)..x
    /\ Local(After(from))' = LocalSecond(cursor')
    /\ maxYear' = cursor'.year + Years
    /\ source' = None
    /\ at' = "year"

Return(x) == /\ result' = x
             /\ UNCHANGED <<parser, at, cursor, iteration>>

\* continue
Again(c) == /\ cursor' = c
            /\ at' = "year" /\ iteration' = iteration + 1
            /\ UNCHANGED <<parser, result>>

\* On to the next field, with the least of the values for this one.
Seek(f, values, next) ==
    /\ cursor' = IF cursor[f] \in values THEN cursor ELSE Moved(f, Min(values))
    /\ at' = next
    /\ UNCHANGED <<parser, iteration, result>>

Searching(f) == result = None /\ at = f

FromNow(values, f) == {v \in values : v >= cursor[f]}

Exhausted == /\ Searching("year") /\ iteration = MaxIterations
             /\ Return(Zero)

Year ==
    /\ Searching("year") /\ iteration < MaxIterations
    /\ LET years == IF expr.enableYears THEN FromNow(expr.years, "year") ELSE {cursor.year}
       IN  IF years = {} \/ Min(years) > maxYear
           THEN Return(Zero)
           ELSE Seek("year", years, "month")

Month ==
    /\ Searching("month")
    /\ LET months == FromNow(expr.months, "month") IN
       IF months = {} THEN Again(Moved("year", cursor.year + 1))
                      ELSE Seek("month", months, "day")

\* A day past the end of the month, or none that is allowed in it.
DayMissing ==
    /\ Searching("day") /\ ValidDays = {}
    /\ Again(NextMonth)

DayFound ==
    /\ Searching("day") /\ ValidDays # {}
    /\ Seek("day", ValidDays, "hour")

HourStep ==
    /\ Searching("hour")
    /\ LET hours == FromNow(expr.hours, "hour") IN
       IF hours = {} THEN Again(Moved("day", cursor.day + 1))
                     ELSE Seek("hour", hours, "minute")

MinuteStep ==
    /\ Searching("minute")
    /\ LET minutes == FromNow(expr.minutes, "minute") IN
       IF minutes = {}
       THEN Again(Moved("hour", cursor.hour + 1))
       ELSE Seek("minute", minutes, IF expr.enableSeconds THEN "second" ELSE "date")

SecondStep ==
    /\ Searching("second")
    /\ LET seconds == FromNow(expr.seconds, "second") IN
       IF seconds = {} THEN Again(Moved("minute", cursor.minute + 1))
                       ELSE Seek("second", seconds, "date")

\* Mutant of SameDay: result is not validated.
AnyDay(x) == TRUE

\* result.Year() == year && result.Month() == month && result.Day() == day
SameDay(x) == Local(x) \div Day = DayNumber(cursor.year, cursor.month, cursor.day)

DateStep ==
    /\ Searching("date")
    /\ IF SameDay(Date(cursor)) THEN Return(Date(cursor)) ELSE Again(NextMonth)

Next == New \/ Call \/ Exhausted \/ Year \/ Month \/ DayMissing \/ DayFound
        \/ HourStep \/ MinuteStep \/ SecondStep \/ DateStep

Spec == Init /\ [][Next]_vars

-----------------------------------------------------------------------------
(***************************************************************************)
(* What an expression means, from the documentation of its fields          *)
(* (docs/getting-started.md, Cron Expressions) and not from the code.      *)
(***************************************************************************)
TypeOK ==
    /\ at \in {"parse", "refused", "call"} => result = None
    /\ at \notin {"parse", "refused", "call"} =>
          /\ at \in {"year", "month", "day", "hour", "minute", "second", "date"}
          /\ iteration \in 0..MaxIterations
          /\ cursor.month \in 1..12 /\ cursor.day \in 1..32
          /\ cursor.hour \in 0..HoursPerDay
          /\ cursor.minute \in 0..MinutesPerHour
          /\ cursor.second \in 0..(SecondsPerMinute - 1)
          /\ result \in Int \cup {None}

\* The parser leaves Next what it needs, whatever the text.
ParserIsSound == at = "call" => Sound(expr)

\* The fields of an expression, from the second to the year, as the documents
\* order them; the first is there with WithSeconds, the last with WithYears.
\* How many that makes is what the tests use: six with one of the options, seven
\* with both (cron_parser_semantic_test.go:112, boundary_test.go:374).  The
\* documents say seven with WithYears alone (docs/getting-started.md:202, :314),
\* and have a six-field example with both (:317); the code refuses either.
InOrder == <<"seconds", "minutes", "hours", "dayOfMonth", "months", "dayOfWeek", "years">>

Layout(opts) == SubSeq(InOrder, IF opts.enableSeconds THEN 1 ELSE 2,
                                IF opts.enableYears THEN 7 ELSE 6)

\* A field means what the documentation says of it, an expression is refused
\* exactly if one of its fields is not legal or their number is not that of the
\* tests, and the values of each field end up as those of that field.
FieldsAreRead ==
    at \in {"refused", "call"} =>
        LET fields == Expand(source.text)
            layout == Layout(source.opts)
            values(k) == parseField(fields[k], layout[k])
        IN  /\ Len(fields) = Len(layout) =>
                  \A k \in DOMAIN fields : Reads(fields[k], layout[k])
            /\ at = "call" <=>
                  Len(fields) = Len(layout) /\ \A k \in DOMAIN fields : values(k) # {}
            /\ at = "call" => \A k \in DOMAIN layout : expr[layout[k]] = values(k)

Distance(a, b) == IF a < b THEN b - a ELSE a - b

Working(y, m, d) == Weekday(DayNumber(y, m, d)) \in 1..5

DayOfMonthFits(y, m, d) ==
    \/ d \in expr.dayOfMonth
    \/ 0 \in expr.dayOfMonth /\ d = daysInMonth(y, m)
    \/ \E target \in 1..daysInMonth(y, m) :
          /\ -target \in expr.dayOfMonth
          /\ Working(y, m, d)
          /\ \A e \in 1..daysInMonth(y, m) :
                Working(y, m, e) => Distance(d, target) <= Distance(e, target)

DayOfWeekFits(y, m, d) ==
    LET w == Weekday(DayNumber(y, m, d)) IN
    w \in expr.dayOfWeek \/ (-w \in expr.dayOfWeek /\ d + 7 > daysInMonth(y, m))

\* Both constrained: either will do.
DayFits(y, m, d) ==
    CASE expr.dayOfMonthWildcard /\ expr.dayOfWeekWildcard -> TRUE
      [] expr.dayOfMonthWildcard /\ ~expr.dayOfWeekWildcard -> DayOfWeekFits(y, m, d)
      [] ~expr.dayOfMonthWildcard /\ expr.dayOfWeekWildcard -> DayOfMonthFits(y, m, d)
      [] OTHER -> DayOfMonthFits(y, m, d) \/ DayOfWeekFits(y, m, d)

\* The seconds of a day that fit.
TimesOfDay == {h * Hour + mi * SecondsPerMinute + s :
                  h \in expr.hours, mi \in expr.minutes,
                  s \in IF expr.enableSeconds THEN expr.seconds ELSE {0}}

YearFits(y) == expr.enableYears => y \in expr.years

\* No local time from a, inclusive, to b, exclusive, fits.
NothingFits(a, b) ==
    \A y \in (a \div (366 * Day))..maxYear : YearFits(y) =>
      \A m \in expr.months : \A d \in 1..daysInMonth(y, m) :
        LET n == DayNumber(y, m, d) * Day IN
        n + Day > a /\ n < b /\ DayFits(y, m, d) =>
          \A s \in TimesOfDay : ~(a <= n + s /\ n + s < b)

Fits(x) ==
    \E y \in (maxYear - Years)..maxYear : YearFits(y) /\
      \E m \in expr.months : \E d \in 1..daysInMonth(y, m) :
        /\ DayNumber(y, m, d) = x \div Day
        /\ DayFits(y, m, d)
        /\ x % Day \in TimesOfDay

EndOfSearch == DayNumber(maxYear, 12, 31) * Day + Day

Fixed == zone.before = zone.after

\* "Next returns the next time after t that matches the cron expression"
\* (:370), in a location without transitions: it fits, it is later than t, it
\* skips nothing that fits, and the zero time is returned only if nothing fits
\* in the years that are searched: the bound on the iterations, too, ends a
\* search only if the rest of it would find nothing.
NextIsEarliest ==
    result # None /\ Fixed =>
        IF result = Zero
        THEN NothingFits(Local(from) + 1, EndOfSearch)
        ELSE /\ result > from
             /\ Fits(Local(result))
             /\ NothingFits(Local(from) + 1, Local(result))

\* Across a transition, too, a task runs on a day its expression allows:
\* where a local midnight is missing only if no weekday is asked for.
MidnightExists ==
    LET n == Local(zone.at - 1) + 1 IN
    \A x \in 0..(zone.after - zone.before) : (n + x) % Day # 0

RunsOnAllowedDay ==
    result \notin {None, Zero} =>
        LET y == cursor.year  m == cursor.month  d == Local(result) \div Day
                                                      - DayNumber(y, m, 0) IN
        (MidnightExists \/ (expr.dayOfWeekWildcard /\ \A x \in expr.dayOfMonth : x >= 0)) =>
            /\ YearFits(y) /\ m \in expr.months
            /\ d \in 1..daysInMonth(y, m) /\ DayFits(y, m, d)

\* East of Greenwich, and on it, a transition never makes Next go back.
EastIsLater ==
    result \notin {None, Zero} /\ zone.before >= 0 /\ zone.after >= 0 => result > from

\* What the code is expected to do everywhere, and does not:

\* "Next() returned time before input" (timezone_boundary_test.go:41).
NextIsLater == result \notin {None, Zero} => result > from
=============================================================================
