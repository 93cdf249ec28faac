------------------------------ MODULE MCCronNext ------------------------------
(***************************************************************************)
(* Expressions, locations and times for TLC.  A day has four hours of two  *)
(* minutes of two seconds, so an offset of an hour is a quarter of a day.  *)
(***************************************************************************)
EXTENDS CronNext

CONSTANTS Free  \* the fields whose text is free, counted from 1

Text(fields) == [macro |-> "", fields |-> fields]
Options(seconds, years) == [enableSeconds |-> seconds, enableYears |-> years]

\* The day of the month and of the week: plain days, L, dW, wL, and both.
DayTexts == {<<d, Any>> : d \in {Any, <<29>>, <<31>>, <<Last>>, <<1, Near>>, <<31, Near>>,
                                <<2, Comma, 30>>}}
            \cup {<<Any, w>> : w \in {<<1>>, <<5, Last>>, <<6, Last, Comma, 0>>}}
            \cup {<<<<13>>, <<5>>>>}

SearchSources ==
    {[text |-> Text(<<mi, h, d[1], m, d[2]>>), opts |-> Options(FALSE, FALSE)] :
        d \in DayTexts, m \in {<<2>>, <<1, Comma, 6, Comma, 12>>},
        h \in {<<2>>, <<0, Comma, 3>>}, mi \in {<<1>>, Any}}
    \cup {[text |-> Text(<<s, Any, <<0>>, d[1], Any, d[2]>>), opts |-> Options(TRUE, FALSE)] :
        d \in DayTexts, s \in {<<1>>, Any}}
    \cup {[text |-> Text(<<Any, Any, d[1], <<2>>, d[2], y>>), opts |-> Options(FALSE, TRUE)] :
        d \in DayTexts, y \in {<<2024, Comma, 2028>>, <<2031>>, <<2020>>}}
    \cup {[text |-> Text(<<Any, Any, <<31>>, <<2, Comma, 4, Comma, 6, Comma, 9, Comma, 11>>, Any>>),
           opts |-> Options(FALSE, FALSE)]}  \* no day at all

\* Macros, one that does not exist, and expressions of every length, with and
\* without seconds and years.
ShapeSources ==
    {[text |-> t, opts |-> Options(s, y)] :
        s \in BOOLEAN, y \in BOOLEAN,
        t \in {[macro |-> m, fields |-> <<<<Other>>>>] :
                  m \in {"@yearly", "@annually", "@monthly", "@weekly", "@daily", "@midnight",
                         "@hourly", "@minutely", "@often"}}
              \cup {Text([k \in 1..n |-> f]) : n \in 0..8, f \in {Any, <<1>>}}}

\* Every text of up to four numbers and symbols, and of five without the rare
\* ones, in one field.  Two numbers never meet: they would be one.
Tokens(n) == IF n < 5 THEN {Star, Quest, Comma, Slash, Dash, Last, Near, Other, 0, 1, 31, 32}
                      ELSE {Star, Comma, Slash, Dash, Last, 1, 2, 6}

FreeTexts ==
    UNION {{s \in [1..n -> Tokens(n)] :
               \A k \in 1..(n - 1) : s[k] \in Symbol \/ s[k + 1] \in Symbol} : n \in 0..5}

FreeSources ==
    {[text |-> Text([<<<<0>>, <<0>>, Any, Any, Any>> EXCEPT ![k] = s]),
      opts |-> Options(FALSE, FALSE)] : k \in Free, s \in FreeTexts}

MCSource == SearchSources \cup ShapeSources \cup FreeSources

\* The first and the last second of a day, and two others, around the end of a
\* February, of a leap year and of a month, and in the night of the transitions.
MCStart ==
    {[year |-> d[1], month |-> d[2], day |-> d[3],
      hour |-> t[1], minute |-> t[2], second |-> t[3]] :
        d \in {<<2023, 2, 28>>, <<2024, 2, 29>>, <<2024, 12, 31>>, <<2096, 2, 29>>,
               <<2025, 5, 31>>, <<2025, 6, 1>>},
        t \in {<<0, 0, 0>>, <<1, 0, 0>>, <<2, 1, 0>>, <<3, 1, 1>>}}

\* UTC, a fixed location west of it, and locations that change in the night
\* of 2025-06-01: by an hour, west and east, at two and at midnight.
Change(before, after, hour) ==
    [at |-> DayNumber(2025, 6, 1) * Day + hour * Hour - before,
     before |-> before, after |-> after]

MCZone == {Change(0, 0, 0), Change(-Hour, -Hour, 0),
           Change(-2 * Hour, -Hour, 0), Change(-2 * Hour, -Hour, 2),
           Change(-Hour, -2 * Hour, 2),
           Change(0, Hour, 1), Change(Hour, 0, 2), Change(Hour, 2 * Hour, 0)}
=============================================================================
