------------------------------ MODULE CronField ------------------------------
(***************************************************************************)
(* From the text of a cron expression to a CronParser (cron_parser.go):    *)
(* the macros, the fields that the options ask for, and the numbers that   *)
(* each field stands for.                                                  *)
(*                                                                         *)
(* A field is a sequence of numbers and symbols; text that is neither is   *)
(* one symbol, Other.  An expression is a sequence of fields, or a macro.  *)
(* A set of values is empty for a field that is refused: newCronParser     *)
(* refuses an empty set as it does an error.                               *)
(***************************************************************************)
EXTENDS Integers, Sequences, FiniteSets

CONSTANTS HoursPerDay, MinutesPerHour, SecondsPerMinute,
          Star, Quest, Comma, Slash, Dash,  \* * ? , / -
          Last, Near,                       \* L W
          Other,    \* any other text: strconv.Atoi refuses it
          Refused   \* what newCronParser returns with an error

Symbol == {Star, Quest, Comma, Slash, Dash, Last, Near, Other}

ASSUME ClockAssumption == /\ HoursPerDay \in Nat \ {0}
                          /\ MinutesPerHour \in Nat \ {0}
                          /\ SecondsPerMinute \in Nat \ {0}

\* Symbols are told from each other and from numbers, which bear no sign.
ASSUME SymbolAssumption ==
    /\ Symbol \cap Int = {}
    /\ Star \notin {Quest, Comma, Slash, Dash, Last, Near, Other}
    /\ Quest \notin {Comma, Slash, Dash, Last, Near, Other}
    /\ Comma \notin {Slash, Dash, Last, Near, Other}
    /\ Slash \notin {Dash, Last, Near, Other}
    /\ Dash \notin {Last, Near, Other}
    /\ Last \notin {Near, Other}
    /\ Near # Other

Token == Nat \cup Symbol

\* defaultRules: the least and the greatest value of each field.
Least == [seconds |-> 0, minutes |-> 0, hours |-> 0, dayOfMonth |-> 1,
          months |-> 1, dayOfWeek |-> 0, years |-> 1970]

Greatest == [seconds |-> SecondsPerMinute - 1, minutes |-> MinutesPerHour - 1,
             hours |-> HoursPerDay - 1, dayOfMonth |-> 31,
             months |-> 12, dayOfWeek |-> 6, years |-> 2099]

Field == DOMAIN Least
Allowed(f) == Least[f]..Greatest[f]

-----------------------------------------------------------------------------
(***************************************************************************)
(* parseField.                                                             *)
(***************************************************************************)
Places(s, x) == {k \in DOMAIN s : s[k] = x}
Contains(s, x) == Places(s, x) # {}

\* strings.Split at x gives two parts, the text before and after it.
Splits(s, x) == \E k \in DOMAIN s : Places(s, x) = {k}
Place(s, x) == CHOOSE k \in DOMAIN s : s[k] = x
Before(s, x) == SubSeq(s, 1, Place(s, x) - 1)
Behind(s, x) == SubSeq(s, Place(s, x) + 1, Len(s))

IsNumber(s) == Len(s) = 1 /\ s[1] \notin Symbol
InRange(s, f) == IsNumber(s) /\ s[1] \in Allowed(f)

IsWildcard(s) == s \in {<<Star>>, <<Quest>>}

\* Mutant of Between: the end may lie outside the field.
BetweenOpen(s, f) ==
    IF Splits(s, Dash) /\ InRange(Before(s, Dash), f) /\ IsNumber(Behind(s, Dash))
    THEN Before(s, Dash)[1]..Behind(s, Dash)[1] ELSE {}

\* start-end; empty, hence refused, if start > end.
Between(s, f) ==
    IF Splits(s, Dash) /\ InRange(Before(s, Dash), f) /\ InRange(Behind(s, Dash), f)
    THEN Before(s, Dash)[1]..Behind(s, Dash)[1] ELSE {}

\* What a step goes through: every value, a range, or all from a number on.
Base(s, f) ==
    CASE IsWildcard(s) -> Allowed(f)
      [] Contains(s, Dash) -> Between(s, f)
      [] InRange(s, f) -> s[1]..Greatest[f]
      [] OTHER -> {}

\* Mutant of EveryNth: the steps are counted from zero.
EveryMultiple(S, n) == {v \in S : v % n = 0}

\* for i := start; i <= end; i += step
EveryNth(S, n) ==
    {v \in S : \E start \in S : (\A u \in S : start <= u) /\ (v - start) % n = 0}

Step(s, f) ==
    IF Splits(s, Slash) /\ IsNumber(Behind(s, Slash)) /\ Behind(s, Slash)[1] > 0
    THEN EveryNth(Base(Before(s, Slash), f), Behind(s, Slash)[1]) ELSE {}

\* A number of the field with a letter behind it, as in 5L and 15W.
Marked(s, x, f) == Len(s) = 2 /\ s[2] = x /\ InRange(<<s[1]>>, f)

\* L is 0 in the days of the month, with a number before it or without; nL
\* is -n in the days of the week, and nW in the days of the month.
Letter(s, f) ==
    CASE f = "dayOfMonth" /\ (s = <<Last>> \/ Marked(s, Last, f)) -> {0}
      [] f = "dayOfWeek" /\ Marked(s, Last, f) -> {-s[1]}
      [] f = "dayOfMonth" /\ Marked(s, Near, f) -> {-s[1]}
      [] OTHER -> {}

\* A part of a list.  The order of the tests matters: 10-30/5 is a step.
Part(s, f) ==
    CASE IsWildcard(s) -> Allowed(f)
      [] Contains(s, Slash) -> Step(s, f)
      [] Contains(s, Dash) /\ ~Contains(s, Slash) -> Between(s, f)
      [] OTHER -> Letter(s, f) \cup {n \in Allowed(f) : s = <<n>>}

Parts(s) == LET cuts == Places(s, Comma) \cup {0, Len(s) + 1} IN
            {SubSeq(s, p[1] + 1, p[2] - 1) :
                p \in {q \in cuts \X cuts : /\ q[1] < q[2]
                                            /\ \A c \in cuts : c <= q[1] \/ q[2] <= c}}

parseField(s, f) == IF \E p \in Parts(s) : Part(p, f) = {}
                    THEN {}
                    ELSE UNION {Part(p, f) : p \in Parts(s)}

-----------------------------------------------------------------------------
(***************************************************************************)
(* newCronParser.                                                          *)
(***************************************************************************)
\* The fields of a text: those of the macro it names (macros.go), or its own.
Any == <<Star>>
Expand(text) ==
    CASE text.macro \in {"@yearly", "@annually"} -> <<<<0>>, <<0>>, <<1>>, <<1>>, Any>>
      [] text.macro = "@monthly" -> <<<<0>>, <<0>>, <<1>>, Any, Any>>
      [] text.macro = "@weekly" -> <<<<0>>, <<0>>, Any, Any, <<0>>>>
      [] text.macro \in {"@daily", "@midnight"} -> <<<<0>>, <<0>>, Any, Any, Any>>
      [] text.macro = "@hourly" -> <<<<0>>, Any, Any, Any, Any>>
      [] text.macro = "@minutely" -> <<Any, Any, Any, Any, Any>>
      [] OTHER -> text.fields

\* The fields that the options ask for, in their order.
Rules(opts) ==
    (IF opts.enableSeconds THEN <<"seconds">> ELSE <<>>)
    \o <<"minutes", "hours", "dayOfMonth", "months", "dayOfWeek">>
    \o (IF opts.enableYears THEN <<"years">> ELSE <<>>)

CronParser == [seconds : SUBSET Int, minutes : SUBSET Int, hours : SUBSET Int,
               dayOfMonth : SUBSET Int, months : SUBSET Int, dayOfWeek : SUBSET Int,
               years : SUBSET Int, enableSeconds : BOOLEAN, enableYears : BOOLEAN,
               dayOfMonthWildcard : BOOLEAN, dayOfWeekWildcard : BOOLEAN]

ASSUME ParserAssumption == Refused \notin CronParser

\* Any error, or no value, in any field refuses the expression.
newCronParser(text, opts) ==
    LET parts == Expand(text)
        rules == Rules(opts)
        place(f) == {k \in DOMAIN rules : rules[k] = f}
        values(f) == UNION {parseField(parts[k], f) : k \in place(f)}
        wildcard(f) == \A k \in place(f) : IsWildcard(parts[k])
    IN  IF \/ Len(parts) # Len(rules)
           \/ \E k \in DOMAIN rules : parseField(parts[k], rules[k]) = {}
        THEN Refused
        ELSE [seconds |-> values("seconds"), minutes |-> values("minutes"),
              hours |-> values("hours"), dayOfMonth |-> values("dayOfMonth"),
              months |-> values("months"), dayOfWeek |-> values("dayOfWeek"),
              years |-> values("years"),
              enableSeconds |-> opts.enableSeconds, enableYears |-> opts.enableYears,
              dayOfMonthWildcard |-> wildcard("dayOfMonth"),
              dayOfWeekWildcard |-> wildcard("dayOfWeek")]

\* What Next takes for granted of a CronParser: it indexes the sorted values
\* of a field without asking whether there are any, and moves its cursor to
\* them, so each enabled field has values, all within its limits.
Sound(p) ==
    /\ \A f \in {"minutes", "hours", "months"} : p[f] # {} /\ p[f] \subseteq Allowed(f)
    /\ p.enableSeconds => p.seconds # {} /\ p.seconds \subseteq Allowed("seconds")
    /\ p.enableYears => p.years # {} /\ p.years \subseteq Allowed("years")
    /\ p.dayOfMonth # {} /\ p.dayOfMonth \subseteq -31..31
    /\ p.dayOfWeek # {} /\ p.dayOfWeek \subseteq -6..6

-----------------------------------------------------------------------------
(***************************************************************************)
(* What a field means, from the documentation (docs/getting-started.md,    *)
(* Special Characters; cron_parser.go:207, :312, :332) and not from the    *)
(* order of the tests in the code: one disjunct for each legal way to      *)
(* write it.  Two of them no document mentions: nL as a day of the month   *)
(* is L, and 0L as a day of the week is 0, which is every Sunday.          *)
(***************************************************************************)
Numbers(s) == {s[k] : k \in DOMAIN s} \ Symbol

\* The texts of a step's base, each with the first and the last of its values.
Bases(N, f) == {<<<<w>>, Least[f], Greatest[f]>> : w \in {Star, Quest}}
               \cup {<<<<n>>, n, Greatest[f]>> : n \in N}
               \cup {<<<<r[1], Dash, r[2]>>, r[1], r[2]>> : r \in N \X N}

\* The values of a text without a list, in a set; none if it is not legal.
Meanings(s, f) ==
    LET N == Numbers(s) \cap Allowed(f) IN
    {b[2]..b[3] : b \in {q \in Bases(N, f) : q[1] = s /\ q[2] <= q[3] /\ s \notin {<<n>> : n \in N}}}
    \cup {{n} : n \in {m \in N : s = <<m>>}}
    \cup {{p[1][2] + k * p[2] : k \in 0..(p[1][3] - p[1][2])} \cap p[1][2]..p[1][3] :
             p \in {q \in Bases(N, f) \X (Numbers(s) \ {0}) :
                       s = q[1][1] \o <<Slash, q[2]>> /\ q[1][2] <= q[1][3]}}
    \cup {{0} : x \in {y \in {<<Last>>} \cup {<<n, Last>> : n \in N} :
                          s = y /\ f = "dayOfMonth"}}
    \cup {{-n} : n \in {m \in N : \/ f = "dayOfMonth" /\ s = <<m, Near>>
                                  \/ f = "dayOfWeek" /\ s = <<m, Last>>}}

\* A part is read as it is meant, and refused if it is not legal; a list is
\* accepted exactly if what is before and behind each comma is, for both.
Reads(s, f) ==
    IF Contains(s, Comma)
    THEN \A k \in Places(s, Comma) :
            LET left == parseField(SubSeq(s, 1, k - 1), f)
                right == parseField(SubSeq(s, k + 1, Len(s)), f)
            IN  parseField(s, f) = IF left = {} \/ right = {} THEN {} ELSE left \cup right
    ELSE Meanings(s, f) = {parseField(s, f)} \ {{}}
=============================================================================
