------------------------ MODULE ScheduleBuilder_proofs ------------------------
(***************************************************************************)
(* A task runs when the calls on its builder asked for, a new builder's    *)
(* expression is accepted, and an ID that generateTaskID makes leaves out  *)
(* nothing but the location: for any intervals, times and weekdays, a      *)
(* clock of any size, and any sequence of calls on any number of builders. *)
(* The reason for the last is that the ID names all that the expression is *)
(* made from, and that the options can be read off the expression: with    *)
(* others than its number of fields asks for, the parser refuses it.       *)
(***************************************************************************)
EXTENDS ScheduleBuilder, CronField_proofs

\* The parser that an ID <<unit, interval or weekday, time>> stands for.
EveryOf(n) == IF n = 1 THEN Any ELSE <<Star, Slash, n>>
ClockOf(t) == IF t = <<>> THEN <<<<0>>, <<0>>>>
              ELSE [k \in DOMAIN t |-> <<t[Len(t) + 1 - k]>>]
DaysFor(u, w) == CASE u = "day" -> <<Any, Any, Any>>
                   [] u = "week" -> <<Any, Any, <<0>>>>
                   [] u = "month" -> <<<<1>>, Any, Any>>
                   [] u = "weekday" -> <<Any, Any, <<w>>>>
FieldsFor(u, n, t) == CASE u = "second" -> <<EveryOf(n), Any, Any, Any, Any, Any>>
                        [] u = "minute" -> <<EveryOf(n), Any, Any, Any, Any>>
                        [] u = "hour" -> <<<<0>>, EveryOf(n), Any, Any, Any>>
                        [] OTHER -> ClockOf(t) \o DaysFor(u, n)
SecondsFor(u, t) == u = "second" \/ (u \notin Subday /\ Len(t) = 3)
ParserFor(id) == newCronParser([macro |-> "", fields |-> FieldsFor(id[1], id[2], id[3])],
                               [enableSeconds |-> SecondsFor(id[1], id[3]),
                                enableYears |-> FALSE])

IDInv == \A t \in tasks : t.generated => t.parser = ParserFor(t.id)

Inv == TypeOK /\ IDInv

-----------------------------------------------------------------------------
\* The number of fields tells whether there are seconds among them.
LEMMA FieldsLength ==
    ASSUME TypeOK, IsBuildable
    PROVE  Len(Expression.fields) = IF HasSeconds THEN 6 ELSE 5
  <1>1. CASE unit \in Subday
    BY <1>1 DEF Expression, HasSeconds, Subday
  <1>2. CASE unit \notin Subday
    <2>1. unit \in {"day", "week", "month", "weekday"}
      BY <1>2 DEF TypeOK, IsBuildable, Unit, Subday
    <2>2. Expression.fields = Clock \o Days
      BY <2>1 DEF Expression
    <2> DEFINE X == {Any, <<0>>, <<1>>, <<weekday>>} \cup {Clock[j] : j \in DOMAIN Clock}
    <2>3. Days \in Seq(X) /\ Len(Days) = 3
      <3>1. Days \in {<<Any, Any, Any>>, <<Any, Any, <<0>>>>, <<<<1>>, Any, Any>>,
                      <<Any, Any, <<weekday>>>>}
        BY <2>1, Zenon DEF Days
      <3>2. Any \in X /\ <<0>> \in X /\ <<1>> \in X /\ <<weekday>> \in X
        OBVIOUS
      <3> HIDE DEF X
      <3>3. /\ <<Any, Any, Any>> \in Seq(X) /\ Len(<<Any, Any, Any>>) = 3
            /\ <<Any, Any, <<0>>>> \in Seq(X) /\ Len(<<Any, Any, <<0>>>>) = 3
            /\ <<<<1>>, Any, Any>> \in Seq(X) /\ Len(<<<<1>>, Any, Any>>) = 3
            /\ <<Any, Any, <<weekday>>>> \in Seq(X) /\ Len(<<Any, Any, <<weekday>>>>) = 3
        BY <3>2, Three, Zenon
      <3> QED
        BY <3>1, <3>3, Zenon
    <2>4. /\ Clock \in Seq(X) /\ Len(Clock) \in {2, 3}
          /\ Len(Clock) = 3 <=> Len(timeSpec) = 3
      <3>1. CASE timeSpec = <<>>
        <4>1. Clock = <<<<0>>, <<0>>>>
          BY <3>1 DEF Clock
        <4>2. <<<<0>>, <<0>>>> \in Seq(X) /\ Len(<<<<0>>, <<0>>>>) = 2
          BY Two, Zenon
        <4>3. Len(timeSpec) = 0
          BY <3>1
        <4> QED
          BY <4>1, <4>2, <4>3
      <3>2. CASE timeSpec # <<>>
        <4>1. timeSpec \in Seq(Int \cup Symbol) /\ Len(timeSpec) \in {2, 3}
          BY <1>2, <3>2, BuilderAssumption DEF TypeOK, IsBuildable, TimeIsValid
        <4>2. Clock = [j \in 1..Len(timeSpec) |-> <<timeSpec[Len(timeSpec) + 1 - j]>>]
          BY <3>2, <4>1 DEF Clock
        <4>3. Clock \in [1..Len(timeSpec) -> X]
          BY <4>2
        <4>4. Clock \in Seq(X) /\ Len(Clock) = Len(timeSpec)
          BY <4>1, <4>3, FunctionIsSequence
        <4> QED
          BY <4>1, <4>4
      <3> QED
        BY <3>1, <3>2
    <2> HIDE DEF X
    <2>5. Len(Clock \o Days) = Len(Clock) + Len(Days)
      BY <2>3, <2>4, ConcatProperties, Zenon
    <2>6. HasSeconds <=> Len(timeSpec) = 3
      BY <1>2 DEF HasSeconds, Subday
    <2>7. Len(Expression.fields) = Len(Clock) + 3
      BY <2>2, <2>3, <2>5
    <2>8. CASE Len(Clock) = 3
      <3>1. Len(Expression.fields) = 6
        BY <2>7, <2>8
      <3> QED
        BY <2>4, <2>6, <2>8, <3>1, Zenon
    <2>9. CASE Len(Clock) # 3
      <3>1. Len(Clock) = 2
        BY <2>4, <2>9, Zenon
      <3>2. Len(Expression.fields) = 5
        BY <2>7, <3>1
      <3> QED
        BY <2>4, <2>6, <2>9, <3>2, Zenon
    <2> QED
      BY <2>8, <2>9, Zenon
  <1> QED
    BY <1>1, <1>2

\* The ID names all that the expression and its options are made from.
LEMMA FieldsOfID ==
    ASSUME TypeOK, IsBuildable
    PROVE  LET id == generateTaskID IN Expression.fields = FieldsFor(id[1], id[2], id[3])
  <1> DEFINE id == generateTaskID
  <1>1. CASE unit \in Subday
    BY <1>1 DEF Expression, generateTaskID, FieldsFor, EveryField, EveryOf, Subday
  <1>2. CASE unit \notin Subday
    <2>1. unit \in {"day", "week", "month", "weekday"}
      BY <1>2 DEF TypeOK, IsBuildable, Unit, Subday
    <2>2. id[1] = unit /\ id[3] = timeSpec /\ (unit = "weekday" => id[2] = weekday)
      BY <1>2, <2>1 DEF generateTaskID
    <2>3. Clock = ClockOf(id[3])
      BY <2>2 DEF Clock, ClockOf
    <2>4. Days = DaysFor(id[1], id[2])
      BY <2>1, <2>2 DEF Days, DaysFor
    <2>5. Expression.fields = Clock \o Days
      BY <2>1 DEF Expression
    <2>6. FieldsFor(id[1], id[2], id[3]) = ClockOf(id[3]) \o DaysFor(id[1], id[2])
      BY <2>1, <2>2 DEF FieldsFor
    <2> QED
      BY <2>3, <2>4, <2>5, <2>6
  <1> QED
    BY <1>1, <1>2

LEMMA SecondsOfID == LET id == generateTaskID IN HasSeconds = SecondsFor(id[1], id[3])
  <1> DEFINE id == generateTaskID
  <1>1. CASE unit \in Subday
    BY <1>1 DEF HasSeconds, SecondsFor, generateTaskID, Subday
  <1>2. CASE unit \notin Subday
    BY <1>2 DEF HasSeconds, SecondsFor, generateTaskID
  <1> QED
    BY <1>1, <1>2

\* What Do builds is the parser that its ID stands for, or is refused.
LEMMA BuiltForID ==
    ASSUME TypeOK, IsBuildable, Built # Refused
    PROVE  Built = ParserFor(generateTaskID)
  <1> DEFINE id == generateTaskID
  <1>1. /\ BuiltOptions.enableSeconds \in BOOLEAN /\ BuiltOptions.enableYears \in BOOLEAN
        /\ HasSeconds => BuiltOptions.enableSeconds
    BY DEF TypeOK, BuiltOptions, HasSeconds
  <1>2. Expression = [macro |-> "", fields |-> Expression.fields]
    BY DEF Expression
  <1>3. Len(Expression.fields) = Len(Rules(BuiltOptions))
    BY <1>2, AcceptedLength DEF Built
  <1>4. BuiltOptions.enableSeconds = HasSeconds /\ BuiltOptions.enableYears = FALSE
    <2> DEFINE o == BuiltOptions
               s == IF o.enableSeconds THEN 1 ELSE 0
               y == IF o.enableYears THEN 1 ELSE 0
               h == IF HasSeconds THEN 1 ELSE 0
    <2>1. Len(Rules(o)) = 5 + s + y
      BY <1>1, RulesLength
    <2>2. Len(Rules(o)) = 5 + h
      BY <1>3, FieldsLength
    <2>3. s \in {0, 1} /\ y \in {0, 1} /\ h \in {0, 1} /\ (h = 1 => s = 1)
      BY <1>1
    <2> HIDE DEF s, y, h
    <2>4. y = 0 /\ s = h
      BY <2>1, <2>2, <2>3
    <2>5. ~o.enableYears /\ (o.enableSeconds <=> HasSeconds)
      BY <2>4 DEF s, y, h
    <2>6. HasSeconds \in BOOLEAN
      BY DEF HasSeconds
    <2> QED
      BY <1>1, <2>5, <2>6, Zenon
  <1>5. Expression.fields = FieldsFor(id[1], id[2], id[3])
    BY FieldsOfID
  <1>6. HasSeconds = SecondsFor(id[1], id[3])
    BY SecondsOfID
  <1> QED
    BY <1>2, <1>4, <1>5, <1>6, OptionsOfParser DEF Built, ParserFor

-----------------------------------------------------------------------------
NewOptions(l) == [enableSeconds |-> FALSE, enableYears |-> FALSE, location |-> l]

LEMMA NewOptionsType ==
    \A l \in Location : NewOptions(l) \in [enableSeconds : BOOLEAN, enableYears : BOOLEAN,
                                           location : Location]
  BY DEF NewOptions

LEMMA InvInit == Init => Inv
  <1> SUFFICES ASSUME Init PROVE Inv
    OBVIOUS
  <1>1. options \in [enableSeconds : BOOLEAN, enableYears : BOOLEAN, location : Location]
    BY NewOptionsType DEF Init, NewOptions
  <1> QED
    BY <1>1 DEF Init, Inv, TypeOK, IDInv

LEMMA TypeStep == TypeOK /\ [Next]_vars => TypeOK'
  <1> SUFFICES ASSUME TypeOK, [Next]_vars PROVE TypeOK'
    OBVIOUS
  <1> USE DEF TypeOK
  <1>1. CASE UNCHANGED vars
    BY <1>1 DEF vars, builder
  <1>2. ASSUME NEW n \in Interval, Every(n) PROVE TypeOK'
    <2>1. options' \in [enableSeconds : BOOLEAN, enableYears : BOOLEAN, location : Location]
      BY <1>2, NewOptionsType DEF Every, NewOptions
    <2> QED
      BY <1>2, <2>1 DEF Every
  <1>3. ASSUME NEW u \in Unit, SetUnit(u) PROVE TypeOK'
    BY <1>3 DEF SetUnit
  <1>4. ASSUME NEW w \in Weekday, SetWeekday(w) PROVE TypeOK'
    BY <1>4 DEF SetWeekday
  <1>5. ASSUME NEW t \in Time, At(t) PROVE TypeOK'
    BY <1>5 DEF At
  <1>6. ASSUME NEW l \in Location, WithLocation(l) PROVE TypeOK'
    BY <1>6 DEF WithLocation
  <1>7. CASE WithSeconds \/ WithYears
    BY <1>7 DEF WithSeconds, WithYears
  <1>8. ASSUME DoBuilds
        PROVE  /\ UNCHANGED <<unit, interval, weekday, timeSpec>>
               /\ options' \in [enableSeconds : BOOLEAN, enableYears : BOOLEAN,
                                location : Location]
               /\ tainted' \in BOOLEAN
    BY <1>8 DEF DoBuilds, BuiltOptions, HasSeconds
  <1>9. ASSUME NEW id, DoAdds(id) PROVE TypeOK'
    <2>1. \A t \in tasks' : t.parser # Refused /\ t.location \in Location
      <3>1. /\ NewTask(id).parser = Built /\ NewTask(id).location = BuiltOptions.location
            /\ tasks' = tasks \cup {NewTask(id)}
        BY <1>9, Zenon DEF DoAdds, NewTask
      <3>2. Built # Refused /\ BuiltOptions.location \in Location
        BY <1>9 DEF DoAdds, BuiltOptions
      <3> QED
        BY <3>1, <3>2
    <2> QED
      BY <1>8, <1>9, <2>1 DEF DoAdds
  <1>10. ASSUME NEW id, NEW supported \in BOOLEAN, DoFails(id, supported) PROVE TypeOK'
    BY <1>8, <1>10 DEF DoFails
  <1>11. ASSUME NEW t \in tasks, Remove(t) PROVE TypeOK'
    BY <1>11 DEF Remove, builder
  <1> QED
    BY <1>1, <1>2, <1>3, <1>4, <1>5, <1>6, <1>7, <1>9, <1>10, <1>11 DEF Next

\* Only Do adds a task, with the parser that its generated ID stands for.
LEMMA IDStep == Inv /\ [Next]_vars => IDInv'
  <1> SUFFICES ASSUME Inv, [Next]_vars PROVE IDInv'
    OBVIOUS
  <1>1. CASE tasks' \subseteq tasks
    BY <1>1 DEF Inv, IDInv
  <1>2. ASSUME NEW id, DoAdds(id) PROVE IDInv'
    <2>1. id = generateTaskID => Built = ParserFor(id)
      BY <1>2, BuiltForID DEF Inv, DoAdds, DoBuilds
    <2>2. ASSUME NEW t \in tasks', t \notin tasks
          PROVE  t.id = id /\ t.parser = Built /\ t.generated = (id = generateTaskID)
      BY <1>2, <2>2 DEF DoAdds, NewTask
    <2> QED
      BY <2>1, <2>2 DEF Inv, IDInv
  <1>3. tasks' \subseteq tasks \/ \E id : DoAdds(id)
    BY DEF Next, vars, Every, SetUnit, SetWeekday, At, WithLocation, WithSeconds,
           WithYears, DoFails, Remove
  <1> QED
    BY <1>1, <1>2, <1>3

LEMMA InvStep == Inv /\ [Next]_vars => Inv'
  BY TypeStep, IDStep DEF Inv

\* The fields of the builder keep their types, and every task has a parser.
THEOREM TypeCorrect == Spec => []TypeOK
  <1>1. Inv => TypeOK
    BY DEF Inv
  <1> QED
    BY <1>1, InvInit, InvStep, PTL DEF Spec

\* A generated ID leaves out the location alone: where two Dos generate the
\* same ID, whatever their builders went through before, the times and days are
\* the same, and each runs at them on the clock that WithLocation gave it.
THEOREM IDLeavesOutLocationAlone == Spec => []SameIDSameLocalTimes
  <1>1. ASSUME Inv, NEW t \in tasks, t.generated, IsBuildable, t.id = generateTaskID,
               Built # Refused
        PROVE  ScheduleOf(NewTask(t.id)) = [ScheduleOf(t) EXCEPT !.location = options.location]
    <2>1. t.parser = Built
      BY <1>1, BuiltForID DEF Inv, IDInv
    <2>2. /\ NewTask(t.id).parser = Built
          /\ NewTask(t.id).location = BuiltOptions.location
      BY DEF NewTask
    <2>3. BuiltOptions.location = options.location
      BY <1>1 DEF Inv, TypeOK, BuiltOptions
    <2> QED
      BY <2>1, <2>2, <2>3 DEF ScheduleOf
  <1>2. Inv => SameIDSameLocalTimes
    BY <1>1 DEF SameIDSameLocalTimes
  <1> QED
    BY <1>2, InvInit, InvStep, PTL DEF Spec

-----------------------------------------------------------------------------
(***************************************************************************)
(* The expression of a schedule, field by field.                           *)
(***************************************************************************)
\* What Do turns into an expression: a unit with its interval, which must be
\* positive, or with its weekday, and a time of the day.
Schedule(u, n, t) ==
    /\ u \in Unit \cup {"weekday"} /\ n \in Int
    /\ u \in Subday => n > 0
    /\ u = "weekday" => n \in 0..6
    /\ u \notin Subday /\ t # <<>> =>
          /\ t \in Seq(Int \cup Symbol) /\ Len(t) \in {2, 3}
          /\ t[1] \in Allowed("hours") /\ t[2] \in Allowed("minutes")
          /\ Len(t) = 3 => t[3] \in Allowed("seconds")

\* The text of a field.
TextOf(u, n, t, f) ==
    CASE f = "seconds" -> IF u \in Subday THEN EveryOf(n) ELSE <<t[3]>>
      [] f = "minutes" -> CASE u = "second" -> Any
                            [] u = "minute" -> EveryOf(n)
                            [] u = "hour" -> <<0>>
                            [] OTHER -> IF t = <<>> THEN <<0>> ELSE <<t[2]>>
      [] f = "hours" -> CASE u \in {"second", "minute"} -> Any
                          [] u = "hour" -> EveryOf(n)
                          [] OTHER -> IF t = <<>> THEN <<0>> ELSE <<t[1]>>
      [] f = "dayOfMonth" -> IF u = "month" THEN <<1>> ELSE Any
      [] f = "months" -> Any
      [] f = "dayOfWeek" -> CASE u = "week" -> <<0>>
                              [] u = "weekday" -> <<n>>
                              [] OTHER -> Any

LEMMA SixIs ==
    ASSUME NEW a, NEW b, NEW c, NEW d, NEW e, NEW g
    PROVE  LET s == <<a, b, c, d, e, g>> IN
           /\ DOMAIN s = 1..6 /\ Len(s) = 6
           /\ s[1] = a /\ s[2] = b /\ s[3] = c /\ s[4] = d /\ s[5] = e /\ s[6] = g
  OBVIOUS

\* The rules without years, with seconds and without.
Listed(rules, s) ==
    /\ DOMAIN rules = 1..(s + 5) /\ Len(rules) = s + 5
    /\ s = 1 => rules[1] = "seconds"
    /\ rules[s + 1] = "minutes" /\ rules[s + 2] = "hours" /\ rules[s + 3] = "dayOfMonth"
    /\ rules[s + 4] = "months" /\ rules[s + 5] = "dayOfWeek"

WithoutYears(o) == o.enableSeconds \in BOOLEAN /\ o.enableYears = FALSE

LEMMA RulesInOrder ==
    ASSUME NEW o, WithoutYears(o)
    PROVE  Listed(Rules(o), IF o.enableSeconds THEN 1 ELSE 0)
  <1> DEFINE five == <<"minutes", "hours", "dayOfMonth", "months", "dayOfWeek">>
             sec == IF o.enableSeconds THEN <<"seconds">> ELSE <<>>
             s == IF o.enableSeconds THEN 1 ELSE 0
             rules == Rules(o)
  <1> USE DEF WithoutYears
  <1>1. five \in Seq(Field) /\ Len(five) = 5
    <2>1. /\ "minutes" \in Field /\ "hours" \in Field /\ "dayOfMonth" \in Field
          /\ "months" \in Field /\ "dayOfWeek" \in Field
      BY FieldNames
    <2> QED
      BY <2>1
  <1>2. /\ five[1] = "minutes" /\ five[2] = "hours" /\ five[3] = "dayOfMonth"
        /\ five[4] = "months" /\ five[5] = "dayOfWeek"
    OBVIOUS
  <1>3. sec \in Seq(Field) /\ Len(sec) = s /\ (s = 1 => sec[1] = "seconds") /\ s \in {0, 1}
    <2>1. CASE o.enableSeconds
      <3>1. sec = <<"seconds">> /\ s = 1 /\ "seconds" \in Field
        BY <2>1, FieldNames
      <3> QED
        BY <3>1
    <2>2. CASE ~o.enableSeconds
      <3>1. sec = <<>> /\ s = 0
        BY <2>2
      <3> QED
        BY <3>1
    <2> QED
      BY <2>1, <2>2
  <1>4. rules = (sec \o five) \o <<>>
    BY DEF Rules
  <1> HIDE DEF five, sec, s, rules
  <1>5. /\ sec \o five \in Seq(Field) /\ Len(sec \o five) = s + 5
        /\ \A i \in 1..(s + 5) : (sec \o five)[i] = IF i <= s THEN sec[i] ELSE five[i - s]
    <2>1. /\ sec \o five \in Seq(Field) /\ Len(sec \o five) = Len(sec) + Len(five)
          /\ \A i \in 1..(Len(sec) + Len(five)) :
                (sec \o five)[i] = IF i <= Len(sec) THEN sec[i] ELSE five[i - Len(sec)]
      BY <1>1, <1>3, ConcatProperties
    <2> QED
      BY <1>1, <1>3, <2>1, Zenon
  <1>6. rules = sec \o five
    BY <1>4, <1>5, ConcatEmptySeq
  <1>7. DOMAIN rules = 1..(s + 5) /\ Len(rules) = s + 5
    BY <1>3, <1>5, <1>6
  <1>8. s = 1 => rules[1] = "seconds"
    BY <1>3, <1>5, <1>6
  <1>9. \A i \in 1..5 : rules[s + i] = five[i]
    <2> SUFFICES ASSUME NEW i \in 1..5 PROVE rules[s + i] = five[i]
      OBVIOUS
    <2>1. s + i \in 1..(s + 5) /\ ~(s + i <= s) /\ (s + i) - s = i
      BY <1>3
    <2> QED
      BY <1>5, <1>6, <2>1, Zenon
  <1>10. /\ rules[s + 1] = "minutes" /\ rules[s + 2] = "hours" /\ rules[s + 3] = "dayOfMonth"
         /\ rules[s + 4] = "months" /\ rules[s + 5] = "dayOfWeek"
    BY <1>2, <1>9
  <1>11. Listed(rules, s)
    BY <1>7, <1>8, <1>10, Zenon DEF Listed
  <1> QED
    BY <1>11 DEF s, rules

LEMMA FiveIs ==
    ASSUME NEW a, NEW b, NEW c, NEW d, NEW e
    PROVE  LET s == <<a, b, c, d, e>> IN
           /\ DOMAIN s = 1..5 /\ Len(s) = 5
           /\ s[1] = a /\ s[2] = b /\ s[3] = c /\ s[4] = d /\ s[5] = e
  OBVIOUS

\* A sequence of texts with the five fields behind s others, of which the
\* first one, if any, is that of the seconds.
Ordered(fields, u, n, t, s) ==
    /\ Len(fields) = s + 5
    /\ s = 1 => fields[1] = TextOf(u, n, t, "seconds")
    /\ fields[s + 1] = TextOf(u, n, t, "minutes") /\ fields[s + 2] = TextOf(u, n, t, "hours")
    /\ fields[s + 3] = TextOf(u, n, t, "dayOfMonth") /\ fields[s + 4] = TextOf(u, n, t, "months")
    /\ fields[s + 5] = TextOf(u, n, t, "dayOfWeek")

\* The time comes before the days.
LEMMA ClockThenDays ==
    ASSUME NEW X, NEW c \in Seq(X), NEW d \in Seq(X), Len(d) = 3, NEW s \in {0, 1},
           Len(c) = s + 2
    PROVE  /\ Len(c \o d) = s + 5
           /\ \A i \in 1..(s + 2) : (c \o d)[i] = c[i]
           /\ (c \o d)[s + 3] = d[1] /\ (c \o d)[s + 4] = d[2] /\ (c \o d)[s + 5] = d[3]
  <1>1. /\ Len(c \o d) = Len(c) + Len(d)
        /\ \A i \in 1..(Len(c) + Len(d)) :
              (c \o d)[i] = IF i <= Len(c) THEN c[i] ELSE d[i - Len(c)]
    BY ConcatProperties
  <1> DEFINE e == c \o d
  <1> HIDE DEF e
  <1>2. Len(e) = s + 5 /\ \A i \in 1..(s + 5) : e[i] = IF i <= s + 2 THEN c[i] ELSE d[i - (s + 2)]
    <2>1. Len(c) + Len(d) = s + 5
      OBVIOUS
    <2> QED
      BY <1>1, <2>1, Zenon DEF e
  <1>3. \A i \in 1..(s + 2) : e[i] = c[i]
    <2>1. \A i \in 1..(s + 2) : i \in 1..(s + 5) /\ i <= s + 2
      OBVIOUS
    <2> QED
      BY <1>2, <2>1, Zenon
  <1>4. e[s + 3] = d[1] /\ e[s + 4] = d[2] /\ e[s + 5] = d[3]
    <2>1. /\ s + 3 \in 1..(s + 5) /\ ~(s + 3 <= s + 2) /\ (s + 3) - (s + 2) = 1
          /\ s + 4 \in 1..(s + 5) /\ ~(s + 4 <= s + 2) /\ (s + 4) - (s + 2) = 2
          /\ s + 5 \in 1..(s + 5) /\ ~(s + 5 <= s + 2) /\ (s + 5) - (s + 2) = 3
      OBVIOUS
    <2> QED
      BY <1>2, <2>1, Zenon
  <1> QED
    BY <1>2, <1>3, <1>4 DEF e

LEMMA FieldsAreOrdered ==
    ASSUME NEW u, NEW n, NEW t, Schedule(u, n, t)
    PROVE  Ordered(FieldsFor(u, n, t), u, n, t, IF SecondsFor(u, t) THEN 1 ELSE 0)
  <1> DEFINE E == EveryOf(n)  F == FieldsFor(u, n, t)
  <1>1. u \in {"second", "minute", "hour", "day", "week", "month", "weekday"}
    BY DEF Schedule, Unit
  <1>2. CASE u = "second"
    <2>1. F = <<E, Any, Any, Any, Any, Any>>
      BY <1>2 DEF FieldsFor
    <2>2. SecondsFor(u, t)
      BY <1>2 DEF SecondsFor
    <2> HIDE DEF F, E
    <2>3. /\ Len(F) = 6 /\ F[1] = E /\ F[2] = Any /\ F[3] = Any /\ F[4] = Any
          /\ F[5] = Any /\ F[6] = Any
      BY <2>1, SixIs, Zenon
    <2>4. /\ TextOf(u, n, t, "seconds") = E /\ TextOf(u, n, t, "minutes") = Any
          /\ TextOf(u, n, t, "hours") = Any /\ TextOf(u, n, t, "dayOfMonth") = Any
          /\ TextOf(u, n, t, "months") = Any /\ TextOf(u, n, t, "dayOfWeek") = Any
      BY <1>2 DEF TextOf, Subday, E
    <2>5. Ordered(F, u, n, t, 1)
      BY <2>3, <2>4 DEF Ordered
    <2> QED
      BY <2>2, <2>5 DEF F
  <1>3. CASE u = "minute"
    <2>1. F = <<E, Any, Any, Any, Any>>
      BY <1>3 DEF FieldsFor
    <2>2. ~SecondsFor(u, t)
      BY <1>3 DEF SecondsFor, Subday
    <2> HIDE DEF F, E
    <2>3. Len(F) = 5 /\ F[1] = E /\ F[2] = Any /\ F[3] = Any /\ F[4] = Any /\ F[5] = Any
      BY <2>1, FiveIs, Zenon
    <2>4. /\ TextOf(u, n, t, "minutes") = E
          /\ TextOf(u, n, t, "hours") = Any /\ TextOf(u, n, t, "dayOfMonth") = Any
          /\ TextOf(u, n, t, "months") = Any /\ TextOf(u, n, t, "dayOfWeek") = Any
      BY <1>3 DEF TextOf, E
    <2>5. Ordered(F, u, n, t, 0)
      BY <2>3, <2>4 DEF Ordered
    <2> QED
      BY <2>2, <2>5 DEF F
  <1>4. CASE u = "hour"
    <2> DEFINE zero == <<0>>
    <2>1. F = <<zero, E, Any, Any, Any>>
      BY <1>4 DEF FieldsFor
    <2>2. ~SecondsFor(u, t)
      BY <1>4 DEF SecondsFor, Subday
    <2>4. /\ TextOf(u, n, t, "minutes") = zero
          /\ TextOf(u, n, t, "hours") = E /\ TextOf(u, n, t, "dayOfMonth") = Any
          /\ TextOf(u, n, t, "months") = Any /\ TextOf(u, n, t, "dayOfWeek") = Any
      BY <1>4 DEF TextOf, E
    <2> HIDE DEF F, E, zero
    <2>3. Len(F) = 5 /\ F[1] = zero /\ F[2] = E /\ F[3] = Any /\ F[4] = Any /\ F[5] = Any
      BY <2>1, FiveIs, Zenon
    <2>5. Ordered(F, u, n, t, 0)
      BY <2>3, <2>4 DEF Ordered
    <2> QED
      BY <2>2, <2>5 DEF F
  <1>5. CASE u \in {"day", "week", "month", "weekday"}
    <2> DEFINE C == ClockOf(t)  D == DaysFor(u, n)  s == IF SecondsFor(u, t) THEN 1 ELSE 0
               d1 == TextOf(u, n, t, "dayOfMonth")  d2 == TextOf(u, n, t, "months")
               d3 == TextOf(u, n, t, "dayOfWeek")
               X == {d1, d2, d3, <<0>>} \cup {<<t[k]>> : k \in DOMAIN t}
    <2>1. F = C \o D
      BY <1>5 DEF FieldsFor
    <2>2. D = <<d1, d2, d3>>
      <3>1. D = CASE u = "day" -> <<Any, Any, Any>>
                  [] u = "week" -> <<Any, Any, <<0>>>>
                  [] u = "month" -> <<<<1>>, Any, Any>>
                  [] u = "weekday" -> <<Any, Any, <<n>>>>
        BY DEF DaysFor
      <3> QED
        BY <1>5, <3>1 DEF TextOf
    <2>3. D \in Seq(X) /\ Len(D) = 3 /\ D[1] = d1 /\ D[2] = d2 /\ D[3] = d3
      <3>1. d1 \in X /\ d2 \in X /\ d3 \in X
        OBVIOUS
      <3> HIDE DEF X, D, d1, d2, d3
      <3> QED
        BY <2>2, <3>1
    <2>4. u \notin Subday /\ u # "second" /\ u # "minute" /\ u # "hour"
      BY <1>5 DEF Subday
    <2>5. /\ C \in Seq(X) /\ Len(C) = s + 2 /\ s \in {0, 1}
          /\ s = 1 => C[1] = TextOf(u, n, t, "seconds")
          /\ C[s + 1] = TextOf(u, n, t, "minutes") /\ C[s + 2] = TextOf(u, n, t, "hours")
      <3>1. CASE t = <<>>
        <4> DEFINE zero == <<0>>
        <4>1. C = <<zero, zero>> /\ zero \in X
          BY <3>1 DEF ClockOf
        <4>2. TextOf(u, n, t, "minutes") = zero /\ TextOf(u, n, t, "hours") = zero
          BY <1>5, <2>4, <3>1 DEF TextOf
        <4>3. ~SecondsFor(u, t)
          <5>1. Len(t) = 0
            BY <3>1
          <5> QED
            BY <2>4, <5>1 DEF SecondsFor
        <4>4. s = 0
          BY <4>3
        <4> HIDE DEF X, zero, C, s
        <4>5. C \in Seq(X) /\ Len(C) = 2 /\ C[1] = zero /\ C[2] = zero
          BY <4>1
        <4> QED
          BY <4>2, <4>4, <4>5
      <3>2. CASE t # <<>>
        <4>1. t \in Seq(Int \cup Symbol) /\ Len(t) \in {2, 3}
          BY <2>4, <3>2 DEF Schedule
        <4>2. C = [k \in DOMAIN t |-> <<t[Len(t) + 1 - k]>>] /\ DOMAIN t = 1..Len(t)
          BY <3>2, <4>1 DEF ClockOf
        <4>3. C \in [1..Len(t) -> X]
          <5>1. \A k \in 1..Len(t) : Len(t) + 1 - k \in DOMAIN t
            BY <4>1, <4>2
          <5>2. \A k \in 1..Len(t) : <<t[Len(t) + 1 - k]>> \in X
            BY <5>1
          <5> HIDE DEF X, C
          <5> QED
            BY <4>2, <5>2
        <4>4. C \in Seq(X) /\ Len(C) = Len(t)
          <5> HIDE DEF X, C
          <5> QED
            BY <4>1, <4>3, FunctionIsSequence
        <4>5. /\ TextOf(u, n, t, "minutes") = <<t[2]>> /\ TextOf(u, n, t, "hours") = <<t[1]>>
              /\ TextOf(u, n, t, "seconds") = <<t[3]>>
          BY <1>5, <2>4, <3>2 DEF TextOf
        <4>6. s = IF Len(t) = 3 THEN 1 ELSE 0
          BY <2>4 DEF SecondsFor
        <4>7. \A k \in 1..Len(t) : C[k] = <<t[Len(t) + 1 - k]>>
          BY <4>2
        <4> HIDE DEF X, C, s
        <4>8. CASE Len(t) = 3
          <5>1. C[1] = <<t[3]>> /\ C[2] = <<t[2]>> /\ C[3] = <<t[1]>>
            BY <4>7, <4>8
          <5> QED
            BY <4>4, <4>5, <4>6, <4>8, <5>1
        <4>9. CASE Len(t) = 2
          <5>1. C[1] = <<t[2]>> /\ C[2] = <<t[1]>>
            BY <4>7, <4>9
          <5> QED
            BY <4>4, <4>5, <4>6, <4>9, <5>1
        <4> QED
          BY <4>1, <4>8, <4>9
      <3> QED
        BY <3>1, <3>2
    <2> HIDE DEF C, D, s, X, d1, d2, d3
    <2>6. /\ Len(C \o D) = s + 5
          /\ \A i \in 1..(s + 2) : (C \o D)[i] = C[i]
          /\ (C \o D)[s + 3] = D[1] /\ (C \o D)[s + 4] = D[2] /\ (C \o D)[s + 5] = D[3]
      BY <2>3, <2>5, ClockThenDays
    <2>7. 1 \in 1..(s + 2) /\ s + 1 \in 1..(s + 2) /\ s + 2 \in 1..(s + 2)
      BY <2>5
    <2> HIDE DEF F
    <2>8. Ordered(F, u, n, t, s)
      BY <2>1, <2>3, <2>5, <2>6, <2>7, Zenon DEF Ordered, d1, d2, d3
    <2> QED
      BY <2>8 DEF s, F
  <1> QED
    BY <1>1, <1>2, <1>3, <1>4, <1>5

OptionsFor(u, t) == [enableSeconds |-> SecondsFor(u, t), enableYears |-> FALSE]

\* The field that a rule asks for is in its place.
LEMMA FieldsInOrder ==
    ASSUME NEW u, NEW n, NEW t, Schedule(u, n, t)
    PROVE  LET rules == Rules(OptionsFor(u, t))
               fields == FieldsFor(u, n, t)
           IN  /\ Len(fields) = Len(rules)
               /\ \A k \in DOMAIN rules : fields[k] = TextOf(u, n, t, rules[k])
               /\ \A k \in DOMAIN rules : /\ rules[k] \in Field \ {"years"}
                                          /\ rules[k] = "seconds" => SecondsFor(u, t)
               /\ SecondsFor(u, t) => \E k \in DOMAIN rules : rules[k] = "seconds"
               /\ \A f \in {"minutes", "hours", "dayOfMonth", "months", "dayOfWeek"} :
                     \E k \in DOMAIN rules : rules[k] = f
  <1> DEFINE o == OptionsFor(u, t)
             rules == Rules(o)
             fields == FieldsFor(u, n, t)
             s == IF SecondsFor(u, t) THEN 1 ELSE 0
  <1>1. /\ o.enableSeconds = SecondsFor(u, t) /\ o.enableYears = FALSE
        /\ SecondsFor(u, t) \in BOOLEAN
    BY DEF OptionsFor, SecondsFor
  <1>2. /\ DOMAIN rules = 1..(s + 5) /\ Len(rules) = s + 5
        /\ s = 1 => rules[1] = "seconds"
        /\ rules[s + 1] = "minutes" /\ rules[s + 2] = "hours"
        /\ rules[s + 3] = "dayOfMonth" /\ rules[s + 4] = "months"
        /\ rules[s + 5] = "dayOfWeek"
    <2> HIDE DEF o
    <2>3. WithoutYears(o)
      BY <1>1 DEF WithoutYears
    <2>1. Listed(Rules(o), IF o.enableSeconds THEN 1 ELSE 0)
      BY <2>3, RulesInOrder, Zenon
    <2>2. Listed(rules, s)
      BY <1>1, <2>1, Zenon
    <2> QED
      BY <2>2, Zenon DEF Listed
  <1>3. Ordered(fields, u, n, t, s)
    BY FieldsAreOrdered
  <1>4. s \in {0, 1} /\ (s = 1 <=> SecondsFor(u, t))
    BY <1>1
  <1> HIDE DEF rules, fields, s, o
  <1>5. \A k \in DOMAIN rules : \/ s = 1 /\ k = 1
                                \/ k \in {s + 1, s + 2, s + 3, s + 4, s + 5}
    BY <1>2, <1>4
  <1>6. ASSUME NEW k \in DOMAIN rules PROVE fields[k] = TextOf(u, n, t, rules[k])
    <2>1. CASE s = 1 /\ k = 1
      BY <1>2, <1>3, <2>1, Zenon DEF Ordered
    <2>2. CASE k \in {s + 1, s + 2, s + 3, s + 4, s + 5}
      BY <1>2, <1>3, <2>2, Zenon DEF Ordered
    <2> QED
      BY <1>5, <2>1, <2>2
  <1>7. ASSUME NEW k \in DOMAIN rules
        PROVE  rules[k] \in Field \ {"years"} /\ (rules[k] = "seconds" => SecondsFor(u, t))
    <2>1. CASE s = 1 /\ k = 1
      BY <1>2, <1>4, <2>1, FieldNames
    <2>2. CASE k \in {s + 1, s + 2, s + 3, s + 4, s + 5}
      <3>1. rules[k] \in {"minutes", "hours", "dayOfMonth", "months", "dayOfWeek"}
        BY <1>2, <2>2, Zenon
      <3> QED
        BY <3>1, FieldNames
    <2> QED
      BY <1>5, <2>1, <2>2
  <1>8. Len(fields) = Len(rules)
    BY <1>2, <1>3 DEF Ordered
  <1>9. SecondsFor(u, t) => \E k \in DOMAIN rules : rules[k] = "seconds"
    BY <1>2, <1>4
  <1>10. ASSUME NEW f \in {"minutes", "hours", "dayOfMonth", "months", "dayOfWeek"}
         PROVE  \E k \in DOMAIN rules : rules[k] = f
    <2>1. /\ s + 1 \in DOMAIN rules /\ s + 2 \in DOMAIN rules /\ s + 3 \in DOMAIN rules
          /\ s + 4 \in DOMAIN rules /\ s + 5 \in DOMAIN rules
      BY <1>2, <1>4
    <2> QED
      BY <1>2, <2>1, Zenon
  <1> QED
    BY <1>6, <1>7, <1>8, <1>9, <1>10 DEF rules, fields, o

\* What the text of a field is read as.
LEMMA TextIsRead ==
    ASSUME NEW u, NEW n, NEW t, Schedule(u, n, t), NEW f \in Field \ {"years"},
           f = "seconds" => SecondsFor(u, t)
    PROVE  LET text == TextOf(u, n, t, f) IN
           \/ text = Any
           \/ \E x \in Allowed(f) : text = <<x>>
           \/ text = EveryOf(n) /\ Least[f] = 0 /\ n \in Nat \ {0}
  <1> DEFINE text == TextOf(u, n, t, f)
  <1>1. u \in {"second", "minute", "hour", "day", "week", "month", "weekday"}
    BY DEF Schedule, Unit
  <1>2. f \in {"seconds", "minutes", "hours", "dayOfMonth", "months", "dayOfWeek"}
    BY FieldNames
  <1>3. u \in Subday => n \in Nat \ {0}
    BY DEF Schedule
  <1>4. /\ 0 \in Allowed("seconds") /\ 0 \in Allowed("minutes") /\ 0 \in Allowed("hours")
        /\ 1 \in Allowed("dayOfMonth") /\ 0 \in Allowed("dayOfWeek")
        /\ u = "weekday" => n \in Allowed("dayOfWeek")
    BY ClockAssumption DEF Allowed, Least, Greatest, Schedule
  <1>5. Least["seconds"] = 0 /\ Least["minutes"] = 0 /\ Least["hours"] = 0
    BY DEF Least
  <1>6. u \in Subday <=> u \in {"second", "minute", "hour"}
    BY DEF Subday
  <1>7. u \notin Subday /\ t # <<>> =>
            /\ t[1] \in Allowed("hours") /\ t[2] \in Allowed("minutes")
            /\ Len(t) = 3 => t[3] \in Allowed("seconds")
    BY DEF Schedule
  <1>8. CASE f = "seconds"
    <2>1. CASE u \in Subday
      <3>1. text = EveryOf(n)
        BY <1>8, <2>1 DEF TextOf
      <3> QED
        BY <1>3, <1>5, <1>8, <2>1, <3>1
    <2>2. CASE u \notin Subday
      <3>1. Len(t) = 3
        BY <1>6, <1>8, <2>2 DEF SecondsFor
      <3>2. t # <<>>
        BY <3>1
      <3>3. text = <<t[3]>>
        BY <1>8, <2>2 DEF TextOf
      <3>4. t[3] \in Allowed(f)
        BY <1>7, <1>8, <2>2, <3>1, <3>2
      <3> QED
        BY <3>3, <3>4, Zenon
    <2> QED
      BY <2>1, <2>2
  <1>9. CASE f = "minutes"
    <2>1. text \in {Any, <<0>>} \/ (text = EveryOf(n) /\ u \in Subday)
             \/ (text = <<t[2]>> /\ t # <<>> /\ u \notin Subday)
      BY <1>1, <1>6, <1>9 DEF TextOf
    <2>2. 0 \in Allowed(f) /\ Least[f] = 0 /\ (t # <<>> /\ u \notin Subday => t[2] \in Allowed(f))
      BY <1>4, <1>5, <1>7, <1>9
    <2> QED
      BY <1>3, <2>1, <2>2, Zenon
  <1>10. CASE f = "hours"
    <2>1. text \in {Any, <<0>>} \/ (text = EveryOf(n) /\ u \in Subday)
             \/ (text = <<t[1]>> /\ t # <<>> /\ u \notin Subday)
      BY <1>1, <1>6, <1>10 DEF TextOf
    <2>2. 0 \in Allowed(f) /\ Least[f] = 0 /\ (t # <<>> /\ u \notin Subday => t[1] \in Allowed(f))
      BY <1>4, <1>5, <1>7, <1>10
    <2> QED
      BY <1>3, <2>1, <2>2, Zenon
  <1>11. CASE f = "dayOfMonth"
    <2>1. text \in {Any, <<1>>}
      BY <1>11 DEF TextOf
    <2> QED
      BY <1>4, <1>11, <2>1
  <1>12. CASE f = "months"
    BY <1>12 DEF TextOf
  <1>13. CASE f = "dayOfWeek"
    <2>1. text \in {Any, <<0>>} \/ (text = <<n>> /\ u = "weekday")
      BY <1>1, <1>13 DEF TextOf
    <2> QED
      BY <1>4, <1>13, <2>1
  <1> QED
    BY <1>2, <1>8, <1>9, <1>10, <1>11, <1>12, <1>13

\* An interval, one included.
LEMMA EveryIsRead ==
    ASSUME NEW f \in Field, Least[f] = 0, NEW n \in Nat \ {0}
    PROVE  /\ parseField(EveryOf(n), f) = {v \in Allowed(f) : v % n = 0}
           /\ parseField(EveryOf(n), f) # {}
  <1>1. CASE n = 1
    <2>1. parseField(EveryOf(n), f) = Allowed(f) /\ Allowed(f) # {}
      BY <1>1, AnyIsRead DEF EveryOf
    <2>2. \A v \in Allowed(f) : v % 1 = 0
      BY AllowedIs
    <2> QED
      BY <1>1, <2>1, <2>2
  <1>2. CASE n # 1
    BY <1>2, MultiplesAreRead DEF EveryOf
  <1> QED
    BY <1>1, <1>2

\* What Do builds of a schedule is a parser, and its fields are those texts.
Values(u, n, t, f) == parseField(TextOf(u, n, t, f), f)

ParserIsMade(p, u, n, t) ==
    /\ p # Refused
    /\ p.enableSeconds = SecondsFor(u, t)
    /\ SecondsFor(u, t) => p.seconds = Values(u, n, t, "seconds")
    /\ p.minutes = Values(u, n, t, "minutes") /\ p.hours = Values(u, n, t, "hours")
    /\ p.dayOfMonth = Values(u, n, t, "dayOfMonth") /\ p.dayOfWeek = Values(u, n, t, "dayOfWeek")
    /\ p.dayOfMonthWildcard = IsWildcard(TextOf(u, n, t, "dayOfMonth"))
    /\ p.dayOfWeekWildcard = IsWildcard(TextOf(u, n, t, "dayOfWeek"))

LEMMA ScheduleHasParser ==
    ASSUME NEW u, NEW n, NEW t, Schedule(u, n, t)
    PROVE  ParserIsMade(ParserFor(<<u, n, t>>), u, n, t)
  <1> DEFINE o == OptionsFor(u, t)
             text == [macro |-> "", fields |-> FieldsFor(u, n, t)]
             parts == FieldsFor(u, n, t)
             rules == Rules(o)
             place(f) == {k \in DOMAIN rules : rules[k] = f}
             values(f) == UNION {parseField(parts[k], f) : k \in place(f)}
             wildcard(f) == \A k \in place(f) : IsWildcard(parts[k])
             p == newCronParser(text, o)
  <1>1. ParserFor(<<u, n, t>>) = p
    BY DEF ParserFor, OptionsFor
  <1>2. /\ o.enableSeconds = SecondsFor(u, t) /\ o.enableYears = FALSE
        /\ SecondsFor(u, t) \in BOOLEAN
    BY DEF OptionsFor, SecondsFor
  <1>3. Expand(text) = parts
    BY DEF Expand
  <1>4. /\ Len(parts) = Len(rules)
        /\ \A k \in DOMAIN rules : parts[k] = TextOf(u, n, t, rules[k])
        /\ \A k \in DOMAIN rules : /\ rules[k] \in Field \ {"years"}
                                   /\ rules[k] = "seconds" => SecondsFor(u, t)
        /\ SecondsFor(u, t) => \E k \in DOMAIN rules : rules[k] = "seconds"
        /\ \A f \in {"minutes", "hours", "dayOfMonth", "months", "dayOfWeek"} :
              \E k \in DOMAIN rules : rules[k] = f
    BY FieldsInOrder
  <1>5. ASSUME NEW k \in DOMAIN rules PROVE parseField(parts[k], rules[k]) # {}
    <2> DEFINE f == rules[k]
    <2> HIDE DEF rules, parts
    <2>4. k \in DOMAIN rules
      OBVIOUS
    <2>5. parts[k] = TextOf(u, n, t, rules[k])
      BY <1>4, <2>4, Zenon
    <2>6. rules[k] \in Field \ {"years"} /\ (rules[k] = "seconds" => SecondsFor(u, t))
      <3>1. \A j \in DOMAIN rules : /\ rules[j] \in Field \ {"years"}
                                    /\ rules[j] = "seconds" => SecondsFor(u, t)
        BY <1>4
      <3> QED
        BY <2>4, <3>1
    <2>1. /\ f \in Field \ {"years"} /\ (f = "seconds" => SecondsFor(u, t))
          /\ parts[k] = TextOf(u, n, t, f)
      BY <2>5, <2>6
    <2> HIDE DEF f, parts
    <2>2. \/ parts[k] = Any
          \/ \E x \in Allowed(f) : parts[k] = <<x>>
          \/ parts[k] = EveryOf(n) /\ Least[f] = 0 /\ n \in Nat \ {0}
      BY <2>1, TextIsRead
    <2>3. parseField(parts[k], f) # {}
      BY <2>1, <2>2, AnyIsRead, NumberIsRead, EveryIsRead
    <2> QED
      BY <2>3 DEF f
  <1>6. p # Refused
    <2>1. p = Refused <=> Fails(text, o)
      <3>1. Flagged(o)
        BY <1>2 DEF Flagged
      <3> HIDE DEF text, o
      <3>2. newCronParser(text, o) = Refused <=> Fails(text, o)
        BY <3>1, ParserTyped, Zenon
      <3> QED
        BY <3>2 DEF p
    <2>2. ~Fails(text, o)
      BY <1>3, <1>4, <1>5 DEF Fails
    <2> QED
      BY <2>1, <2>2
  <1>7. /\ p.seconds = values("seconds") /\ p.minutes = values("minutes")
        /\ p.hours = values("hours") /\ p.dayOfMonth = values("dayOfMonth")
        /\ p.dayOfWeek = values("dayOfWeek")
        /\ p.enableSeconds = o.enableSeconds
        /\ p.dayOfMonthWildcard = wildcard("dayOfMonth")
        /\ p.dayOfWeekWildcard = wildcard("dayOfWeek")
    BY <1>3, <1>6 DEF newCronParser
  <1> HIDE DEF p, parts, rules, text, o
  <1>8. ASSUME NEW f, \E k \in DOMAIN rules : rules[k] = f
        PROVE  values(f) = Values(u, n, t, f) /\ wildcard(f) = IsWildcard(TextOf(u, n, t, f))
    <2>1. place(f) # {} /\ \A k \in place(f) : parts[k] = TextOf(u, n, t, f)
      BY <1>4, <1>8
    <2>2. {parseField(parts[k], f) : k \in place(f)} = {Values(u, n, t, f)}
      BY <2>1 DEF Values
    <2>3. values(f) = Values(u, n, t, f)
      BY <2>2
    <2>4. wildcard(f) <=> IsWildcard(TextOf(u, n, t, f))
      BY <2>1, Zenon
    <2>5. wildcard(f) \in BOOLEAN /\ IsWildcard(TextOf(u, n, t, f)) \in BOOLEAN
      BY DEF IsWildcard
    <2> QED
      BY <2>3, <2>4, <2>5, Zenon
  <1> HIDE DEF values, wildcard
  <1>9. ParserIsMade(p, u, n, t)
    BY <1>2, <1>4, <1>6, <1>7, <1>8, Zenon DEF ParserIsMade
  <1> QED
    BY <1>1, <1>9

-----------------------------------------------------------------------------
(***************************************************************************)
(* Hours, minutes and seconds as the digits of a second of the day.        *)
(***************************************************************************)
SameRest(k, b, r, n) == (k * b + r) % n = r % n

LEMMA ModOfSum ==
    ASSUME NEW n \in Nat \ {0}, NEW b \in Int, b % n = 0, NEW k \in Int, NEW r \in Int
    PROVE  SameRest(k, b, r, n)
  <1> DEFINE q == b \div n  d == r \div n  e == r % n
  <1>1. q \in Int /\ b = q * n
    OBVIOUS
  <1>2. d \in Int /\ e \in 0..(n - 1) /\ r = d * n + e
    OBVIOUS
  <1> HIDE DEF q, d, e
  <1>3. k * b + r = (k * q + d) * n + e
    <2>1. k * (q * n) = (k * q) * n
      BY <1>1
    <2>2. (k * q + d) * n = (k * q) * n + d * n
      BY <1>1, <1>2
    <2>3. (k * q) * n \in Int /\ d * n \in Int
      BY <1>1, <1>2
    <2> QED
      BY <1>1, <1>2, <2>1, <2>2, <2>3
  <1>4. k * q + d \in Int
    BY <1>1, <1>2
  <1>5. ((k * q + d) * n + e) % n = e
    BY <1>2, <1>4, QuotientIs
  <1> QED
    BY <1>3, <1>5 DEF e, SameRest

\* A multiple of n units is a multiple of the unit, n times over.
Multiple(a, b, n, r) == (a * b + r) % (n * b) = 0 <=> a % n = 0 /\ r = 0

LEMMA MultipleOfUnit ==
    ASSUME NEW n \in Nat \ {0}, NEW b \in Nat \ {0}, NEW a \in Int, NEW r \in 0..(b - 1)
    PROVE  Multiple(a, b, n, r)
  <1> DEFINE q == a \div n  e == a % n  c == n * b  v == e * b + r
  <1>1. q \in Int /\ e \in 0..(n - 1) /\ a = q * n + e
    OBVIOUS
  <1>2. c \in Nat \ {0}
    OBVIOUS
  <1> HIDE DEF q, e
  <1>3. a * b + r = q * c + v
    <2>1. a * b = (q * n) * b + e * b
      BY <1>1
    <2>2. (q * n) * b = q * c
      BY <1>1
    <2>3. e * b \in Int /\ q * c \in Int
      BY <1>1
    <2> HIDE DEF c
    <2> QED
      BY <2>1, <2>2, <2>3
  <1>4. v \in 0..(c - 1)
    <2>1. 0 <= e * b /\ e * b <= (n - 1) * b
      BY <1>1
    <2>2. (n - 1) * b = c - b
      OBVIOUS
    <2>3. e * b \in Int
      BY <1>1
    <2> HIDE DEF c
    <2> QED
      BY <1>2, <2>1, <2>2, <2>3
  <1> HIDE DEF c, v
  <1>5. (q * c + v) % c = v
    BY <1>1, <1>2, <1>4, QuotientIs
  <1>6. v = 0 <=> e = 0 /\ r = 0
    <2>1. e * b \in Nat /\ (e * b = 0 <=> e = 0)
      BY <1>1
    <2> QED
      BY <2>1 DEF v
  <1> QED
    BY <1>3, <1>5, <1>6 DEF c, e, Multiple

LEMMA UnitDivides ==
    ASSUME NEW n \in Nat \ {0}, NEW b \in Nat \ {0}, NEW a \in Int
    PROVE  (a * b) % (n * b) = 0 => a % n = 0
  <1>1. \A r \in 0..(b - 1) : Multiple(a, b, n, r)
    BY MultipleOfUnit, Zenon
  <1>2. 0 \in 0..(b - 1) /\ a * b + 0 = a * b
    OBVIOUS
  <1>3. (a * b + 0) % (n * b) = 0 <=> a % n = 0 /\ 0 = 0
    BY <1>1, <1>2, Zenon DEF Multiple
  <1> QED
    BY <1>2, <1>3, Zenon

\* A second of the day has three digits, and they make a second of the day.
At3(h, m, s) == h * Hour + m * Minute + s

LEMMA ClockIs ==
    /\ Minute \in Nat \ {0} /\ Hour \in Nat \ {0} /\ Midnights \in Nat \ {0}
    /\ Hour = MinutesPerHour * Minute /\ Midnights = HoursPerDay * Hour
    /\ MinutesPerHour \in Nat \ {0} /\ HoursPerDay \in Nat \ {0}
    /\ Allowed("seconds") = 0..(Minute - 1)
    /\ Allowed("minutes") = 0..(MinutesPerHour - 1)
    /\ Allowed("hours") = 0..(HoursPerDay - 1)
  <1>1. /\ Minute \in Nat \ {0} /\ MinutesPerHour \in Nat \ {0} /\ HoursPerDay \in Nat \ {0}
    BY ClockAssumption DEF Minute
  <1>2. \A a, b \in Nat \ {0} : a * b \in Nat \ {0}
    OBVIOUS
  <1>3. Hour \in Nat \ {0}
    BY <1>1, <1>2 DEF Hour
  <1>4. Midnights \in Nat \ {0}
    BY <1>1, <1>2, <1>3 DEF Midnights
  <1>5. /\ Allowed("seconds") = 0..(Minute - 1)
        /\ Allowed("minutes") = 0..(MinutesPerHour - 1)
        /\ Allowed("hours") = 0..(HoursPerDay - 1)
    BY DEF Allowed, Least, Greatest, Minute
  <1> QED
    BY <1>1, <1>3, <1>4, <1>5 DEF Hour, Midnights

LEMMA TwoDigits ==
    ASSUME NEW b \in Nat \ {0}, NEW n \in Nat \ {0}, NEW y \in 0..(n * b - 1)
    PROVE  y \div b \in 0..(n - 1) /\ y % b \in 0..(b - 1) /\ y = (y \div b) * b + (y % b)
  <1> DEFINE q == y \div b  e == y % b
  <1>1. q \in Int /\ e \in 0..(b - 1) /\ y = q * b + e
    OBVIOUS
  <1> HIDE DEF q, e
  <1>2. q < n
    <2> SUFFICES ASSUME q >= n PROVE FALSE
      BY <1>1
    <2>1. q * b >= n * b
      BY <1>1
    <2> QED
      BY <1>1, <2>1
  <1>3. q >= 0
    <2> SUFFICES ASSUME q <= -1 PROVE FALSE
      BY <1>1
    <2>1. q * b <= (-1) * b
      BY <1>1
    <2> QED
      BY <1>1, <2>1
  <1>4. q \in 0..(n - 1)
    BY <1>1, <1>2, <1>3
  <1> QED
    BY <1>1, <1>4, Zenon DEF q, e

LEMMA HasDigits ==
    ASSUME NEW x \in 0..(Midnights - 1)
    PROVE  \E h \in Allowed("hours"), m \in Allowed("minutes"), s \in Allowed("seconds") :
              x = At3(h, m, s)
  <1> DEFINE h == x \div Hour  r == x % Hour  m == r \div Minute  s == r % Minute
  <1>1. /\ Minute \in Nat \ {0} /\ Hour \in Nat \ {0}
        /\ Hour = MinutesPerHour * Minute /\ Midnights = HoursPerDay * Hour
        /\ MinutesPerHour \in Nat \ {0} /\ HoursPerDay \in Nat \ {0}
        /\ Allowed("seconds") = 0..(Minute - 1)
        /\ Allowed("minutes") = 0..(MinutesPerHour - 1)
        /\ Allowed("hours") = 0..(HoursPerDay - 1)
    BY ClockIs
  <1>3. h \in 0..(HoursPerDay - 1) /\ r \in 0..(Hour - 1) /\ x = h * Hour + r
    <2>1. x \in 0..(HoursPerDay * Hour - 1)
      BY <1>1
    <2> QED
      BY <1>1, <2>1, TwoDigits, Zenon
  <1> HIDE DEF h, r
  <1>4. m \in 0..(MinutesPerHour - 1) /\ s \in 0..(Minute - 1) /\ r = m * Minute + s
    <2>1. r \in 0..(MinutesPerHour * Minute - 1)
      BY <1>1, <1>3
    <2> QED
      BY <1>1, <2>1, TwoDigits, Zenon
  <1> HIDE DEF m, s
  <1>5. x = At3(h, m, s)
    <2>1. h * Hour \in Int /\ m * Minute \in Int
      BY <1>1, <1>3, <1>4
    <2> QED
      BY <1>3, <1>4, <2>1 DEF At3
  <1> QED
    BY <1>1, <1>3, <1>4, <1>5

LEMMA DigitsMake ==
    ASSUME NEW h \in Allowed("hours"), NEW m \in Allowed("minutes"), NEW s \in Allowed("seconds")
    PROVE  /\ At3(h, m, s) \in 0..(Midnights - 1)
           /\ At3(h, m, s) = (h * MinutesPerHour + m) * Minute + s
           /\ m * Minute + s \in 0..(Hour - 1)
           /\ At3(h, m, s) = h * Hour + (m * Minute + s)
  <1>1. /\ Minute \in Nat \ {0} /\ Hour \in Nat \ {0}
        /\ Hour = MinutesPerHour * Minute /\ Midnights = HoursPerDay * Hour
        /\ MinutesPerHour \in Nat \ {0} /\ HoursPerDay \in Nat \ {0}
        /\ s \in 0..(Minute - 1) /\ m \in 0..(MinutesPerHour - 1) /\ h \in 0..(HoursPerDay - 1)
    BY ClockIs
  <1>2. ASSUME NEW b \in Nat \ {0}, NEW n \in Nat \ {0}, NEW q \in 0..(n - 1),
               NEW e \in 0..(b - 1)
        PROVE  q * b + e \in 0..(n * b - 1)
    <2>1. q * b <= (n - 1) * b /\ 0 <= q * b
      OBVIOUS
    <2>2. (n - 1) * b = n * b - b
      OBVIOUS
    <2>3. q * b \in Int /\ n * b \in Int
      OBVIOUS
    <2> QED
      BY <2>1, <2>2, <2>3
  <1>3. m * Minute + s \in 0..(Hour - 1)
    BY <1>1, <1>2
  <1> DEFINE r == m * Minute + s
  <1> HIDE DEF r
  <1>4. h * Hour + r \in 0..(Midnights - 1)
    BY <1>1, <1>2, <1>3 DEF r
  <1>5. h * Hour \in Int /\ m * Minute \in Int
    BY <1>1
  <1>6. At3(h, m, s) = h * Hour + r
    BY <1>1, <1>5 DEF At3, r
  <1>7. At3(h, m, s) = (h * MinutesPerHour + m) * Minute + s
    <2>1. h * Hour = (h * MinutesPerHour) * Minute
      BY <1>1
    <2>2. (h * MinutesPerHour + m) * Minute = (h * MinutesPerHour) * Minute + m * Minute
      BY <1>1
    <2> QED
      BY <1>1, <1>5, <2>1, <2>2 DEF At3
  <1> QED
    BY <1>3, <1>4, <1>6, <1>7 DEF r

-----------------------------------------------------------------------------
(***************************************************************************)
(* A parser made for a schedule runs when the schedule says.               *)
(***************************************************************************)
LEMMA ClockNames ==
    /\ "seconds" \in Field /\ "minutes" \in Field /\ "hours" \in Field
    /\ Least["seconds"] = 0 /\ Least["minutes"] = 0 /\ Least["hours"] = 0
  BY FieldNames DEF Least

LEMMA ZeroIsAllowed ==
    0 \in Allowed("seconds") /\ 0 \in Allowed("minutes") /\ 0 \in Allowed("hours")
  BY ClockAssumption DEF Allowed, Least, Greatest

\* The values at which a parser runs in a day.
Seconds(p) == IF p.enableSeconds THEN p.seconds ELSE {0}

LEMMA TimesAre ==
    ASSUME NEW p, NEW x
    PROVE  x \in TimesOf(p) <=> \E h \in p.hours, m \in p.minutes, s \in Seconds(p) :
                                   x = At3(h, m, s)
  BY DEF TimesOf, Seconds, At3

LEMMA EverySecondsRun ==
    ASSUME NEW p, NEW n, NEW t, Schedule("second", n, t), ParserIsMade(p, "second", n, t),
           Minute % n = 0
    PROVE  TimesOf(p) = {x \in 0..(Midnights - 1) : x % n = 0}
  <1>1. n \in Nat \ {0}
    BY DEF Schedule, Subday
  <1>2. /\ Seconds(p) = {v \in Allowed("seconds") : v % n = 0}
        /\ p.minutes = Allowed("minutes") /\ p.hours = Allowed("hours")
    <2>1. SecondsFor("second", t) = TRUE
      BY DEF SecondsFor
    <2>2. /\ Values("second", n, t, "seconds") = parseField(EveryOf(n), "seconds")
          /\ Values("second", n, t, "minutes") = parseField(Any, "minutes")
          /\ Values("second", n, t, "hours") = parseField(Any, "hours")
      BY DEF Values, TextOf, Subday
    <2>3. parseField(EveryOf(n), "seconds") = {v \in Allowed("seconds") : v % n = 0}
      BY <1>1, ClockNames, EveryIsRead
    <2>4. /\ parseField(Any, "minutes") = Allowed("minutes")
          /\ parseField(Any, "hours") = Allowed("hours")
      BY ClockNames, AnyIsRead
    <2> QED
      BY <2>1, <2>2, <2>3, <2>4 DEF ParserIsMade, Seconds
  <1>3. ASSUME NEW h \in Allowed("hours"), NEW m \in Allowed("minutes"),
               NEW s \in Allowed("seconds")
        PROVE  At3(h, m, s) % n = s % n
    <2> DEFINE k == h * MinutesPerHour + m
    <2>1. h \in Int /\ m \in Int /\ s \in Int /\ MinutesPerHour \in Int /\ Minute \in Int
      BY ClockIs
    <2>2. k \in Int
      BY <2>1
    <2>3. At3(h, m, s) = k * Minute + s
      BY DigitsMake
    <2> HIDE DEF k
    <2>4. SameRest(k, Minute, s, n)
      BY <1>1, <2>1, <2>2, ModOfSum, Zenon
    <2> QED
      BY <2>3, <2>4, Zenon DEF SameRest
  <1>4. ASSUME NEW x \in TimesOf(p) PROVE x \in 0..(Midnights - 1) /\ x % n = 0
    <2>1. PICK h \in p.hours, m \in p.minutes, s \in Seconds(p) : x = At3(h, m, s)
      BY TimesAre
    <2> QED
      BY <1>2, <1>3, <2>1, DigitsMake
  <1>5. ASSUME NEW x \in 0..(Midnights - 1), x % n = 0 PROVE x \in TimesOf(p)
    <2>1. PICK h \in Allowed("hours"), m \in Allowed("minutes"), s \in Allowed("seconds") :
             x = At3(h, m, s)
      BY HasDigits
    <2>2. s % n = 0
      BY <1>3, <1>5, <2>1
    <2> QED
      BY <1>2, <2>1, <2>2, TimesAre
  <1> QED
    BY <1>4, <1>5

LEMMA EveryMinutesRun ==
    ASSUME NEW p, NEW n, NEW t, Schedule("minute", n, t), ParserIsMade(p, "minute", n, t),
           Hour % (n * Minute) = 0
    PROVE  TimesOf(p) = {x \in 0..(Midnights - 1) : x % (n * Minute) = 0}
  <1>1. n \in Nat \ {0}
    BY DEF Schedule, Subday
  <1>2. /\ Seconds(p) = {0} /\ p.hours = Allowed("hours")
        /\ p.minutes = {v \in Allowed("minutes") : v % n = 0}
    <2>1. SecondsFor("minute", t) = FALSE
      BY DEF SecondsFor, Subday
    <2>2. /\ Values("minute", n, t, "minutes") = parseField(EveryOf(n), "minutes")
          /\ Values("minute", n, t, "hours") = parseField(Any, "hours")
      BY DEF Values, TextOf
    <2>3. parseField(EveryOf(n), "minutes") = {v \in Allowed("minutes") : v % n = 0}
      BY <1>1, ClockNames, EveryIsRead
    <2>4. parseField(Any, "hours") = Allowed("hours")
      BY ClockNames, AnyIsRead
    <2> QED
      BY <2>1, <2>2, <2>3, <2>4 DEF ParserIsMade, Seconds
  <1>3. Minute \in Nat \ {0} /\ MinutesPerHour \in Int /\ MinutesPerHour % n = 0
    <2>1. /\ Minute \in Nat \ {0} /\ MinutesPerHour \in Int /\ Hour = MinutesPerHour * Minute
      BY ClockIs
    <2>2. (MinutesPerHour * Minute) % (n * Minute) = 0
      BY <2>1
    <2>3. MinutesPerHour % n = 0
      BY <1>1, <2>1, <2>2, UnitDivides, Zenon
    <2> QED
      BY <2>1, <2>3
  <1>4. ASSUME NEW h \in Allowed("hours"), NEW m \in Allowed("minutes"),
               NEW s \in Allowed("seconds")
        PROVE  At3(h, m, s) % (n * Minute) = 0 <=> m % n = 0 /\ s = 0
    <2> DEFINE k == h * MinutesPerHour + m
    <2>1. h \in Int /\ m \in Int /\ s \in 0..(Minute - 1)
      BY ClockIs
    <2>2. k \in Int
      BY <1>3, <2>1
    <2>3. At3(h, m, s) = k * Minute + s
      BY DigitsMake
    <2>4. k % n = m % n
      BY <1>1, <1>3, <2>1, ModOfSum DEF SameRest
    <2> HIDE DEF k
    <2>5. Multiple(k, Minute, n, s)
      BY <1>1, <1>3, <2>1, <2>2, MultipleOfUnit, Zenon
    <2> QED
      BY <2>3, <2>4, <2>5, Zenon DEF Multiple
  <1>5. ASSUME NEW x \in TimesOf(p) PROVE x \in 0..(Midnights - 1) /\ x % (n * Minute) = 0
    <2>1. PICK h \in p.hours, m \in p.minutes, s \in Seconds(p) : x = At3(h, m, s)
      BY TimesAre
    <2>2. h \in Allowed("hours") /\ m \in Allowed("minutes") /\ s \in Allowed("seconds")
      BY <1>2, ZeroIsAllowed
    <2>3. m % n = 0 /\ s = 0
      BY <1>2
    <2> QED
      BY <1>4, <2>1, <2>2, <2>3, DigitsMake, Zenon
  <1>6. ASSUME NEW x \in 0..(Midnights - 1), x % (n * Minute) = 0 PROVE x \in TimesOf(p)
    <2>1. PICK h \in Allowed("hours"), m \in Allowed("minutes"), s \in Allowed("seconds") :
             x = At3(h, m, s)
      BY HasDigits
    <2>2. m % n = 0 /\ s = 0
      BY <1>4, <1>6, <2>1, Zenon
    <2> QED
      BY <1>2, <2>1, <2>2, TimesAre
  <1> DEFINE c == n * Minute
  <1> HIDE DEF c
  <1>7. \A x \in TimesOf(p) : x \in 0..(Midnights - 1) /\ x % c = 0
    BY <1>5 DEF c
  <1>8. \A x \in 0..(Midnights - 1) : x % c = 0 => x \in TimesOf(p)
    BY <1>6 DEF c
  <1>9. TimesOf(p) = {x \in 0..(Midnights - 1) : x % c = 0}
    BY <1>7, <1>8
  <1> QED
    BY <1>9 DEF c

LEMMA EveryHoursRun ==
    ASSUME NEW p, NEW n, NEW t, Schedule("hour", n, t), ParserIsMade(p, "hour", n, t)
    PROVE  TimesOf(p) = {x \in 0..(Midnights - 1) : x % (n * Hour) = 0}
  <1>1. n \in Nat \ {0}
    BY DEF Schedule, Subday
  <1>2. /\ Seconds(p) = {0} /\ p.minutes = {0}
        /\ p.hours = {v \in Allowed("hours") : v % n = 0}
    <2>1. SecondsFor("hour", t) = FALSE
      BY DEF SecondsFor, Subday
    <2>2. /\ Values("hour", n, t, "minutes") = parseField(<<0>>, "minutes")
          /\ Values("hour", n, t, "hours") = parseField(EveryOf(n), "hours")
      BY DEF Values, TextOf
    <2>3. parseField(EveryOf(n), "hours") = {v \in Allowed("hours") : v % n = 0}
      BY <1>1, ClockNames, EveryIsRead
    <2>4. parseField(<<0>>, "minutes") = {0}
      BY ClockNames, ZeroIsAllowed, NumberIsRead
    <2> QED
      BY <2>1, <2>2, <2>3, <2>4 DEF ParserIsMade, Seconds
  <1>3. Minute \in Nat \ {0} /\ Hour \in Nat \ {0}
    BY ClockIs
  <1>4. ASSUME NEW h \in Allowed("hours"), NEW m \in Allowed("minutes"),
               NEW s \in Allowed("seconds")
        PROVE  At3(h, m, s) % (n * Hour) = 0 <=> h % n = 0 /\ m = 0 /\ s = 0
    <2> DEFINE r == m * Minute + s
    <2>1. h \in Int /\ m \in Nat /\ s \in Nat
      BY ClockIs
    <2>2. r \in 0..(Hour - 1) /\ At3(h, m, s) = h * Hour + r
      BY DigitsMake
    <2>3. r = 0 <=> m = 0 /\ s = 0
      <3>1. m * Minute \in Nat /\ (m * Minute = 0 <=> m = 0)
        BY <1>3, <2>1
      <3> QED
        BY <2>1, <3>1
    <2> HIDE DEF r
    <2>4. Multiple(h, Hour, n, r)
      BY <1>1, <1>3, <2>1, <2>2, MultipleOfUnit, Zenon
    <2> QED
      BY <2>2, <2>3, <2>4, Zenon DEF Multiple
  <1>5. ASSUME NEW x \in TimesOf(p) PROVE x \in 0..(Midnights - 1) /\ x % (n * Hour) = 0
    <2>1. PICK h \in p.hours, m \in p.minutes, s \in Seconds(p) : x = At3(h, m, s)
      BY TimesAre
    <2>2. h \in Allowed("hours") /\ m \in Allowed("minutes") /\ s \in Allowed("seconds")
      BY <1>2, ZeroIsAllowed
    <2>3. h % n = 0 /\ m = 0 /\ s = 0
      BY <1>2
    <2> QED
      BY <1>4, <2>1, <2>2, <2>3, DigitsMake, Zenon
  <1>6. ASSUME NEW x \in 0..(Midnights - 1), x % (n * Hour) = 0 PROVE x \in TimesOf(p)
    <2>1. PICK h \in Allowed("hours"), m \in Allowed("minutes"), s \in Allowed("seconds") :
             x = At3(h, m, s)
      BY HasDigits
    <2>2. h % n = 0 /\ m = 0 /\ s = 0
      BY <1>4, <1>6, <2>1, Zenon
    <2> QED
      BY <1>2, <2>1, <2>2, TimesAre
  <1> DEFINE c == n * Hour
  <1> HIDE DEF c
  <1>7. \A x \in TimesOf(p) : x \in 0..(Midnights - 1) /\ x % c = 0
    BY <1>5 DEF c
  <1>8. \A x \in 0..(Midnights - 1) : x % c = 0 => x \in TimesOf(p)
    BY <1>6 DEF c
  <1>9. TimesOf(p) = {x \in 0..(Midnights - 1) : x % c = 0}
    BY <1>7, <1>8
  <1> QED
    BY <1>9 DEF c

LEMMA OneTimeRuns ==
    ASSUME NEW p, NEW u, NEW n, NEW t, u \notin Subday, Schedule(u, n, t),
           ParserIsMade(p, u, n, t)
    PROVE  TimesOf(p) = IF t = <<>> THEN {0}
                        ELSE {t[1] * Hour + t[2] * Minute + (IF Len(t) = 3 THEN t[3] ELSE 0)}
  <1>1. u \in {"day", "week", "month", "weekday"}
    BY DEF Schedule, Unit, Subday
  <1>2. ASSUME NEW h, NEW m, NEW s, p.hours = {h}, p.minutes = {m}, Seconds(p) = {s}
        PROVE  TimesOf(p) = {At3(h, m, s)}
    BY <1>2, TimesAre
  <1>3. CASE t = <<>>
    <2>1. Len(t) = 0
      BY <1>3
    <2>2. SecondsFor(u, t) = FALSE
      BY <1>1, <2>1 DEF SecondsFor
    <2>3. /\ Values(u, n, t, "minutes") = parseField(<<0>>, "minutes")
          /\ Values(u, n, t, "hours") = parseField(<<0>>, "hours")
      BY <1>1, <1>3 DEF Values, TextOf
    <2>4. parseField(<<0>>, "minutes") = {0} /\ parseField(<<0>>, "hours") = {0}
      BY ClockNames, ZeroIsAllowed, NumberIsRead
    <2>5. p.minutes = {0} /\ p.hours = {0} /\ Seconds(p) = {0}
      BY <2>2, <2>3, <2>4 DEF ParserIsMade, Seconds
    <2>6. At3(0, 0, 0) = 0
      BY ClockIs DEF At3
    <2> QED
      BY <1>2, <1>3, <2>5, <2>6
  <1>4. CASE t # <<>>
    <2> DEFINE h == t[1]  m == t[2]  s == IF Len(t) = 3 THEN t[3] ELSE 0
    <2>1. /\ h \in Allowed("hours") /\ m \in Allowed("minutes")
          /\ Len(t) = 3 => t[3] \in Allowed("seconds")
      BY <1>4 DEF Schedule
    <2>2. SecondsFor(u, t) = (Len(t) = 3)
      BY <1>1 DEF SecondsFor
    <2>3. /\ Values(u, n, t, "minutes") = parseField(<<m>>, "minutes")
          /\ Values(u, n, t, "hours") = parseField(<<h>>, "hours")
          /\ Values(u, n, t, "seconds") = parseField(<<t[3]>>, "seconds")
      BY <1>1, <1>4 DEF Values, TextOf, Subday
    <2>4. /\ parseField(<<m>>, "minutes") = {m} /\ parseField(<<h>>, "hours") = {h}
          /\ Len(t) = 3 => parseField(<<t[3]>>, "seconds") = {t[3]}
      BY <2>1, ClockNames, NumberIsRead
    <2>5. p.minutes = {m} /\ p.hours = {h} /\ Seconds(p) = {s}
      BY <2>2, <2>3, <2>4 DEF ParserIsMade, Seconds
    <2>6. TimesOf(p) = {At3(h, m, s)}
      BY <1>2, <2>5
    <2> QED
      BY <1>4, <2>6 DEF At3
  <1> QED
    BY <1>3, <1>4

LEMMA DaysRun ==
    ASSUME NEW p, NEW u, NEW n, NEW t, Schedule(u, n, t), ParserIsMade(p, u, n, t)
    PROVE  DaysOf(p) = {d \in (1..31) \X (0..6) : /\ u = "week" => d[2] = 0
                                                  /\ u = "month" => d[1] = 1
                                                  /\ u = "weekday" => d[2] = n}
  <1>1. u \in {"second", "minute", "hour", "day", "week", "month", "weekday"}
    BY DEF Schedule, Unit
  <1>2. /\ "dayOfMonth" \in Field /\ "dayOfWeek" \in Field
        /\ 1 \in Allowed("dayOfMonth") /\ 0 \in Allowed("dayOfWeek")
        /\ u = "weekday" => n \in Allowed("dayOfWeek")
    BY FieldNames DEF Allowed, Least, Greatest, Schedule
  <1>3. /\ p.dayOfMonth = Values(u, n, t, "dayOfMonth")
        /\ p.dayOfWeek = Values(u, n, t, "dayOfWeek")
        /\ p.dayOfMonthWildcard = IsWildcard(TextOf(u, n, t, "dayOfMonth"))
        /\ p.dayOfWeekWildcard = IsWildcard(TextOf(u, n, t, "dayOfWeek"))
    BY DEF ParserIsMade
  <1>4. IsWildcard(Any)
    BY <1>2, AnyIsRead
  <1>5. CASE u \in {"second", "minute", "hour", "day"}
    <2>1. TextOf(u, n, t, "dayOfMonth") = Any /\ TextOf(u, n, t, "dayOfWeek") = Any
      BY <1>5 DEF TextOf
    <2>2. /\ p.dayOfMonthWildcard = TRUE /\ p.dayOfWeekWildcard = TRUE
          /\ p.dayOfMonth = 1..31
      <3>1. parseField(Any, "dayOfMonth") = Allowed("dayOfMonth")
        BY <1>2, AnyIsRead
      <3>2. Allowed("dayOfMonth") = 1..31
        BY DEF Allowed, Least, Greatest
      <3> QED
        BY <1>3, <1>4, <2>1, <3>1, <3>2 DEF IsWildcard, Values
    <2>3. u # "week" /\ u # "month" /\ u # "weekday"
      BY <1>5
    <2>4. DaysOf(p) = (1..31) \X (0..6)
      <3> SUFFICES ASSUME NEW d \in (1..31) \X (0..6) PROVE d \in DaysOf(p)
        BY DEF DaysOf
      <3>1. (CASE p.dayOfMonthWildcard -> p.dayOfWeekWildcard \/ d[2] \in p.dayOfWeek
               [] p.dayOfWeekWildcard -> d[1] \in p.dayOfMonth
               [] OTHER -> d[1] \in p.dayOfMonth \/ d[2] \in p.dayOfWeek)
        BY <2>2
      <3> QED
        BY <3>1 DEF DaysOf
    <2> QED
      BY <2>3, <2>4
  <1>6. CASE u = "month"
    <2>1. TextOf(u, n, t, "dayOfMonth") = <<1>> /\ TextOf(u, n, t, "dayOfWeek") = Any
      BY <1>6 DEF TextOf
    <2>2. parseField(<<1>>, "dayOfMonth") = {1} /\ ~IsWildcard(<<1>>)
      BY <1>2, NumberIsRead
    <2>3. p.dayOfMonth = {1} /\ ~p.dayOfMonthWildcard /\ p.dayOfWeekWildcard
      BY <1>3, <1>4, <2>1, <2>2 DEF Values
    <2> QED
      BY <1>6, <2>3 DEF DaysOf
  <1>7. CASE u \in {"week", "weekday"}
    <2> DEFINE w == IF u = "week" THEN 0 ELSE n
    <2>1. TextOf(u, n, t, "dayOfMonth") = Any /\ TextOf(u, n, t, "dayOfWeek") = <<w>>
      BY <1>7 DEF TextOf
    <2>2. w \in Allowed("dayOfWeek")
      BY <1>2, <1>7
    <2> HIDE DEF w
    <2>3. parseField(<<w>>, "dayOfWeek") = {w} /\ ~IsWildcard(<<w>>)
      BY <1>2, <2>2, NumberIsRead
    <2>4. p.dayOfWeek = {w} /\ ~p.dayOfWeekWildcard /\ p.dayOfMonthWildcard
      BY <1>3, <1>4, <2>1, <2>3 DEF Values
    <2>5. DaysOf(p) = {d \in (1..31) \X (0..6) : d[2] = w}
      BY <2>4 DEF DaysOf
    <2> QED
      BY <1>7, <2>5 DEF w
  <1> QED
    BY <1>1, <1>5, <1>6, <1>7

-----------------------------------------------------------------------------
(***************************************************************************)
(* What Do builds of a builder is made for its schedule; the tasks keep    *)
(* what they were made of, and a builder that nobody has set seconds or    *)
(* years in asks for neither, unless its own unit or time does.            *)
(***************************************************************************)
Arg(t) == IF t.unit \in Subday THEN t.interval
          ELSE IF t.unit = "weekday" THEN t.weekday ELSE 0

\* At means nothing to a second, a minute or an hour.
TimeOf(t) == IF t.unit \in Subday THEN <<>> ELSE t.timeSpec

TaskInv == \A t \in tasks : /\ Schedule(t.unit, Arg(t), TimeOf(t))
                            /\ t.parser = ParserFor(<<t.unit, Arg(t), TimeOf(t)>>)

OptionsInv == ~tainted => ~options.enableSeconds /\ ~options.enableYears

ScheduleInv == TypeOK /\ TaskInv /\ OptionsInv

LEMMA BuilderNumbers == TypeOK => interval \in Int /\ weekday \in 0..6
  <1> SUFFICES ASSUME TypeOK PROVE interval \in Int /\ weekday \in 0..6
    OBVIOUS
  <1>1. interval \in Interval /\ weekday \in Weekday \cup {0}
    BY DEF TypeOK
  <1>2. Interval \subseteq Int /\ Weekday \subseteq 0..6
    BY BuilderAssumption, Zenon
  <1> QED
    BY <1>1, <1>2

LEMMA BuilderHasSchedule ==
    ASSUME TypeOK, IsBuildable, unit \in Subday => interval > 0
    PROVE  LET id == generateTaskID IN Schedule(id[1], id[2], id[3])
  <1> DEFINE id == generateTaskID  n == id[2]  t == id[3]
  <1>1. id[1] = unit
    BY DEF generateTaskID
  <1>2. unit \in Unit \cup {"weekday"}
    BY DEF TypeOK, IsBuildable
  <1>3. CASE unit \in Subday
    <2>1. n = interval /\ unit # "weekday"
      BY <1>3 DEF generateTaskID, Subday
    <2>2. interval \in Int
      BY BuilderAssumption DEF TypeOK
    <2> QED
      BY <1>1, <1>2, <1>3, <2>1, <2>2 DEF Schedule
  <1>4. CASE unit \notin Subday
    <2>1. n = (IF unit = "weekday" THEN weekday ELSE 0) /\ t = timeSpec
      BY <1>4 DEF generateTaskID
    <2>2. weekday \in 0..6
      BY BuilderNumbers
    <2>3. n \in Int /\ (unit = "weekday" => n \in 0..6)
      BY <2>1, <2>2
    <2>4. ASSUME t # <<>>
          PROVE  /\ t \in Seq(Int \cup Symbol) /\ Len(t) \in {2, 3}
                 /\ t[1] \in Allowed("hours") /\ t[2] \in Allowed("minutes")
                 /\ Len(t) = 3 => t[3] \in Allowed("seconds")
      <3>1. TimeIsValid /\ timeSpec \in Seq(Int \cup Symbol)
        BY <1>4, <2>1, <2>4, BuilderAssumption DEF IsBuildable, TypeOK
      <3>2. Len(timeSpec) \in {2, 3} /\ DOMAIN timeSpec = 1..Len(timeSpec)
        BY <3>1 DEF TimeIsValid
      <3> DEFINE names == <<"hours", "minutes", "seconds">>
      <3>3. \A k \in 1..Len(timeSpec) : timeSpec[k] \in Allowed(names[k])
        BY <3>1, <3>2 DEF TimeIsValid
      <3>4. names[1] = "hours" /\ names[2] = "minutes" /\ names[3] = "seconds"
        OBVIOUS
      <3> HIDE DEF names
      <3>5. /\ 1 \in 1..Len(timeSpec) /\ 2 \in 1..Len(timeSpec)
            /\ Len(timeSpec) = 3 => 3 \in 1..Len(timeSpec)
        BY <3>2
      <3>6. /\ timeSpec[1] \in Allowed("hours") /\ timeSpec[2] \in Allowed("minutes")
            /\ Len(timeSpec) = 3 => timeSpec[3] \in Allowed("seconds")
        BY <3>3, <3>4, <3>5, Zenon
      <3> QED
        BY <2>1, <3>1, <3>2, <3>6
    <2> HIDE DEF n, t, id
    <2>5. Schedule(unit, n, t)
      BY <1>2, <1>4, <2>3, <2>4 DEF Schedule
    <2> QED
      BY <1>1, <2>5 DEF n, t, id
  <1> QED
    BY <1>3, <1>4

\* An expression with an interval that is not positive is refused.
LEMMA IntervalIsPositive ==
    ASSUME TypeOK, IsBuildable, Built # Refused, unit \in Subday
    PROVE  interval > 0
  <1> SUFFICES ASSUME interval <= 0 PROVE FALSE
    BY BuilderNumbers
  <1> DEFINE bad == EveryField  zero == <<0>>
  <1>1. interval \in Int /\ unit \in {"second", "minute", "hour"}
    BY BuilderAssumption DEF TypeOK, Subday
  <1>2. \A f : parseField(bad, f) = {}
    <2>1. bad = <<Star, Slash, interval>>
      BY <1>1 DEF EveryField
    <2> QED
      BY <1>1, <2>1, NoMultiples, Zenon
  <1> HIDE DEF bad, zero
  <1>3. Expand(Expression) = Expression.fields
    BY DEF Expand, Expression
  <1>4. \E k \in {1, 2} : k <= Len(Expression.fields) /\ Expression.fields[k] = bad
    <2>1. CASE unit = "second"
      <3>1. Expression.fields = <<bad, Any, Any, Any, Any, Any>>
        BY <2>1 DEF Expression, bad
      <3> QED
        BY <3>1, SixIs
    <2>2. CASE unit = "minute"
      <3>1. Expression.fields = <<bad, Any, Any, Any, Any>>
        BY <2>2 DEF Expression, bad
      <3> QED
        BY <3>1, FiveIs
    <2>3. CASE unit = "hour"
      <3>1. Expression.fields = <<zero, bad, Any, Any, Any>>
        BY <2>3 DEF Expression, bad, zero
      <3> QED
        BY <3>1, FiveIs
    <2> QED
      BY <1>1, <2>1, <2>2, <2>3
  <1>5. Flagged(BuiltOptions)
    BY DEF TypeOK, BuiltOptions, HasSeconds, Flagged
  <1>6. ~Fails(Expression, BuiltOptions)
    BY <1>5, ParserTyped, Zenon DEF Built
  <1>7. /\ Len(Expression.fields) = Len(Rules(BuiltOptions))
        /\ \A k \in DOMAIN Rules(BuiltOptions) :
              parseField(Expression.fields[k], Rules(BuiltOptions)[k]) # {}
    BY <1>3, <1>6 DEF Fails
  <1>8. \A k \in {1, 2} : k <= Len(Rules(BuiltOptions)) => k \in DOMAIN Rules(BuiltOptions)
    BY RulesTyped
  <1> QED
    BY <1>2, <1>4, <1>7, <1>8

\* A builder that asks for the fields it has makes the parser of its schedule.
LEMMA UntaintedBuilds ==
    ASSUME TypeOK, IsBuildable, ~options.enableSeconds, ~options.enableYears
    PROVE  Built = ParserFor(generateTaskID)
  <1> DEFINE id == generateTaskID
  <1>1. BuiltOptions.enableSeconds = HasSeconds /\ BuiltOptions.enableYears = FALSE
    BY DEF TypeOK, BuiltOptions, HasSeconds
  <1>2. Expression = [macro |-> "", fields |-> Expression.fields]
    BY DEF Expression
  <1>3. Expression.fields = FieldsFor(id[1], id[2], id[3])
    BY FieldsOfID
  <1>4. HasSeconds = SecondsFor(id[1], id[3])
    BY SecondsOfID
  <1> QED
    BY <1>1, <1>2, <1>3, <1>4, OptionsOfParser DEF Built, ParserFor

LEMMA UntaintedWorks == ScheduleInv => NewBuilderWorks
  <1> SUFFICES ASSUME ScheduleInv, ~tainted, IsBuildable, unit \in Subday => interval > 0
               PROVE  Built # Refused
    BY DEF NewBuilderWorks
  <1> DEFINE u == generateTaskID[1]  n == generateTaskID[2]  t == generateTaskID[3]
  <1>1. Schedule(u, n, t)
    BY BuilderHasSchedule DEF ScheduleInv
  <1>2. generateTaskID = <<u, n, t>>
    BY DEF generateTaskID
  <1>3. Built = ParserFor(generateTaskID)
    BY UntaintedBuilds DEF ScheduleInv, OptionsInv
  <1> HIDE DEF u, n, t
  <1>4. ParserFor(<<u, n, t>>) # Refused
    BY <1>1, ScheduleHasParser, Zenon DEF ParserIsMade
  <1> QED
    BY <1>2, <1>3, <1>4

LEMMA TasksRunAsAsked == ScheduleInv => ScheduleIsAsAsked
  <1> SUFFICES ASSUME ScheduleInv, NEW task \in tasks,
                      task.unit \in Subday =>
                          Cycle[task.unit] % (task.interval * Length[task.unit]) = 0
               PROVE  /\ TimesOf(task.parser) = TimesAsked(task)
                      /\ DaysOf(task.parser) = DaysAsked(task)
    BY DEF ScheduleIsAsAsked
  <1> DEFINE p == task.parser  u == task.unit  n == Arg(task)  t == TimeOf(task)
  <1>1. Schedule(u, n, t) /\ p = ParserFor(<<u, n, t>>)
    BY DEF ScheduleInv, TaskInv
  <1>2. /\ u \in Subday => n = task.interval
        /\ u = "weekday" => n = task.weekday
    BY DEF Arg, Subday
  <1>3. ParserIsMade(p, u, n, t)
    <2> HIDE DEF p, u, n, t
    <2> QED
      BY <1>1, ScheduleHasParser, Zenon
  <1>4. /\ Length["second"] = 1 /\ Length["minute"] = Minute /\ Length["hour"] = Hour
        /\ Cycle["second"] = Minute /\ Cycle["minute"] = Hour
    BY DEF Length, Cycle
  <1>5. DaysOf(p) = DaysAsked(task)
    <2> DEFINE D == DaysOf(p)
    <2>1. D = {d \in (1..31) \X (0..6) : /\ u = "week" => d[2] = 0
                                         /\ u = "month" => d[1] = 1
                                         /\ u = "weekday" => d[2] = n}
      <3> HIDE DEF p, u, n, t
      <3> QED
        BY <1>1, <1>3, DaysRun DEF D
    <2> HIDE DEF D, n
    <2>2. D = DaysAsked(task)
      BY <1>2, <2>1 DEF DaysAsked
    <2> QED
      BY <2>2 DEF D
  <1>6. CASE u = "second"
    <2>1. n \in Nat \ {0} /\ n = task.interval
      BY <1>1, <1>2, <1>6 DEF Schedule, Subday
    <2>2. Minute % n = 0
      BY <1>4, <1>6, <2>1 DEF Subday
    <2> DEFINE T == TimesOf(p)
    <2>3. T = {x \in 0..(Midnights - 1) : x % n = 0}
      <3> HIDE DEF p, u, n, t
      <3> QED
        BY <1>1, <1>3, <1>6, <2>2, EverySecondsRun, Zenon DEF T
    <2> HIDE DEF T, n
    <2>4. T = TimesAsked(task)
      BY <1>4, <1>6, <2>1, <2>3 DEF TimesAsked, Subday
    <2> QED
      BY <1>5, <2>4 DEF T
  <1>7. CASE u = "minute"
    <2>1. n = task.interval
      BY <1>2, <1>7 DEF Subday
    <2>2. Hour % (n * Minute) = 0
      BY <1>4, <1>7, <2>1 DEF Subday
    <2> DEFINE T == TimesOf(p)
    <2>3. T = {x \in 0..(Midnights - 1) : x % (n * Minute) = 0}
      <3> HIDE DEF p, u, n, t
      <3> QED
        BY <1>1, <1>3, <1>7, <2>2, EveryMinutesRun, Zenon DEF T
    <2> HIDE DEF T, n
    <2>4. T = TimesAsked(task)
      BY <1>4, <1>7, <2>1, <2>3 DEF TimesAsked, Subday
    <2> QED
      BY <1>5, <2>4 DEF T
  <1>8. CASE u = "hour"
    <2>1. n = task.interval
      BY <1>2, <1>8 DEF Subday
    <2> DEFINE T == TimesOf(p)
    <2>3. T = {x \in 0..(Midnights - 1) : x % (n * Hour) = 0}
      <3> HIDE DEF p, u, n, t
      <3> QED
        BY <1>1, <1>3, <1>8, EveryHoursRun, Zenon DEF T
    <2> HIDE DEF T, n
    <2>4. T = TimesAsked(task)
      BY <1>4, <1>8, <2>1, <2>3 DEF TimesAsked, Subday
    <2> QED
      BY <1>5, <2>4 DEF T
  <1>9. CASE u \notin Subday
    <2> DEFINE T == TimesOf(p)
    <2>1. T = IF t = <<>> THEN {0}
              ELSE {t[1] * Hour + t[2] * Minute + (IF Len(t) = 3 THEN t[3] ELSE 0)}
      <3> HIDE DEF p, u, n, t
      <3> QED
        BY <1>1, <1>3, <1>9, OneTimeRuns DEF T
    <2> HIDE DEF T
    <2>2. t = task.timeSpec
      BY <1>9 DEF TimeOf
    <2>3. T = TimesAsked(task)
      BY <1>9, <2>1, <2>2 DEF TimesAsked
    <2> QED
      BY <1>5, <2>3 DEF T
  <1> QED
    BY <1>6, <1>7, <1>8, <1>9 DEF Subday

LEMMA ScheduleInit == Init => ScheduleInv
  <1> SUFFICES ASSUME Init PROVE ScheduleInv
    OBVIOUS
  <1>1. TypeOK
    BY InvInit DEF Inv
  <1>2. PICK l \in Location : options = NewOptions(l)
    BY DEF Init, NewOptions
  <1>3. OptionsInv
    BY <1>2 DEF OptionsInv, NewOptions
  <1>4. TaskInv
    BY DEF Init, TaskInv
  <1> QED
    BY <1>1, <1>3, <1>4 DEF ScheduleInv

\* Only Do adds a task, of a parser that it has built.
LEMMA TaskStep == TypeOK /\ TaskInv /\ [Next]_vars => TaskInv'
  <1> SUFFICES ASSUME TypeOK, TaskInv, [Next]_vars PROVE TaskInv'
    OBVIOUS
  <1>1. CASE tasks' \subseteq tasks
    BY <1>1 DEF TaskInv, Arg, TimeOf
  <1>2. ASSUME NEW id, DoAdds(id) PROVE TaskInv'
    <2> DEFINE new == NewTask(id)  u == generateTaskID[1]  n == generateTaskID[2]
               t == generateTaskID[3]
    <2>1. IsBuildable /\ Built # Refused /\ tasks' = tasks \cup {new}
      BY <1>2 DEF DoAdds, DoBuilds
    <2>2. Schedule(u, n, t)
      BY <2>1, IntervalIsPositive, BuilderHasSchedule
    <2>3. Built = ParserFor(generateTaskID) /\ generateTaskID = <<u, n, t>>
      BY <2>1, BuiltForID DEF generateTaskID
    <2>4. new.unit = u /\ Arg(new) = n /\ TimeOf(new) = t /\ new.parser = Built
      BY DEF NewTask, Arg, TimeOf, generateTaskID
    <2> HIDE DEF new, u, n, t
    <2>5. /\ Schedule(new.unit, Arg(new), TimeOf(new))
          /\ new.parser = ParserFor(<<new.unit, Arg(new), TimeOf(new)>>)
      BY <2>2, <2>3, <2>4, Zenon
    <2> QED
      BY <2>1, <2>5 DEF TaskInv
  <1>3. tasks' \subseteq tasks \/ \E id : DoAdds(id)
    BY DEF Next, vars, Every, SetUnit, SetWeekday, At, WithLocation, WithSeconds,
           WithYears, DoFails, Remove
  <1> QED
    BY <1>1, <1>2, <1>3

LEMMA OptionsStep == TypeOK /\ OptionsInv /\ [Next]_vars => OptionsInv'
  <1> SUFFICES ASSUME TypeOK, OptionsInv, [Next]_vars PROVE OptionsInv'
    OBVIOUS
  <1>1. CASE UNCHANGED <<options, tainted>>
    BY <1>1 DEF OptionsInv
  <1>2. ASSUME NEW n \in Interval, Every(n) PROVE OptionsInv'
    <2>1. PICK l \in Location : options' = NewOptions(l)
      BY <1>2 DEF Every, NewOptions
    <2> QED
      BY <2>1 DEF OptionsInv, NewOptions
  <1>3. ASSUME NEW l \in Location, WithLocation(l) PROVE OptionsInv'
    BY <1>3 DEF WithLocation, OptionsInv, TypeOK
  <1>4. CASE WithSeconds \/ WithYears
    BY <1>4 DEF WithSeconds, WithYears, OptionsInv
  <1>5. CASE DoBuilds
    BY <1>5 DEF DoBuilds, BuiltOptions, OptionsInv, TypeOK
  <1>6. \/ UNCHANGED <<options, tainted>>
        \/ \E n \in Interval : Every(n)
        \/ \E l \in Location : WithLocation(l)
        \/ WithSeconds \/ WithYears \/ DoBuilds
    BY DEF Next, vars, builder, SetUnit, SetWeekday, At, DoAdds, DoFails, Remove
  <1> QED
    BY <1>1, <1>2, <1>3, <1>4, <1>5, <1>6

LEMMA ScheduleStep == ScheduleInv /\ [Next]_vars => ScheduleInv'
  BY TypeStep, TaskStep, OptionsStep DEF ScheduleInv

\* A task runs at the times and on the days that the calls on its builder
\* asked for, for every interval, weekday and time and clocks of any size
\* (buildCronExpression through parseField to the CronParser).
THEOREM TasksRunWhenAsked == Spec => []ScheduleIsAsAsked
  BY TasksRunAsAsked, ScheduleInit, ScheduleStep, PTL DEF Spec

\* Do never fails for its expression on a builder in which seconds and years
\* have not been set, neither by hand nor by an earlier Do.
THEOREM NewBuildersWork == Spec => []NewBuilderWorks
  BY UntaintedWorks, ScheduleInit, ScheduleStep, PTL DEF Spec

=============================================================================
