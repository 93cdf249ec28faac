--------------------------- MODULE CronNext_proofs ----------------------------
(***************************************************************************)
(* A text is read as documented, what newCronParser accepts is safe for    *)
(* Next, and what Next returns is right: for every text, every choice of   *)
(* options, every length of a day, every location with at most one         *)
(* transition, and every time from the year 1 on.  Module MCCronNext tries *)
(* some of each.  Module CronField_proofs has what is about texts alone.   *)
(***************************************************************************)
EXTENDS CronNext, CronField_proofs

(***************************************************************************)
(* In the specification of CronNext: the parser is made of one of the      *)
(* sources, and Next is called with it as it was made.                     *)
(***************************************************************************)
Parsed == /\ at = "parse" => source \in Source
          /\ ParserIsSound

\* Until Next is called the parser is one that newCronParser returned.
LEMMA ParsedInvariant == Spec => []Parsed
<1>1. Init => Parsed
  BY DEF Init, Parsed, ParserIsSound
<1>2. Parsed /\ [Next]_vars => Parsed'
  <2> SUFFICES ASSUME Parsed, [Next]_vars PROVE Parsed'
    OBVIOUS
  <2>1. CASE New
    <3>1. /\ source \in Source /\ at' \in {"refused", "call"}
          /\ expr' = newCronParser(source.text, source.opts)
          /\ at' = "call" => expr' # Refused
      BY <2>1 DEF New, Parsed
    <3>2. at' = "call" => Sound(expr')
      BY <3>1, ParsersAreSound
    <3> QED BY <3>1, <3>2 DEF Parsed, ParserIsSound, Sound
  <2>2. CASE Call
    BY <2>2 DEF Call, Parsed, ParserIsSound
  <2>3. CASE Exhausted \/ Year \/ Month \/ DayMissing \/ DayFound
    <3>1. at \notin {"parse", "call"} /\ at' \notin {"parse", "call"}
      BY <2>3 DEF Exhausted, Year, Month, DayMissing, DayFound, Searching, Seek, Again, Return
    <3> QED BY <3>1 DEF Parsed, ParserIsSound
  <2>4. CASE HourStep \/ MinuteStep \/ SecondStep \/ DateStep
    <3>1. at \notin {"parse", "call"} /\ at' \notin {"parse", "call"}
      BY <2>4 DEF HourStep, MinuteStep, SecondStep, DateStep, Searching, Seek, Again, Return
    <3> QED BY <3>1 DEF Parsed, ParserIsSound
  <2>5. CASE UNCHANGED vars
    BY <2>5 DEF vars, Parsed, ParserIsSound, Sound
  <2> QED BY <2>1, <2>2, <2>3, <2>4, <2>5 DEF Next
<1> QED BY <1>1, <1>2, PTL DEF Spec

\* Whatever AddTask is given, Next finds values in each field it indexes
\* (cron_parser.go:372), for every set of texts and options.
THEOREM NextIsGivenSoundParser == Spec => []ParserIsSound
<1>1. Parsed => ParserIsSound
  BY DEF Parsed
<1> QED BY ParsedInvariant, <1>1, PTL

\* Until Next is called the source is at hand, with the verdict on it.
Judged == /\ at \in {"parse", "refused", "call"} => source \in Source
          /\ at \in {"refused", "call"} =>
                /\ at = "call" <=> newCronParser(source.text, source.opts) # Refused
                /\ expr = newCronParser(source.text, source.opts)

LEMMA JudgedInvariant == Spec => []Judged
<1>1. Init => Judged
  BY DEF Init, Judged
<1>2. Judged /\ [Next]_vars => Judged'
  <2> SUFFICES ASSUME Judged, [Next]_vars PROVE Judged'
    OBVIOUS
  <2> DEFINE early == {"parse", "refused", "call"}
  <2>1. CASE New
    <3>1. /\ source \in Source /\ source' = source
          /\ at' = IF newCronParser(source.text, source.opts) = Refused THEN "refused" ELSE "call"
          /\ expr' = newCronParser(source.text, source.opts)
      BY <2>1 DEF New, Judged
    <3> QED BY <3>1 DEF Judged
  <2>2. CASE Call
    BY <2>2 DEF Call, Judged
  <2>3. CASE Exhausted \/ Year \/ Month \/ DayMissing \/ DayFound
    <3>1. at' \notin early
      BY <2>3 DEF Exhausted, Year, Month, DayMissing, DayFound, Searching, Seek, Again, Return
    <3> QED BY <3>1 DEF Judged
  <2>4. CASE HourStep \/ MinuteStep \/ SecondStep \/ DateStep
    <3>1. at' \notin early
      BY <2>4 DEF HourStep, MinuteStep, SecondStep, DateStep, Searching, Seek, Again, Return
    <3> QED BY <3>1 DEF Judged
  <2>5. CASE UNCHANGED vars
    BY <2>5 DEF vars, Judged
  <2> QED BY <2>1, <2>2, <2>3, <2>4, <2>5 DEF Next
<1> QED BY <1>1, <1>2, PTL DEF Spec

\* The layout that the documents draw and the rules that the code selects are
\* the same fields in the same order.
LEMMA LayoutIsRules ==
    ASSUME NEW o, Flagged(o)
    PROVE  /\ Layout(o) \in Seq(Field) /\ Len(Layout(o)) = Len(Rules(o))
           /\ \A k \in 1..Len(Layout(o)) : Layout(o)[k] = Rules(o)[k]
           /\ \A j, k \in 1..Len(Layout(o)) : Layout(o)[j] = Layout(o)[k] => j = k
<1> DEFINE five == <<"minutes", "hours", "dayOfMonth", "months", "dayOfWeek">>
           sec == IF o.enableSeconds THEN <<"seconds">> ELSE <<>>
           year == IF o.enableYears THEN <<"years">> ELSE <<>>
           first == IF o.enableSeconds THEN 1 ELSE 2
           last == IF o.enableYears THEN 7 ELSE 6
           all == InOrder
<1>1. /\ all \in Seq(Field) /\ Len(all) = 7
      /\ \A j, k \in 1..7 : all[j] = all[k] => j = k
  <2>1. /\ "minutes" \in Field /\ "hours" \in Field /\ "dayOfMonth" \in Field
        /\ "months" \in Field /\ "dayOfWeek" \in Field /\ "seconds" \in Field
        /\ "years" \in Field
    BY FieldNames
  <2> QED BY <2>1 DEF InOrder
<1>2. first \in {1, 2} /\ last \in {6, 7} /\ Layout(o) = SubSeq(all, first, last)
  BY DEF Layout
<1>3. five \in Seq(Field) /\ Len(five) = 5 /\ \A k \in 1..5 : five[k] = all[k + 1]
  <2>1. /\ "minutes" \in Field /\ "hours" \in Field /\ "dayOfMonth" \in Field
        /\ "months" \in Field /\ "dayOfWeek" \in Field
    BY FieldNames
  <2> QED BY <2>1 DEF InOrder
<1>4. /\ sec \in Seq(Field) /\ Len(sec) = 2 - first
      /\ \A k \in 1..Len(sec) : sec[k] = all[k]
  <2>1. "seconds" \in Field
    BY FieldNames
  <2>2. CASE o.enableSeconds
    BY <2>1, <2>2 DEF InOrder
  <2>3. CASE ~o.enableSeconds
    <3>1. <<>> \in Seq(Field) /\ Len(<<>>) = 0
      BY EmptySeq
    <3> QED BY <2>3, <3>1
  <2> QED BY <2>2, <2>3 DEF Flagged
<1>5. /\ year \in Seq(Field) /\ Len(year) = last - 6
      /\ \A k \in 1..Len(year) : year[k] = all[7]
  <2>1. "years" \in Field
    BY FieldNames
  <2>2. CASE o.enableYears
    BY <2>1, <2>2 DEF InOrder
  <2>3. CASE ~o.enableYears
    <3>1. <<>> \in Seq(Field) /\ Len(<<>>) = 0
      BY EmptySeq
    <3> QED BY <2>3, <3>1
  <2> QED BY <2>2, <2>3 DEF Flagged
<1>6. Rules(o) = (sec \o five) \o year
  BY DEF Rules
<1> HIDE DEF five, sec, year, first, last, all
<1>7. /\ Layout(o) \in Seq(Field) /\ Len(Layout(o)) = last - first + 1
      /\ \A k \in 1..Len(Layout(o)) : Layout(o)[k] = all[first + k - 1]
  <2>1. first \in Int
    BY <1>2
  <2>2. last \in Int
    BY <1>2
  <2>3. \A i \in first..last : i \in 1..7
    BY <1>2
  <2>4. \A i \in 1..7 : all[i] \in Field
    <3>1. all \in Seq(Field) /\ Len(all) = 7
      BY <1>1
    <3>2. \A i \in 1..Len(all) : all[i] \in Field
      BY <3>1, ElementOfSeq
    <3> QED BY <3>1, <3>2, Zenon
  <2>5. \A i \in first..last : all[i] \in Field
    BY <2>3, <2>4, Zenon
  <2>6. /\ SubSeq(all, first, last) \in Seq(Field)
        /\ Len(SubSeq(all, first, last)) = IF first <= last THEN last - first + 1 ELSE 0
        /\ \A k \in 1..(last - first + 1) : SubSeq(all, first, last)[k] = all[first + k - 1]
    BY <2>1, <2>2, <2>5, SubSeqProperties
  <2>7. first <= last
    BY <1>2
  <2> DEFINE n == last - first + 1
  <2>8. Len(Layout(o)) = n /\ Layout(o) \in Seq(Field)
    BY <1>2, <2>6, <2>7, Zenon
  <2> QED BY <1>2, <2>6, <2>8, Zenon
<1>8. /\ sec \o five \in Seq(Field) /\ Len(sec \o five) = 7 - first
      /\ \A k \in 1..(7 - first) : (sec \o five)[k] = all[first + k - 1]
  <2>1. /\ sec \o five \in Seq(Field) /\ Len(sec \o five) = Len(sec) + Len(five)
        /\ \A k \in 1..(Len(sec) + Len(five)) :
              (sec \o five)[k] = IF k <= Len(sec) THEN sec[k] ELSE five[k - Len(sec)]
    BY <1>3, <1>4, ConcatProperties, Zenon
  <2>2. ASSUME NEW k \in 1..(7 - first) PROVE (sec \o five)[k] = all[first + k - 1]
    <3>1. /\ Len(sec) \in Nat /\ k \in 1..(Len(sec) + Len(five))
          /\ (sec \o five)[k] = IF k <= Len(sec) THEN sec[k] ELSE five[k - Len(sec)]
      BY <1>2, <1>3, <1>4, <2>1
    <3>2. CASE k <= Len(sec)
      <4>1. k \in 1..Len(sec) /\ k = first + k - 1
        BY <1>2, <1>4, <3>1, <3>2
      <4> QED BY <1>4, <3>1, <3>2, <4>1
    <3>3. CASE ~(k <= Len(sec))
      <4>1. k - Len(sec) \in 1..5 /\ (k - Len(sec)) + 1 = first + k - 1
        BY <1>2, <1>3, <1>4, <3>1, <3>3
      <4> QED BY <1>3, <3>1, <3>3, <4>1
    <3> QED BY <3>2, <3>3
  <2> QED BY <1>2, <1>3, <1>4, <2>1, <2>2
<1>9. Len(Rules(o)) = last - first + 1
  BY <1>2, <1>5, <1>6, <1>8, ConcatProperties
<1>10. ASSUME NEW k \in 1..(last - first + 1) PROVE Rules(o)[k] = all[first + k - 1]
  <2> DEFINE front == sec \o five
  <2>1. \A i \in 1..(Len(front) + Len(year)) :
           Rules(o)[i] = IF i <= Len(front) THEN front[i] ELSE year[i - Len(front)]
    <3>1. front \in Seq(Field)
      BY <1>8
    <3>2. year \in Seq(Field)
      BY <1>5
    <3> HIDE DEF front
    <3>3. \A i \in 1..(Len(front) + Len(year)) :
             (front \o year)[i] = IF i <= Len(front) THEN front[i] ELSE year[i - Len(front)]
      BY <3>1, <3>2, ConcatProperties, Zenon
    <3>4. Rules(o) = front \o year
      BY <1>6 DEF front
    <3> QED BY <3>3, <3>4, Zenon
  <2>2. Len(front) = 7 - first /\ \A i \in 1..(7 - first) : front[i] = all[first + i - 1]
    BY <1>8
  <2> HIDE DEF front
  <2>3. Rules(o)[k] = IF k <= 7 - first THEN front[k] ELSE year[k - (7 - first)]
    BY <1>2, <1>5, <2>1, <2>2
  <2>4. CASE k <= 7 - first
    BY <1>2, <2>2, <2>3, <2>4
  <2>5. CASE ~(k <= 7 - first)
    <3>1. k - (7 - first) = 1 /\ Len(year) = 1 /\ first + k - 1 = 7
      BY <1>2, <1>5, <2>5
    <3> QED BY <1>5, <2>3, <2>5, <3>1
  <2> QED BY <2>4, <2>5
<1>11. ASSUME NEW j \in 1..Len(Layout(o)), NEW k \in 1..Len(Layout(o)),
              Layout(o)[j] = Layout(o)[k]
       PROVE  j = k
  <2> DEFINE n == last - first + 1
  <2>1. j \in 1..n /\ k \in 1..n
    BY <1>7, Zenon
  <2>2. first + j - 1 \in 1..7 /\ first + k - 1 \in 1..7
    BY <1>2, <2>1
  <2>3. all[first + j - 1] = all[first + k - 1]
    BY <1>7, <1>11, Zenon
  <2>4. first + j - 1 = first + k - 1
    BY <1>1, <2>2, <2>3
  <2> QED BY <1>2, <2>1, <2>4
<1> QED BY <1>7, <1>9, <1>10, <1>11

\* What a field is read as becomes the parser's entry of its name.
LEMMA FieldIsKept ==
    ASSUME NEW text, NEW o, newCronParser(text, o) # Refused,
           NEW k \in DOMAIN Rules(o), Rules(o)[k] \in Field,
           \A j \in DOMAIN Rules(o) : Rules(o)[j] = Rules(o)[k] => j = k
    PROVE  newCronParser(text, o)[Rules(o)[k]] = parseField(Expand(text)[k], Rules(o)[k])
<1> DEFINE parts == Expand(text)
           rules == Rules(o)
           place(f) == {i \in DOMAIN rules : rules[i] = f}
           values(f) == UNION {parseField(parts[i], f) : i \in place(f)}
           p == newCronParser(text, o)
<1>1. \A f \in Field : p[f] = values(f)
  <2>1. /\ p.seconds = values("seconds") /\ p.minutes = values("minutes")
        /\ p.hours = values("hours") /\ p.dayOfMonth = values("dayOfMonth")
        /\ p.months = values("months") /\ p.dayOfWeek = values("dayOfWeek")
        /\ p.years = values("years")
    BY DEF newCronParser
  <2> HIDE DEF p, values
  <2> QED BY <2>1, FieldNames
<1> HIDE DEF p, parts, rules
<1>2. place(rules[k]) = {k}
  BY DEF rules
<1>3. values(rules[k]) = parseField(parts[k], rules[k])
  BY <1>2
<1> HIDE DEF values
<1> QED BY <1>1, <1>3 DEF p, parts, rules

\* A field means what the documentation says, an expression is accepted
\* exactly if it has the fields that the options ask for, as many as the tests
\* use, each of them legal, and the parser has each field's values under its
\* name (newCronParser, cron_parser.go:105), for every set of texts and options.
THEOREM FieldsMeanWhatIsDocumented == Spec => []FieldsAreRead
<1>1. Judged => FieldsAreRead
  <2> SUFFICES ASSUME Judged, at \in {"refused", "call"} PROVE FieldsAreRead
    BY DEF FieldsAreRead
  <2> DEFINE fields == Expand(source.text)
             rules == Rules(source.opts)
             layout == Layout(source.opts)
             values(k) == parseField(fields[k], layout[k])
  <2>1. /\ source.text.fields \in Seq(Texts) /\ Flagged(source.opts)
        /\ at = "call" <=> newCronParser(source.text, source.opts) # Refused
        /\ expr = newCronParser(source.text, source.opts)
    BY SourceAssumption DEF Judged, Texts, Flagged
  <2>2. fields \in Seq(Texts) /\ rules \in Seq(Field)
    BY <2>1, ExpandTyped, RulesTyped
  <2>3. newCronParser(source.text, source.opts) = Refused <=>
            \/ Len(fields) # Len(rules)
            \/ \E k \in DOMAIN rules : parseField(fields[k], rules[k]) = {}
    <3>1. newCronParser(source.text, source.opts) = Refused <=> Fails(source.text, source.opts)
      BY <2>1, ParserTyped
    <3> QED BY <3>1, Zenon DEF Fails
  <2>4. /\ layout \in Seq(Field) /\ Len(layout) = Len(rules)
        /\ \A k \in 1..Len(layout) : layout[k] = rules[k]
        /\ \A j, k \in 1..Len(layout) : layout[j] = layout[k] => j = k
    BY <2>1, LayoutIsRules
  <2>5. ASSUME at = "call", NEW k \in DOMAIN layout PROVE expr[layout[k]] = values(k)
    <3>1. /\ k \in DOMAIN rules /\ rules[k] = layout[k] /\ rules[k] \in Field
          /\ \A j \in DOMAIN rules : rules[j] = rules[k] => j = k
      <4> HIDE DEF layout, rules
      <4> QED BY <2>2, <2>4, <2>5
    <3> QED BY <2>1, <2>5, <3>1, FieldIsKept
  <2> HIDE DEF fields, rules, layout
  <2>6. DOMAIN layout = DOMAIN rules /\ \A k \in DOMAIN rules : layout[k] = rules[k]
    BY <2>2, <2>4
  <2>7. Len(fields) = Len(layout) =>
            /\ DOMAIN fields = DOMAIN layout
            /\ \A k \in DOMAIN fields : fields[k] \in Texts /\ layout[k] \in Field
    BY <2>2, <2>4
  <2>8. Len(fields) = Len(layout) => \A k \in DOMAIN fields : Reads(fields[k], layout[k])
    BY <2>7, FieldIsRead
  <2>9. at = "call" <=> Len(fields) = Len(layout) /\ \A k \in DOMAIN fields : values(k) # {}
    BY <2>1, <2>3, <2>4, <2>6, <2>7, Zenon
  <2> HIDE DEF values
  <2>10. \A k \in DOMAIN layout : at = "call" => expr[layout[k]] = values(k)
    BY <2>5
  <2> QED BY <2>8, <2>9, <2>10, Zenon DEF FieldsAreRead, fields, layout, values
<1> QED BY JudgedInvariant, <1>1, PTL

-----------------------------------------------------------------------------
(***************************************************************************)
(* The cursor: the values of its units, and the order in which it moves.   *)
(***************************************************************************)
\* Min chooses the least one of a set of numbers.
LEMMA LeastValue == ASSUME NEW T, T \subseteq Nat, T # {}
                    PROVE  Min(T) \in T /\ \A y \in T : Min(T) <= y
BY Smallest DEF Min

Units == DOMAIN Below

\* The values a field can be moved to, one past the last of some included.
Reach(f) == CASE f = "year" -> Nat \ {0}
              [] f = "month" -> 1..12
              [] f = "day" -> 1..32
              [] f = "hour" -> 0..HoursPerDay
              [] f = "minute" -> 0..MinutesPerHour
              [] OTHER -> 0..(SecondsPerMinute - 1)

Cursor == {c \in [Units -> Nat] : \A f \in Units : c[f] \in Reach(f)}

\* The first field in which two cursors differ decides.
AtLeast(c, d) ==
    c = d \/ \E f \in Units : /\ c[f] > d[f]
                              /\ \A g \in Units : f \in Below[g] => c[g] = d[g]

\* The units in the order in which Below has them.
LEMMA UnitsInOrder ==
    /\ Units = {"year", "month", "day", "hour", "minute", "second"}
    /\ \A f, g \in Units : f = g \/ f \in Below[g] \/ g \in Below[f]
    /\ \A f, g, h \in Units : f \in Below[g] /\ g \in Below[h] => f \in Below[h]
    /\ \A f, g \in Units : f \in Below[g] => f # g /\ g \notin Below[f]
BY DEF Units, Below

LEMMA ReachIs ==
    /\ Reach("year") = Nat \ {0} /\ Reach("month") = 1..12 /\ Reach("day") = 1..32
    /\ Reach("hour") = 0..HoursPerDay /\ Reach("minute") = 0..MinutesPerHour
    /\ Reach("second") = 0..(SecondsPerMinute - 1)
    /\ \A f \in Units : Reach(f) \subseteq Nat
<1>1. \A f \in Units : Reach(f) \subseteq Nat
  BY UnitsInOrder, ClockAssumption DEF Reach
<1> QED BY <1>1 DEF Reach

LEMMA CursorFacts ==
    ASSUME NEW c \in Cursor
    PROVE  /\ c.year \in Nat \ {0} /\ c.month \in 1..12 /\ c.day \in 1..32
           /\ c.hour \in 0..HoursPerDay /\ c.minute \in 0..MinutesPerHour
           /\ c.second \in 0..(SecondsPerMinute - 1)
BY UnitsInOrder, ReachIs DEF Cursor

\* The times at which a search begins are cursors.
LEMMA StartIsCursor == Start \subseteq Cursor
<1> SUFFICES ASSUME NEW d \in Start PROVE d \in Cursor
  OBVIOUS
<1>1. /\ d.year \in Nat \ {0} /\ d.month \in 1..12 /\ d.day \in 1..31
      /\ d.hour \in 0..(HoursPerDay - 1) /\ d.minute \in 0..(MinutesPerHour - 1)
      /\ d.second \in 0..(SecondsPerMinute - 1)
      /\ d = [f \in Units |-> d[f]]
  BY SearchAssumption, UnitsInOrder
<1>2. \A f \in Units : d[f] \in Reach(f)
  BY <1>1, UnitsInOrder, ReachIs, ClockAssumption
<1> QED BY <1>1, <1>2, ReachIs DEF Cursor

\* The order of cursors is transitive, and total.
LEMMA AtLeastGoesOn ==
    ASSUME NEW a \in Cursor, NEW b \in Cursor, NEW c \in Cursor, AtLeast(a, b), AtLeast(b, c)
    PROVE  AtLeast(a, c)
<1>1. CASE a = b \/ b = c
  BY <1>1
<1>2. CASE a # b /\ b # c
  <2>1. PICK f \in Units : /\ a[f] > b[f]
                           /\ \A h \in Units : f \in Below[h] => a[h] = b[h]
    BY <1>2 DEF AtLeast
  <2>2. PICK g \in Units : /\ b[g] > c[g]
                           /\ \A h \in Units : g \in Below[h] => b[h] = c[h]
    BY <1>2 DEF AtLeast
  <2>3. CASE f = g \/ g \in Below[f]
    <3>1. a[f] > c[f]
      BY <2>1, <2>2, <2>3 DEF Cursor
    <3>2. \A h \in Units : f \in Below[h] => a[h] = c[h]
      BY <2>1, <2>2, <2>3, UnitsInOrder
    <3> QED BY <3>1, <3>2 DEF AtLeast
  <2>4. CASE f \in Below[g]
    <3>1. a[g] > c[g]
      BY <2>1, <2>2, <2>4 DEF Cursor
    <3>2. \A h \in Units : g \in Below[h] => a[h] = c[h]
      BY <2>1, <2>2, <2>4, UnitsInOrder
    <3> QED BY <3>1, <3>2 DEF AtLeast
  <2> QED BY <2>3, <2>4, UnitsInOrder
<1> QED BY <1>1, <1>2

\* Two cursors that differ do so in a first unit.
LEMMA FirstDifference ==
    ASSUME NEW a \in Cursor, NEW b \in Cursor, a # b
    PROVE  \E f \in Units : a[f] # b[f] /\ \A g \in Units : f \in Below[g] => a[g] = b[g]
<1>1. a = [f \in Units |-> a[f]] /\ b = [f \in Units |-> b[f]]
  BY DEF Cursor
<1>2. \E f \in Units : a[f] # b[f]
  BY <1>1
<1>3. CASE a["year"] # b["year"]
  BY <1>3, UnitsInOrder DEF Below
<1>4. CASE a["year"] = b["year"] /\ a["month"] # b["month"]
  BY <1>4, UnitsInOrder DEF Below
<1>5. CASE a["year"] = b["year"] /\ a["month"] = b["month"] /\ a["day"] # b["day"]
  BY <1>5, UnitsInOrder DEF Below
<1>6. CASE /\ a["year"] = b["year"] /\ a["month"] = b["month"] /\ a["day"] = b["day"]
           /\ a["hour"] # b["hour"]
  BY <1>6, UnitsInOrder DEF Below
<1>7. CASE /\ a["year"] = b["year"] /\ a["month"] = b["month"] /\ a["day"] = b["day"]
           /\ a["hour"] = b["hour"] /\ a["minute"] # b["minute"]
  BY <1>7, UnitsInOrder DEF Below
<1>8. CASE /\ a["year"] = b["year"] /\ a["month"] = b["month"] /\ a["day"] = b["day"]
           /\ a["hour"] = b["hour"] /\ a["minute"] = b["minute"]
  BY <1>2, <1>8, UnitsInOrder DEF Below
<1> QED BY <1>3, <1>4, <1>5, <1>6, <1>7, <1>8

LEMMA AtLeastIsTotal == ASSUME NEW a \in Cursor, NEW b \in Cursor
                        PROVE  AtLeast(a, b) \/ AtLeast(b, a)
<1>1. CASE a = b
  BY <1>1 DEF AtLeast
<1>2. CASE a # b
  <2>1. PICK f \in Units : a[f] # b[f] /\ \A g \in Units : f \in Below[g] => a[g] = b[g]
    BY <1>2, FirstDifference
  <2>2. a[f] \in Nat /\ b[f] \in Nat
    BY DEF Cursor
  <2>3. a[f] > b[f] \/ b[f] > a[f]
    BY <2>1, <2>2
  <2> QED BY <2>1, <2>3 DEF AtLeast
<1> QED BY <1>1, <1>2

\* A cursor that is less in no unit is not less,
LEMMA NoUnitLess == ASSUME NEW a \in Cursor, NEW b \in Cursor, \A f \in Units : a[f] >= b[f]
                    PROVE  AtLeast(a, b)
<1>1. CASE a = b
  BY <1>1 DEF AtLeast
<1>2. CASE a # b
  <2>1. PICK f \in Units : a[f] # b[f] /\ \A g \in Units : f \in Below[g] => a[g] = b[g]
    BY <1>2, FirstDifference
  <2>2. a[f] \in Nat /\ b[f] \in Nat /\ a[f] >= b[f]
    BY DEF Cursor
  <2>3. a[f] > b[f]
    BY <2>1, <2>2
  <2> QED BY <2>1, <2>3 DEF AtLeast
<1> QED BY <1>1, <1>2

\* and one that is not less is not less in the first unit that may differ.
LEMMA AtLeastIn ==
    ASSUME NEW a \in Cursor, NEW b \in Cursor, AtLeast(a, b), NEW f \in Units,
           \A g \in Units : f \in Below[g] => a[g] = b[g]
    PROVE  a[f] >= b[f]
<1>1. a[f] \in Nat /\ b[f] \in Nat
  BY DEF Cursor
<1>2. CASE a = b
  BY <1>1, <1>2
<1>3. CASE a # b
  <2>1. PICK h \in Units : a[h] > b[h] /\ \A g \in Units : h \in Below[g] => a[g] = b[g]
    BY <1>3 DEF AtLeast
  <2>2. a[h] \in Nat /\ b[h] \in Nat
    BY DEF Cursor
  <2>3. CASE h = f
    BY <2>1, <2>2, <2>3
  <2>4. CASE f \in Below[h]
    <3>1. a[h] = b[h]
      BY <2>4
    <3> QED BY <2>1, <2>2, <3>1
  <2>5. CASE h \in Below[f]
    <3>1. a[f] = b[f]
      BY <2>1, <2>5
    <3> QED BY <1>1, <3>1
  <2> QED BY <2>3, <2>4, <2>5, UnitsInOrder
<1> QED BY <1>2, <1>3

\* A cursor c that differs from b from the unit f on skips no p from b on that
\* has at least the value of c in f, as far as it has those of b above, and at
\* least the values of c below.
LEMMA Skips ==
    ASSUME NEW b \in Cursor, NEW c \in Cursor, NEW p \in Cursor, AtLeast(p, b), NEW f \in Units,
           \A g \in Units : f \in Below[g] => c[g] = b[g],
           \A g \in Units : g \in Below[f] => p[g] >= c[g],
           (\A g \in Units : f \in Below[g] => p[g] = b[g]) => p[f] >= c[f]
    PROVE  AtLeast(p, c)
<1>1. CASE \A g \in Units : f \in Below[g] => p[g] = b[g]
  <2>1. ASSUME NEW g \in Units PROVE p[g] >= c[g]
    <3>1. p[g] \in Nat /\ c[g] \in Nat
      BY DEF Cursor
    <3>2. CASE f \in Below[g]
      <4>1. p[g] = c[g]
        BY <1>1, <3>2
      <4> QED BY <3>1, <4>1
    <3>3. CASE g = f
      BY <1>1, <3>3
    <3>4. CASE g \in Below[f]
      BY <3>4
    <3> QED BY <3>2, <3>3, <3>4, UnitsInOrder
  <2> QED BY <2>1, NoUnitLess
<1>2. CASE ~\A g \in Units : f \in Below[g] => p[g] = b[g]
  <2>1. PICK h \in Units : p[h] > b[h] /\ \A g \in Units : h \in Below[g] => p[g] = b[g]
    BY <1>2 DEF AtLeast
  <2>2. f \in Below[h]
    <3>1. CASE h = f
      BY <1>2, <2>1, <3>1
    <3>2. CASE h \in Below[f]
      BY <1>2, <2>1, <3>2, UnitsInOrder
    <3> QED BY <3>1, <3>2, UnitsInOrder
  <2>3. p[h] > c[h]
    BY <2>1, <2>2
  <2>4. \A g \in Units : h \in Below[g] => p[g] = c[g]
    BY <2>1, <2>2, UnitsInOrder
  <2> QED BY <2>3, <2>4 DEF AtLeast
<1> QED BY <1>1, <1>2

\* What newCronParser leaves in the fields.
LEMMA Values == ASSUME Sound(expr)
   PROVE /\ expr.months # {} /\ expr.months \subseteq 1..12
         /\ expr.hours # {} /\ expr.hours \subseteq 0..(HoursPerDay - 1)
         /\ expr.minutes # {} /\ expr.minutes \subseteq 0..(MinutesPerHour - 1)
         /\ expr.enableSeconds => /\ expr.seconds # {}
                                  /\ expr.seconds \subseteq 0..(SecondsPerMinute - 1)
         /\ expr.enableYears => expr.years # {} /\ expr.years \subseteq 1970..2099
BY DEF Sound, Allowed, Least, Greatest

\* The values a unit starts again from.
LEMMA FirstTyped == ASSUME Sound(expr)
  PROVE /\ First.month \in 1..12 /\ First.day = 1 /\ First.hour \in 0..(HoursPerDay-1)
        /\ First.minute \in 0..(MinutesPerHour-1) /\ First.second \in 0..(SecondsPerMinute-1)
<1>1. \A T : T \subseteq Nat /\ T # {} => Min(T) \in T
  BY LeastValue
<1>2. /\ 1..12 \subseteq Nat /\ 0..(HoursPerDay - 1) \subseteq Nat
      /\ 0..(MinutesPerHour - 1) \subseteq Nat /\ 0..(SecondsPerMinute - 1) \subseteq Nat
      /\ 0 \in 0..(SecondsPerMinute - 1)
  BY ClockAssumption
<1>3. /\ Min(expr.months) \in 1..12 /\ Min(expr.hours) \in 0..(HoursPerDay - 1)
      /\ Min(expr.minutes) \in 0..(MinutesPerHour - 1)
  BY <1>1, <1>2, Values
<1>4. expr.enableSeconds => Min(expr.seconds) \in 0..(SecondsPerMinute - 1)
  BY <1>1, <1>2, Values
<1> HIDE DEF Min
<1> QED BY <1>2, <1>3, <1>4 DEF First

\* Moved in its parts.
LEMMA MovedIs ==
    ASSUME NEW f \in Units, NEW v, cursor \in Cursor
    PROVE  /\ Moved(f, v) = [g \in Units |-> Moved(f, v)[g]]
           /\ Moved(f, v)[f] = v
           /\ \A g \in Units : f \in Below[g] => Moved(f, v)[g] = cursor[g]
           /\ \A g \in Units : g \in Below[f] => Moved(f, v)[g] = First[g]
<1>1. \A g \in Units : f \in Below[g] => g # f /\ g \notin Below[f]
  BY UnitsInOrder
<1>2. \A g \in Units : g \in Below[f] => g # f
  BY UnitsInOrder
<1>3. Moved(f, v) = [g \in Units |-> IF g = f THEN v
                                    ELSE IF g \in Below[f] THEN First[g] ELSE cursor[g]]
  BY DEF Moved, Cursor
<1> QED BY <1>1, <1>2, <1>3

\* Moved, unit by unit.
Restarts(c) == c.hour = First.hour /\ c.minute = First.minute /\ c.second = First.second

LEMMA MovedUnits ==
    ASSUME cursor \in Cursor, NEW v
    PROVE  /\ LET c == Moved("year", v) IN
              c.year = v /\ c.month = First.month /\ c.day = First.day /\ Restarts(c)
           /\ LET c == Moved("month", v) IN
              c.year = cursor.year /\ c.month = v /\ c.day = First.day /\ Restarts(c)
           /\ LET c == Moved("day", v) IN
              c.year = cursor.year /\ c.month = cursor.month /\ c.day = v /\ Restarts(c)
           /\ LET c == Moved("hour", v) IN
              /\ c.year = cursor.year /\ c.month = cursor.month /\ c.day = cursor.day
              /\ c.hour = v /\ c.minute = First.minute /\ c.second = First.second
           /\ LET c == Moved("minute", v) IN
              /\ c.year = cursor.year /\ c.month = cursor.month /\ c.day = cursor.day
              /\ c.hour = cursor.hour /\ c.minute = v /\ c.second = First.second
           /\ LET c == Moved("second", v) IN
              /\ c.year = cursor.year /\ c.month = cursor.month /\ c.day = cursor.day
              /\ c.hour = cursor.hour /\ c.minute = cursor.minute /\ c.second = v
<1>1. \A f \in Units : /\ Moved(f, v)[f] = v
                       /\ \A g \in Units : f \in Below[g] => Moved(f, v)[g] = cursor[g]
                       /\ \A g \in Units : g \in Below[f] => Moved(f, v)[g] = First[g]
  BY MovedIs
<1> QED BY <1>1, UnitsInOrder DEF Below, Restarts

\* So is NextMonth.
LEMMA NextMonthUnits ==
    ASSUME cursor \in Cursor
    PROVE  /\ NextMonth.day = First.day /\ Restarts(NextMonth)
           /\ cursor.month = 12 => NextMonth.year = cursor.year + 1 /\ NextMonth.month = 1
           /\ cursor.month # 12 => NextMonth.year = cursor.year
                                   /\ NextMonth.month = cursor.month + 1
<1>1. CASE cursor.month = 12
  <2> DEFINE c == Moved("year", cursor.year + 1)
  <2>1. c = [g \in Units |-> c[g]]
    BY MovedIs, UnitsInOrder
  <2>2. c.year = cursor.year + 1 /\ c.day = First.day /\ Restarts(c)
    BY MovedUnits
  <2>3. NextMonth = [c EXCEPT !["month"] = 1]
    BY <1>1 DEF NextMonth
  <2> HIDE DEF c
  <2>4. NextMonth["month"] = 1 /\ \A g \in Units \ {"month"} : NextMonth[g] = c[g]
    BY <2>1, <2>3, UnitsInOrder
  <2> QED BY <1>1, <2>2, <2>4, UnitsInOrder DEF Restarts
<1>2. CASE cursor.month # 12
  BY <1>2, MovedUnits DEF NextMonth
<1> QED BY <1>1, <1>2

\* Moving a unit to a greater value moves the cursor ahead, and so does
\* NextMonth.
LEMMA MovedAhead ==
    ASSUME Sound(expr), cursor \in Cursor, NEW f \in Units, NEW v \in Reach(f), v > cursor[f]
    PROVE  Moved(f, v) \in Cursor /\ AtLeast(Moved(f, v), cursor)
<1>1. \A g \in Units : Moved(f, v)[g] \in Reach(g)
  <2> SUFFICES ASSUME NEW g \in Units PROVE Moved(f, v)[g] \in Reach(g)
    OBVIOUS
  <2>1. g \in Below[f] => First[g] \in Reach(g)
    <3>1. ASSUME g \in Below[f] PROVE g \in {"month", "day", "hour", "minute", "second"}
      BY <3>1, UnitsInOrder DEF Below
    <3>2. /\ First["month"] \in 1..12 /\ First["day"] \in 1..32 /\ First["hour"] \in 0..HoursPerDay
          /\ First["minute"] \in 0..MinutesPerHour /\ First["second"] \in 0..(SecondsPerMinute - 1)
      BY FirstTyped, ClockAssumption
    <3> QED BY <3>1, <3>2, ReachIs
  <2>2. cursor[g] \in Reach(g)
    BY DEF Cursor
  <2> QED BY <2>1, <2>2, MovedIs, UnitsInOrder
<1>2. Moved(f, v) \in Cursor
  BY <1>1, MovedIs, ReachIs DEF Cursor
<1> QED BY <1>2, MovedIs DEF AtLeast

LEMMA NextMonthAhead ==
    ASSUME Sound(expr), cursor \in Cursor
    PROVE  NextMonth \in Cursor /\ AtLeast(NextMonth, cursor)
<1>1. CASE cursor.month = 12
  <2> DEFINE c == Moved("year", cursor.year + 1)
  <2>1. c \in Cursor /\ c.year = cursor.year + 1
    BY MovedAhead, MovedIs, CursorFacts, ReachIs, UnitsInOrder
  <2>2. NextMonth = [c EXCEPT !["month"] = 1]
    BY <1>1 DEF NextMonth
  <2> HIDE DEF c
  <2>3. /\ NextMonth \in [Units -> Nat] /\ NextMonth["month"] = 1
        /\ \A f \in Units \ {"month"} : NextMonth[f] = c[f]
    BY <2>1, <2>2, UnitsInOrder DEF Cursor
  <2>4. NextMonth \in Cursor
    BY <2>1, <2>3, ReachIs DEF Cursor
  <2>5. NextMonth["year"] > cursor["year"]
    BY <2>1, <2>3, UnitsInOrder, CursorFacts
  <2>6. \A g \in Units : "year" \notin Below[g]
    BY DEF Below, Units
  <2> QED BY <2>4, <2>5, <2>6, UnitsInOrder DEF AtLeast
<1>2. CASE cursor.month # 12
  <2>1. cursor.month + 1 \in Reach("month") /\ cursor.month + 1 > cursor.month
    BY <1>2, CursorFacts, ReachIs
  <2> QED BY <1>2, <2>1, MovedAhead, UnitsInOrder DEF NextMonth
<1> QED BY <1>1, <1>2


-----------------------------------------------------------------------------
(***************************************************************************)
(* The calendar: dates, times and instants are in one order.               *)
(***************************************************************************)
\* The days of a month are numbered one after the other, and the months of a
\* year and the years do not overlap.
LEMMA DayTyped ==
    ASSUME NEW y \in Int, NEW m \in 1..12, NEW d \in Int
    PROVE  DayNumber(y, m, 0) \in Int /\ DayNumber(y, m, d) = DayNumber(y, m, 0) + d
BY DEF DayNumber, DaysBefore, Leap

LEMMA MonthLength == ASSUME NEW y, NEW m
                     PROVE  daysInMonth(y, m) \in 28..31 /\ daysInMonth(y, m) \in Int
BY DEF daysInMonth

LEMMA MonthEnds ==
    ASSUME NEW y \in Int, NEW m \in 1..12, NEW n \in 1..12, m < n
    PROVE  DayNumber(y, m, 0) + daysInMonth(y, m) <= DayNumber(y, n, 0)
BY DEF DayNumber, DaysBefore, Leap, daysInMonth

LEMMA YearEnds ==
    ASSUME NEW y \in Int, NEW z \in Int, y < z, NEW m \in 1..12, NEW n \in 1..12
    PROVE  DayNumber(y, m, 0) + daysInMonth(y, m) <= DayNumber(z, n, 0)
<1>1. DayNumber(y, m, 0) + daysInMonth(y, m) <= DayNumber(y, 12, 31)
  BY DEF DayNumber, DaysBefore, Leap, daysInMonth
<1>2. DayNumber(y, 12, 31) <= DayNumber(z, 1, 0)
  BY DEF DayNumber, DaysBefore, Leap
<1>3. DayNumber(z, 1, 0) <= DayNumber(z, n, 0)
  BY DEF DayNumber, DaysBefore, Leap
<1>4. DayNumber(y, 12, 31) \in Int /\ DayNumber(z, 1, 0) \in Int
  BY DEF DayNumber, DaysBefore, Leap
<1>5. DayNumber(y, m, 0) \in Int /\ DayNumber(z, n, 0) \in Int /\ daysInMonth(y, m) \in Int
  BY DayTyped, MonthLength
<1> QED BY <1>1, <1>2, <1>3, <1>4, <1>5

\* A greater quotient is worth more than any remainder.
LEMMA Carry == ASSUME NEW n \in Nat \ {0}, NEW a \in Int, NEW b \in Int, a < b,
                      NEW r \in 0..(n - 1), NEW s \in Nat
   PROVE a * n + r < b * n + s
<1>1. (a + 1) * n <= b * n
  OBVIOUS
<1>2. (a + 1) * n = a * n + n
  OBVIOUS
<1> QED BY <1>1, <1>2

Valid(c) == /\ c \in Cursor /\ c.day \in 1..daysInMonth(c.year, c.month)
            /\ c.hour \in 0..(HoursPerDay - 1) /\ c.minute \in 0..(MinutesPerHour - 1)

LEMMA DayIs == Hour \in Nat \ {0} /\ Day \in Nat \ {0} /\ Day = HoursPerDay * Hour
<1>1. \A p, q \in Nat \ {0} : p * q \in Nat \ {0}
  OBVIOUS
<1> QED BY <1>1, ClockAssumption DEF Hour, Day

\* The time of a date is a time of its day.
LEMMA ClockIs == ASSUME NEW c, Valid(c)
                 PROVE  /\ Clock(c) \in 0..(Day - 1)
                        /\ (c.minute * SecondsPerMinute) + c.second \in 0..(Hour - 1)
                        /\ DayNumber(c.year, c.month, c.day) \in Int
                        /\ LocalSecond(c) \in Int
<1> DEFINE s == (c.minute * SecondsPerMinute) + c.second
<1>1. /\ c.hour \in 0..(HoursPerDay - 1) /\ c.minute \in 0..(MinutesPerHour - 1)
      /\ c.second \in 0..(SecondsPerMinute - 1)
      /\ DayNumber(c.year, c.month, c.day) \in Int
  <2>1. /\ c.year \in Int /\ c.month \in 1..12 /\ c.day \in Int
        /\ c.second \in 0..(SecondsPerMinute - 1)
        /\ c.hour \in 0..(HoursPerDay - 1) /\ c.minute \in 0..(MinutesPerHour - 1)
    BY CursorFacts DEF Valid
  <2>2. /\ DayNumber(c.year, c.month, 0) \in Int
        /\ DayNumber(c.year, c.month, c.day) = DayNumber(c.year, c.month, 0) + c.day
    BY <2>1, DayTyped
  <2> QED BY <2>1, <2>2
<1>2. s < MinutesPerHour * SecondsPerMinute + 0
  BY <1>1, Carry, ClockAssumption
<1>3. s \in 0..(Hour - 1)
  BY <1>1, <1>2, ClockAssumption, DayIs DEF Hour
<1> HIDE DEF s
<1>4. (c.hour * Hour) + s < HoursPerDay * Hour + 0
  BY <1>1, <1>3, Carry, DayIs, ClockAssumption
<1>5. Clock(c) = (c.hour * Hour) + s
  BY <1>1, DayIs, ClockAssumption DEF Clock, s
<1>6. c.hour * Hour \in Nat
  BY <1>1, DayIs
<1>7. Clock(c) \in 0..(Day - 1)
  BY <1>3, <1>4, <1>5, <1>6, DayIs
<1>8. LocalSecond(c) \in Int
  BY <1>1, <1>7, DayIs DEF LocalSecond
<1> QED BY <1>1, <1>3, <1>7, <1>8 DEF s

\* A later cursor is a later time.
LEMMA SecondsInOrder == ASSUME NEW c, NEW d, Valid(c), Valid(d), AtLeast(c, d)
                        PROVE  c = d \/ LocalSecond(d) < LocalSecond(c)
<1> DEFINE s(x) == (x.minute * SecondsPerMinute) + x.second
           n(x) == DayNumber(x.year, x.month, x.day)
<1>1. /\ Clock(c) \in 0..(Day - 1) /\ Clock(d) \in 0..(Day - 1)
      /\ s(c) \in 0..(Hour - 1) /\ s(d) \in 0..(Hour - 1)
      /\ n(c) \in Int /\ n(d) \in Int
  BY ClockIs
<1>2. /\ c.year \in Nat \ {0} /\ c.month \in 1..12 /\ c.day \in 1..daysInMonth(c.year, c.month)
      /\ c.hour \in Nat /\ c.minute \in Nat
      /\ d.year \in Nat \ {0} /\ d.month \in 1..12 /\ d.day \in 1..daysInMonth(d.year, d.month)
      /\ d.hour \in Nat /\ d.minute \in Nat
      /\ c.second \in 0..(SecondsPerMinute - 1) /\ d.second \in 0..(SecondsPerMinute - 1)
  BY CursorFacts DEF Valid
<1>3. /\ n(c) = DayNumber(c.year, c.month, 0) + c.day /\ DayNumber(c.year, c.month, 0) \in Int
      /\ n(d) = DayNumber(d.year, d.month, 0) + d.day /\ DayNumber(d.year, d.month, 0) \in Int
      /\ daysInMonth(d.year, d.month) \in Int
  <2>1. c.year \in Int /\ d.year \in Int /\ c.day \in Int /\ d.day \in Int
    BY <1>2, MonthLength
  <2> QED BY <1>2, <2>1, DayTyped, MonthLength
<1>4. ASSUME n(d) < n(c) PROVE LocalSecond(d) < LocalSecond(c)
  BY <1>1, <1>4, Carry, DayIs DEF LocalSecond
<1>5. ASSUME n(d) = n(c), d.hour < c.hour PROVE LocalSecond(d) < LocalSecond(c)
  <2>1. (d.hour * Hour) + s(d) < (c.hour * Hour) + s(c)
    <3>1. s(c) \in Nat /\ s(d) \in 0..(Hour - 1) /\ Hour \in Nat \ {0}
      BY <1>1, DayIs
    <3>2. c.hour \in Int /\ d.hour \in Int
      BY <1>2
    <3> HIDE DEF s
    <3> QED BY <1>5, <3>1, <3>2, Carry
  <2>2. Clock(c) = (c.hour * Hour) + s(c) /\ Clock(d) = (d.hour * Hour) + s(d)
    BY <1>2, DayIs, ClockAssumption DEF Clock
  <2> QED BY <1>1, <1>5, <2>1, <2>2, DayIs DEF LocalSecond
<1>6. ASSUME n(d) = n(c), d.hour = c.hour, d.minute < c.minute PROVE LocalSecond(d) < LocalSecond(c)
  <2>1. s(d) < s(c)
    BY <1>2, <1>6, Carry, ClockAssumption
  <2>2. Clock(c) = (c.hour * Hour) + s(c) /\ Clock(d) = (d.hour * Hour) + s(d)
    BY <1>2, DayIs, ClockAssumption DEF Clock
  <2>3. c.hour * Hour \in Int
    BY <1>2, DayIs
  <2>4. Clock(d) < Clock(c)
    BY <1>1, <1>6, <2>1, <2>2, <2>3, DayIs
  <2> QED BY <1>1, <1>6, <2>4, DayIs DEF LocalSecond
<1>8. ASSUME NEW f \in Units, c[f] > d[f], \A g \in Units : f \in Below[g] => c[g] = d[g]
      PROVE  LocalSecond(d) < LocalSecond(c)
  <2>0. LocalSecond(c) \in Int /\ LocalSecond(d) \in Int
    BY ClockIs
  <2>1. CASE f = "year"
    <3>1. n(d) < n(c)
      BY <1>2, <1>3, <1>8, <2>1, YearEnds
    <3> QED BY <1>4, <2>0, <3>1
  <2>2. CASE f = "month"
    <3>1. c.year = d.year /\ d.month < c.month
      BY <1>2, <1>8, <2>2, UnitsInOrder DEF Below
    <3>2. n(d) < n(c)
      BY <1>2, <1>3, <3>1, MonthEnds
    <3> QED BY <1>4, <2>0, <3>2
  <2>3. CASE f = "day"
    <3>1. c.year = d.year /\ d.month = c.month /\ d.day < c.day
      BY <1>2, <1>8, <2>3, UnitsInOrder DEF Below
    <3>2. n(d) < n(c)
      BY <1>2, <1>3, <3>1
    <3> QED BY <1>4, <2>0, <3>2
  <2>4. CASE f = "hour"
    <3>1. c.year = d.year /\ d.month = c.month /\ d.day = c.day /\ d.hour < c.hour
      BY <1>2, <1>8, <2>4, UnitsInOrder DEF Below
    <3> QED BY <1>5, <2>0, <3>1
  <2>5. CASE f = "minute"
    <3>1. /\ c.year = d.year /\ d.month = c.month /\ d.day = c.day /\ d.hour = c.hour
          /\ d.minute < c.minute
      BY <1>2, <1>8, <2>5, UnitsInOrder DEF Below
    <3> QED BY <1>6, <2>0, <3>1
  <2>6. CASE f = "second"
    <3>1. /\ c.year = d.year /\ d.month = c.month /\ d.day = c.day
          /\ d.hour = c.hour /\ d.minute = c.minute
          /\ d.second < c.second
      BY <1>2, <1>8, <2>6, UnitsInOrder DEF Below
    <3> QED BY <1>1, <1>2, <3>1, <2>0, DayIs, ClockAssumption DEF LocalSecond, Clock
  <2> QED BY <2>1, <2>2, <2>3, <2>4, <2>5, <2>6, UnitsInOrder
<1> QED BY <1>8 DEF AtLeast

\* Next looks from a later instant on than t,
LEMMA LaterThanNow == ASSUME from \in Int PROVE After(from) \in Int /\ After(from) > from
BY ClockAssumption, Quotient DEF After

\* and where no offset is negative time.Date returns none before it.
LEMMA NoGoingBack ==
    ASSUME zone \in Zone, zone.before >= 0, zone.after >= 0, NEW x \in Int, NEW n \in Int,
           n >= Local(x)
    PROVE  Instant(n) >= x
BY SearchAssumption DEF Instant, Local, Offset

LEMMA StartIsValid == ASSUME NEW d \in Start PROVE Valid(d)
BY StartIsCursor, SearchAssumption DEF Valid

\* Without a transition an instant is its local time and back.
LEMMA FixedInstants ==
    ASSUME zone \in Zone, Fixed, NEW n \in Int
    PROVE  Instant(n) = n - zone.before /\ Local(n) = n + zone.before
BY SearchAssumption, DayIs DEF Fixed, Instant, Local, Offset

\* A time is so many minutes and its seconds.
Minutes(n, h, mi) == (((n * HoursPerDay) * MinutesPerHour) + (h * MinutesPerHour)) + mi
InMinutes(n, h, mi, s) ==
    /\ Minutes(n, h, mi) \in Int
    /\ (n * Day) + (((h * Hour) + (mi * SecondsPerMinute)) + s)
          = (Minutes(n, h, mi) * SecondsPerMinute) + s

LEMMA MinutesAre ==
    ASSUME NEW n \in Int, NEW h \in Int, NEW mi \in Int, NEW s \in Int
    PROVE  InMinutes(n, h, mi, s)
<1> DEFINE N == SecondsPerMinute  M == MinutesPerHour
           u == (n * HoursPerDay) * M  v == h * M
<1>1. N \in Int /\ M \in Int /\ HoursPerDay \in Int
  BY ClockAssumption
<1>2. n * Day = u * N
  <2>1. n * Day = n * (HoursPerDay * (M * N))
    BY DEF Day, Hour
  <2> HIDE DEF N, M
  <2> QED BY <1>1, <2>1
<1>3. h * Hour = v * N
  <2>1. h * Hour = h * (M * N)
    BY DEF Hour
  <2> HIDE DEF N, M
  <2> QED BY <1>1, <2>1
<1>4. u \in Int /\ v \in Int
  BY <1>1
<1>5. Minutes(n, h, mi) = (u + v) + mi
  BY DEF Minutes
<1> HIDE DEF N, M, u, v
<1>6. ((u + v) + mi) * N = ((u * N) + (v * N)) + (mi * N) /\ (u + v) + mi \in Int
  BY <1>1, <1>4
<1>7. u * N \in Int /\ v * N \in Int /\ mi * N \in Int
  BY <1>1, <1>4
<1> DEFINE k == Minutes(n, h, mi)
<1>8. k * N = ((u * N) + (v * N)) + (mi * N) /\ k \in Int
  BY <1>5, <1>6
<1> HIDE DEF k
<1>9. (n * Day) + (((h * Hour) + (mi * N)) + s) = (k * N) + s
  BY <1>2, <1>3, <1>7, <1>8
<1> QED BY <1>8, <1>9 DEF k, N, InMinutes

\* Days are counted from 1.
LEMMA DayIsPositive ==
    ASSUME NEW y \in Nat \ {0}, NEW m \in 1..12, NEW d \in 1..31 PROVE DayNumber(y, m, d) >= 1
BY DEF DayNumber, DaysBefore, Leap

\* Without a transition time.Date never falls on another day.
LEMMA FixedSameDay == ASSUME zone \in Zone, Fixed, Valid(cursor) PROVE SameDay(Date(cursor))
<1> DEFINE n == DayNumber(cursor.year, cursor.month, cursor.day)  s == Clock(cursor)
           x == LocalSecond(cursor)
<1>1. n \in Int /\ s \in 0..(Day - 1) /\ x \in Int /\ x = (n * Day) + s
  BY ClockIs DEF LocalSecond
<1>2. x \div Day = n
  BY <1>1, DayIs, QuotientIs
<1> HIDE DEF x
<1>3. Local(Instant(x)) = x
  <2>1. Instant(x) = x - zone.before /\ x - zone.before \in Int
    BY <1>1, FixedInstants, SearchAssumption
  <2>2. Local(x - zone.before) = (x - zone.before) + zone.before
    BY <2>1, FixedInstants
  <2> QED BY <1>1, <2>1, <2>2, SearchAssumption
<1> QED BY <1>2, <1>3 DEF SameDay, Date, x

-----------------------------------------------------------------------------
(***************************************************************************)
(* Days: the code and the documents allow the same.                        *)
(***************************************************************************)
\* Every local midnight exists.
NoneMissing == MidnightExists \/ Fixed

\* time.Date finds the midnight of each day, hence its weekday and the last day
\* of each month.
LEMMA MidnightKept ==
    ASSUME zone \in Zone, NoneMissing, NEW n \in Int
    PROVE  Local(Instant(n * Day)) = n * Day
<1> DEFINE k == n * Day
<1>1. k \in Int /\ k % Day = 0
  BY DayIs, QuotientIs
<1>2. zone.at \in Int /\ zone.before \in Int /\ zone.after \in Int
  BY SearchAssumption
<1>3. ~(zone.at + zone.before <= k /\ k < zone.at + zone.after)
  <2> SUFFICES ASSUME zone.at + zone.before <= k, k < zone.at + zone.after PROVE FALSE
    OBVIOUS
  <2> DEFINE l == Local(zone.at - 1) + 1  x == k - l
  <2>1. l = zone.at + zone.before
    BY <1>2 DEF Local, Offset
  <2>2. x \in 0..(zone.after - zone.before) /\ l + x = k
    BY <1>1, <1>2, <2>1
  <2>3. MidnightExists
    BY <1>1, <1>2 DEF NoneMissing, Fixed
  <2>4. (l + x) % Day # 0
    BY <2>2, <2>3 DEF MidnightExists
  <2> QED BY <1>1, <2>2, <2>4
<1> HIDE DEF k
<1>4. Local(Instant(k)) = k
  BY <1>1, <1>2, <1>3 DEF Local, Instant, Offset
<1> QED BY <1>4 DEF k

LEMMA MidnightsAreKept ==
    ASSUME zone \in Zone, NoneMissing, NEW y \in Int, NEW m \in 1..12
    PROVE  /\ \A d \in Int : MidnightDay(y, m, d) = DayNumber(y, m, 0) + d
           /\ lastDay(y, m) = daysInMonth(y, m)
<1>1. ASSUME NEW d \in Int PROVE MidnightDay(y, m, d) = DayNumber(y, m, 0) + d
  <2> DEFINE n == DayNumber(y, m, d)
  <2>1. n \in Int /\ n = DayNumber(y, m, 0) + d
    <3>1. DayNumber(y, m, 0) \in Int /\ DayNumber(y, m, d) = DayNumber(y, m, 0) + d
      BY DayTyped
    <3> QED BY <3>1
  <2> HIDE DEF n
  <2>2. Local(Instant(n * Day)) = n * Day
    BY <2>1, MidnightKept
  <2>3. (n * Day) \div Day = n
    BY <2>1, DayIs, QuotientIs
  <2> QED BY <2>1, <2>2, <2>3 DEF MidnightDay, n
<1>2. lastDay(y, m) = daysInMonth(y, m)
  <2>1. daysInMonth(y, m) \in Int
    BY MonthLength
  <2>2. MidnightDay(y, m, daysInMonth(y, m)) = DayNumber(y, m, daysInMonth(y, m))
    BY <1>1, <2>1, DayTyped
  <2> QED BY <2>2 DEF lastDay
<1> QED BY <1>1, <1>2

\* findNearestWeekday returns the day from Monday to Friday that is nearest in
\* its month, and there is only one.
LEMMA NearestIsNearest ==
    ASSUME zone \in Zone, NoneMissing, NEW y \in Int, NEW m \in 1..12,
           NEW t \in 1..31, NEW d \in 1..daysInMonth(y, m)
    PROVE  d = findNearestWeekday(y, m, t) <=>
              /\ t \in 1..daysInMonth(y, m)
              /\ Working(y, m, d)
              /\ \A e \in 1..daysInMonth(y, m) :
                    Working(y, m, e) => Distance(d, t) <= Distance(e, t)
<1> DEFINE k == DayNumber(y, m, 0)  n == daysInMonth(y, m)
<1>1. k \in Int /\ n \in 28..31
  BY DayTyped, MonthLength
<1>2. \A e \in Int : Working(y, m, e) <=> (k + e) % 7 \in 1..5
  BY DayTyped DEF Working, Weekday
<1>3. lastDay(y, m) = n /\ Weekday(MidnightDay(y, m, t)) = (k + t) % 7
  BY MidnightsAreKept DEF Weekday
<1> DEFINE w == (k + t) % 7
           near == IF w = 6 THEN IF t > 1 THEN t - 1 ELSE t + 2
                   ELSE IF w = 0 THEN IF t < n THEN t + 1 ELSE t - 2 ELSE t
<1>4. findNearestWeekday(y, m, t) = IF t > n THEN -1 ELSE near
  BY <1>1, <1>3 DEF findNearestWeekday
<1> HIDE DEF k, n
<1>5. ASSUME t \in 1..n
      PROVE  /\ near \in 1..n /\ (k + near) % 7 \in 1..5
             /\ \A e \in 1..n : (k + e) % 7 \in 1..5 => Distance(near, t) <= Distance(e, t)
             /\ \A e \in 1..n : (k + e) % 7 \in 1..5 /\ e # near =>
                                 Distance(near, t) < Distance(e, t)
  BY <1>1, <1>5 DEF Distance
<1>6. CASE t \in 1..n
  <2>1. findNearestWeekday(y, m, t) = near
    BY <1>1, <1>4, <1>6
  <2> HIDE DEF near
  <2>2. d \in 1..n
    BY DEF n
  <2>3. ASSUME NEW e \in 1..n PROVE Distance(e, t) \in Int
    BY <1>1, <2>3 DEF Distance
  <2>4. \A e \in 1..n : Working(y, m, e) <=> (k + e) % 7 \in 1..5
    BY <1>1, <1>2
  <2>5. ASSUME d = near
        PROVE  /\ Working(y, m, d)
               /\ \A e \in 1..n : Working(y, m, e) => Distance(d, t) <= Distance(e, t)
    BY <1>5, <1>6, <2>2, <2>4, <2>5
  <2>6. ASSUME Working(y, m, d),
               \A e \in 1..n : Working(y, m, e) => Distance(d, t) <= Distance(e, t)
        PROVE  d = near
    <3>1. near \in 1..n /\ Working(y, m, near)
      BY <1>5, <1>6, <2>4
    <3>2. Distance(d, t) <= Distance(near, t)
      BY <2>6, <3>1
    <3>3. d # near => Distance(near, t) < Distance(d, t)
      BY <1>5, <1>6, <2>2, <2>4, <2>6
    <3> QED BY <2>2, <2>3, <3>1, <3>2, <3>3
  <2> QED BY <1>6, <2>1, <2>5, <2>6 DEF n
<1>7. CASE t \notin 1..n
  BY <1>1, <1>4, <1>7 DEF n
<1> QED BY <1>6, <1>7

\* findLastWeekdayOfMonth returns the only such day of the last seven.
LEMMA LastIsLast ==
    ASSUME zone \in Zone, NoneMissing, NEW y \in Int, NEW m \in 1..12,
           NEW w \in 0..6, NEW d \in 1..daysInMonth(y, m)
    PROVE  d = findLastWeekdayOfMonth(y, m, w) <=>
              Weekday(DayNumber(y, m, d)) = w /\ d + 7 > daysInMonth(y, m)
<1> DEFINE k == DayNumber(y, m, 0)  n == daysInMonth(y, m)
           S == {e \in 1..n : (k + e) % 7 = w}
           last == n - (((k + n) - w) % 7)
<1>1. k \in Int /\ n \in 28..31
  BY DayTyped, MonthLength
<1>2. findLastWeekdayOfMonth(y, m, w) = Max(S)
  <2>1. lastDay(y, m) = n /\ \A e \in 1..n : Weekday(MidnightDay(y, m, e)) = (k + e) % 7
    BY <1>1, MidnightsAreKept DEF Weekday
  <2> QED BY <2>1 DEF findLastWeekdayOfMonth
<1>3. Weekday(DayNumber(y, m, d)) = (k + d) % 7
  <2>1. d \in Int
    BY <1>1
  <2>2. DayNumber(y, m, d) = k + d
    BY <2>1, DayTyped
  <2> QED BY <2>2 DEF Weekday
<1> HIDE DEF k, n
<1>4. last \in S /\ (\A e \in S : last >= e) /\ last + 7 > n
  BY <1>1
<1>5. Max(S) = last
  <2>1. \A e \in S : e \in Int
    BY <1>1
  <2>2. Max(S) \in S /\ \A e \in S : Max(S) >= e
    BY <1>4 DEF Max
  <2> HIDE DEF S, last
  <2> QED BY <1>4, <2>1, <2>2
<1>6. d \in 1..n
  BY DEF n
<1>7. (k + d) % 7 = w /\ d + 7 > n <=> d = last
  BY <1>1, <1>6
<1> QED BY <1>2, <1>3, <1>5, <1>7 DEF n

\* Field by field the code takes the days that the documents ask for.
LEMMA DaysAgree ==
    ASSUME zone \in Zone, Sound(expr), NoneMissing, NEW y \in Int, NEW m \in 1..12,
           NEW d \in 1..daysInMonth(y, m)
    PROVE  /\ isDayOfMonthMatch(y, m, d) <=> DayOfMonthFits(y, m, d)
           /\ isDayOfWeekMatch(y, m, d) <=> DayOfWeekFits(y, m, d)
<1>1. expr.dayOfMonth \subseteq -31..31 /\ expr.dayOfWeek \subseteq -6..6
  BY DEF Sound
<1>2. d \in Int /\ d > 0 /\ daysInMonth(y, m) \in 28..31
  BY MonthLength
<1> DEFINE NearBy(t) == /\ Working(y, m, d)
                        /\ \A e \in 1..daysInMonth(y, m) :
                              Working(y, m, e) => Distance(d, t) <= Distance(e, t)
<1>4. \A t \in 1..31 : d = findNearestWeekday(y, m, t) <=> t \in 1..daysInMonth(y, m) /\ NearBy(t)
  BY NearestIsNearest
<1>5. DayOfMonthFits(y, m, d) <=>
        \/ d \in expr.dayOfMonth
        \/ 0 \in expr.dayOfMonth /\ d = daysInMonth(y, m)
        \/ \E t \in 1..daysInMonth(y, m) : -t \in expr.dayOfMonth /\ NearBy(t)
  BY DEF DayOfMonthFits
<1> HIDE DEF NearBy
<1>6. ASSUME isDayOfMonthMatch(y, m, d) PROVE DayOfMonthFits(y, m, d)
  <2>1. PICK x \in expr.dayOfMonth : \/ x = 0 /\ d = daysInMonth(y, m)
                                     \/ x < 0 /\ d = findNearestWeekday(y, m, -x)
                                     \/ x > 0 /\ d = x
    BY <1>6 DEF isDayOfMonthMatch
  <2>2. CASE x < 0 /\ d = findNearestWeekday(y, m, -x)
    <3>1. -x \in 1..31 /\ -(-x) = x
      BY <1>1, <2>2
    <3>2. -x \in 1..daysInMonth(y, m) /\ NearBy(-x)
      BY <1>4, <2>2, <3>1
    <3> QED BY <1>5, <3>1, <3>2
  <2> QED BY <1>5, <2>1, <2>2
<1>7. ASSUME DayOfMonthFits(y, m, d) PROVE isDayOfMonthMatch(y, m, d)
  <2>1. CASE d \in expr.dayOfMonth
    BY <1>2, <2>1 DEF isDayOfMonthMatch
  <2>2. CASE 0 \in expr.dayOfMonth /\ d = daysInMonth(y, m)
    BY <2>2 DEF isDayOfMonthMatch
  <2>3. ASSUME NEW t \in 1..daysInMonth(y, m), -t \in expr.dayOfMonth, NearBy(t)
        PROVE  isDayOfMonthMatch(y, m, d)
    <3>1. t \in 1..31 /\ -t < 0 /\ -(-t) = t
      BY <1>2
    <3>2. d = findNearestWeekday(y, m, t)
      BY <1>4, <2>3, <3>1
    <3>3. d = findNearestWeekday(y, m, -(-t))
      BY <3>1, <3>2
    <3> QED BY <2>3, <3>1, <3>3 DEF isDayOfMonthMatch
  <2> QED BY <1>5, <1>7, <2>1, <2>2, <2>3
<1>8. MidnightDay(y, m, d) = DayNumber(y, m, d)
  <2>1. MidnightDay(y, m, d) = DayNumber(y, m, 0) + d
    BY <1>2, MidnightsAreKept
  <2>2. DayNumber(y, m, d) = DayNumber(y, m, 0) + d
    BY <1>2, DayTyped
  <2> QED BY <2>1, <2>2
<1>9. ASSUME isDayOfWeekMatch(y, m, d) PROVE DayOfWeekFits(y, m, d)
  <2>1. PICK w \in expr.dayOfWeek : \/ w < 0 /\ d = findLastWeekdayOfMonth(y, m, -w)
                                    \/ w >= 0 /\ Weekday(MidnightDay(y, m, d)) = w
    BY <1>9 DEF isDayOfWeekMatch
  <2>2. CASE w < 0 /\ d = findLastWeekdayOfMonth(y, m, -w)
    <3>1. -w \in 0..6 /\ -(-w) = w
      BY <1>1, <2>2
    <3>2. Weekday(DayNumber(y, m, d)) = -w /\ d + 7 > daysInMonth(y, m)
      BY <2>2, <3>1, LastIsLast
    <3> QED BY <3>1, <3>2 DEF DayOfWeekFits
  <2>3. CASE w >= 0 /\ Weekday(MidnightDay(y, m, d)) = w
    BY <1>8, <2>3 DEF DayOfWeekFits
  <2> QED BY <2>1, <2>2, <2>3
<1>10. ASSUME DayOfWeekFits(y, m, d) PROVE isDayOfWeekMatch(y, m, d)
  <2> DEFINE w == Weekday(DayNumber(y, m, d))
  <2>1. w \in 0..6
    <3>1. DayNumber(y, m, 0) \in Int /\ DayNumber(y, m, d) = DayNumber(y, m, 0) + d
      BY <1>2, DayTyped
    <3> QED BY <1>2, <3>1 DEF Weekday
  <2>2. w \in expr.dayOfWeek \/ (-w \in expr.dayOfWeek /\ d + 7 > daysInMonth(y, m))
    BY <1>10 DEF DayOfWeekFits
  <2>3. Weekday(MidnightDay(y, m, d)) = w
    BY <1>8
  <2> HIDE DEF w
  <2>4. CASE w \in expr.dayOfWeek
    BY <2>1, <2>3, <2>4 DEF isDayOfWeekMatch
  <2>5. CASE -w \in expr.dayOfWeek /\ d + 7 > daysInMonth(y, m)
    <3>1. CASE w = 0
      <4>1. \A i \in Int : i <= 0 /\ i >= 0 => -i = i
        OBVIOUS
      <4>2. w \in Int /\ w <= 0 /\ w >= 0
        BY <2>1, <3>1
      <4>3. -w = w
        BY <4>1, <4>2
      <4> QED BY <2>1, <2>3, <2>5, <4>3 DEF isDayOfWeekMatch
    <3>2. CASE w # 0
      <4>1. -w < 0 /\ -(-w) = w
        BY <2>1, <3>2
      <4>2. d = findLastWeekdayOfMonth(y, m, w)
        BY <2>1, <2>5, LastIsLast DEF w
      <4>3. d = findLastWeekdayOfMonth(y, m, -(-w))
        BY <4>1, <4>2
      <4> QED BY <2>5, <4>1, <4>3 DEF isDayOfWeekMatch
    <3> QED BY <3>1, <3>2
  <2> QED BY <2>2, <2>4, <2>5
<1> QED BY <1>6, <1>7, <1>9, <1>10

\* The day of the month and that of the week, each asked for or not.
LEMMA AllowedDaysFit ==
    ASSUME zone \in Zone, Sound(expr), NEW y \in Int, NEW m \in 1..12,
           NEW d \in 1..daysInMonth(y, m)
    PROVE  /\ NoneMissing => (isDayValid(y, m, d) <=> DayFits(y, m, d))
           /\ expr.dayOfWeekWildcard /\ (\A x \in expr.dayOfMonth : x >= 0) =>
                 (isDayValid(y, m, d) => DayFits(y, m, d))
<1>1. ASSUME NoneMissing
      PROVE  /\ isDayOfMonthMatch(y, m, d) <=> DayOfMonthFits(y, m, d)
             /\ isDayOfWeekMatch(y, m, d) <=> DayOfWeekFits(y, m, d)
  BY <1>1, DaysAgree
<1>2. ASSUME \A x \in expr.dayOfMonth : x >= 0, isDayOfMonthMatch(y, m, d)
      PROVE  DayOfMonthFits(y, m, d)
  <2>1. PICK x \in expr.dayOfMonth : \/ x = 0 /\ d = daysInMonth(y, m)
                                     \/ x < 0 /\ d = findNearestWeekday(y, m, -x)
                                     \/ x > 0 /\ d = x
    BY <1>2 DEF isDayOfMonthMatch
  <2>2. x \in Int /\ x >= 0
    BY <1>2 DEF Sound
  <2> QED BY <2>1, <2>2 DEF DayOfMonthFits
<1>3. CASE expr.dayOfMonthWildcard /\ expr.dayOfWeekWildcard
  BY <1>3, Zenon DEF DayFits, isDayValid
<1>4. CASE expr.dayOfMonthWildcard /\ ~expr.dayOfWeekWildcard
  BY <1>4, <1>1, Zenon DEF DayFits, isDayValid
<1>5. CASE ~expr.dayOfMonthWildcard /\ expr.dayOfWeekWildcard
  BY <1>5, <1>1, <1>2, Zenon DEF DayFits, isDayValid
<1>6. CASE ~expr.dayOfMonthWildcard /\ ~expr.dayOfWeekWildcard
  BY <1>6, <1>1, Zenon DEF DayFits, isDayValid
<1> QED BY <1>3, <1>4, <1>5, <1>6, Zenon

-----------------------------------------------------------------------------
(***************************************************************************)
(* The invariant of the search.                                            *)
(***************************************************************************)
(***************************************************************************)
(* Next is called at a time d of Start.  The cursor moves on from d; in a  *)
(* location without a transition it passes no cursor that suits the        *)
(* expression; and the units above the one that Next is about to look at   *)
(* have allowed values.                                                    *)
(***************************************************************************)
Searches == at \notin {"parse", "refused", "call"}
Target == Local(After(from))
Passed(f) == at \in Below[f] \cup {"date"}

Allows(y, m, d) == d \in 1..daysInMonth(y, m) /\ isDayValid(y, m, d)
Seconds == IF expr.enableSeconds THEN expr.seconds ELSE {0}

Suits(p) == /\ YearFits(p.year) /\ p.month \in expr.months
            /\ Allows(p.year, p.month, p.day)
            /\ p.hour \in expr.hours /\ p.minute \in expr.minutes /\ p.second \in Seconds

Given == Searches => zone \in Zone /\ from \in Int /\ Sound(expr) /\ cursor \in Cursor

Counted == IF Searches
           THEN /\ at \in Units \cup {"date"}
                /\ iteration \in 0..MaxIterations
                /\ at # "year" => iteration < MaxIterations
           ELSE iteration = 0 /\ result = None

Forward == Searches =>
    \E d \in Start :
        /\ Target = LocalSecond(d) /\ maxYear = d.year + Years
        /\ AtLeast(cursor, d)
        /\ Fixed => \A p \in Cursor : Suits(p) /\ AtLeast(p, d) => AtLeast(p, cursor)

Decided == /\ Passed("year") => YearFits(cursor.year) /\ cursor.year <= maxYear
           /\ Passed("month") => cursor.month \in expr.months
           /\ Passed("day") => Allows(cursor.year, cursor.month, cursor.day)
           /\ Passed("hour") => cursor.hour \in expr.hours
           /\ Passed("minute") => cursor.minute \in expr.minutes
           /\ at = "second" => expr.enableSeconds
           /\ at = "date" /\ expr.enableSeconds => cursor.second \in expr.seconds

\* An offset of whole minutes keeps the seconds at zero where none are asked for.
WholeMinutes == zone.before % SecondsPerMinute = 0
Minutely == Searches /\ Fixed /\ WholeMinutes /\ ~expr.enableSeconds => cursor.second = 0

Returned == result # None =>
    \/ /\ result = Zero /\ at = "year"
       /\ iteration < MaxIterations => \A y \in Int : y >= cursor.year /\ YearFits(y) => y > maxYear
    \/ at = "date" /\ result = Date(cursor) /\ SameDay(result)

SearchInv == Given /\ Counted /\ Forward /\ Decided /\ Minutely /\ Returned

\* What depends on the parser and its location only stays as they stay.
LEMMA TargetStays == ASSUME UNCHANGED parser PROVE Target' = Target
BY DEF parser, Target, Local, After, Offset

LEMMA InstantStays == ASSUME zone' = zone, NEW n
                      PROVE  Instant(n)' = Instant(n) /\ Local(n)' = Local(n)
BY DEF Instant, Offset, Local

LEMMA MidnightStays == ASSUME zone' = zone, NEW y, NEW m, NEW d
   PROVE MidnightDay(y, m, d)' = MidnightDay(y, m, d) /\ lastDay(y, m)' = lastDay(y, m)
<1>1. \A a, b, c : MidnightDay(a, b, c)' = MidnightDay(a, b, c)
  BY DEF MidnightDay, Instant, Offset, Local
<1> QED BY <1>1 DEF lastDay

LEMMA NearestStays == ASSUME zone' = zone, NEW y, NEW m, NEW t
   PROVE findNearestWeekday(y, m, t)' = findNearestWeekday(y, m, t)
BY MidnightStays, Zenon DEF findNearestWeekday

LEMMA LastStays == ASSUME zone' = zone, NEW y, NEW m, NEW w
   PROVE findLastWeekdayOfMonth(y, m, w)' = findLastWeekdayOfMonth(y, m, w)
<1>1. \A d : MidnightDay(y, m, d)' = MidnightDay(y, m, d)
  BY MidnightStays
<1>2. lastDay(y, m)' = lastDay(y, m)
  BY MidnightStays
<1>3. {d \in 1..lastDay(y, m)' : Weekday(MidnightDay(y, m, d)') = w}
         = {d \in 1..lastDay(y, m) : Weekday(MidnightDay(y, m, d)) = w}
  BY <1>1, <1>2
<1> QED BY <1>3 DEF findLastWeekdayOfMonth

LEMMA AllowsStays == ASSUME zone' = zone, expr' = expr, NEW y, NEW m, NEW d
   PROVE Allows(y, m, d)' <=> Allows(y, m, d)
<1>1. isDayOfMonthMatch(y, m, d)' <=> isDayOfMonthMatch(y, m, d)
  BY NearestStays DEF isDayOfMonthMatch
<1>2. isDayOfWeekMatch(y, m, d)' <=> isDayOfWeekMatch(y, m, d)
  BY LastStays, MidnightStays DEF isDayOfWeekMatch
<1> QED BY <1>1, <1>2 DEF Allows, isDayValid

LEMMA SuitsStays == ASSUME UNCHANGED parser
                    PROVE  /\ Fixed' <=> Fixed
                           /\ WholeMinutes' <=> WholeMinutes
                           /\ \A p : Suits(p)' <=> Suits(p)
<1>1. zone' = zone /\ expr' = expr
  BY DEF parser
<1>2. \A y, m, d : Allows(y, m, d)' <=> Allows(y, m, d)
  BY <1>1, AllowsStays
<1> QED BY <1>1, <1>2 DEF Suits, YearFits, Seconds, Fixed, WholeMinutes

\* The cursor is a date when time.Date is called.
LEMMA FoundIsValid == ASSUME SearchInv, at = "date" PROVE Valid(cursor)
<1>1. Sound(expr) /\ cursor \in Cursor
  BY DEF SearchInv, Given, Searches
<1>2. /\ cursor.day \in 1..daysInMonth(cursor.year, cursor.month)
      /\ cursor.hour \in expr.hours /\ cursor.minute \in expr.minutes
  BY DEF SearchInv, Decided, Passed, Allows
<1> QED BY <1>1, <1>2, Values DEF Valid

-----------------------------------------------------------------------------
(***************************************************************************)
(* Each step of the search keeps it.                                       *)
(***************************************************************************)
\* What suits is nowhere below the first values.
LEMMA FirstIsLeast ==
    ASSUME Sound(expr), NEW p \in Cursor, Suits(p), NEW f \in Units, NEW g \in Units, g \in Below[f]
    PROVE  p[g] >= First[g]
<1>1. g \in {"month", "day", "hour", "minute", "second"}
  BY UnitsInOrder DEF Below
<1>2. \A T : T \subseteq Nat /\ T # {} => \A x \in T : x >= Min(T)
  <2> SUFFICES ASSUME NEW T, T \subseteq Nat, T # {}, NEW x \in T PROVE x >= Min(T)
    OBVIOUS
  <2>1. Min(T) \in T /\ Min(T) <= x
    BY LeastValue
  <2> HIDE DEF Min
  <2> QED BY <2>1
<1>3. expr.months \subseteq Nat /\ expr.hours \subseteq Nat /\ expr.minutes \subseteq Nat
  BY Values, ClockAssumption
<1>4. expr.enableSeconds => expr.seconds \subseteq Nat
  BY Values, ClockAssumption
<1>5. /\ p.month \in expr.months /\ p.hour \in expr.hours /\ p.minute \in expr.minutes
      /\ p.second \in Seconds /\ p.day \in 1..32
  BY CursorFacts DEF Suits
<1> HIDE DEF Min
<1>6. /\ p.month >= First.month /\ p.hour >= First.hour
      /\ p.minute >= First.minute /\ p.day >= First.day
  BY <1>2, <1>3, <1>5, Values DEF First
<1>7. p.second >= First.second
  BY <1>2, <1>4, <1>5, Values DEF First, Seconds
<1> QED BY <1>1, <1>6, <1>7

\* The cursor moves on, and in a fixed location past nothing that suits.
Onwards(c) == /\ c \in Cursor /\ AtLeast(c, cursor)
              /\ ~expr.enableSeconds => c.second \in {cursor.second, 0}
              /\ Fixed => \A p \in Cursor : Suits(p) /\ AtLeast(p, cursor) => AtLeast(p, c)

\* A step that takes the cursor onwards keeps what is said of its way;
LEMMA OnwardsKeeps ==
    ASSUME SearchInv, Searches, Searches', UNCHANGED parser, NEW c, Onwards(c), cursor' = c
    PROVE  Given' /\ Forward' /\ Minutely'
<1>1. Given'
  <2>1. zone' = zone /\ from' = from /\ expr' = expr
    BY DEF parser
  <2> QED BY <2>1 DEF SearchInv, Given, Sound, Onwards
<1>2. Forward'
  <2>1. PICK d \in Start : /\ Target = LocalSecond(d) /\ maxYear = d.year + Years
                           /\ AtLeast(cursor, d)
                           /\ Fixed => \A p \in Cursor :
                                          Suits(p) /\ AtLeast(p, d) => AtLeast(p, cursor)
    BY DEF SearchInv, Forward
  <2>2. cursor \in Cursor /\ c \in Cursor /\ d \in Cursor /\ AtLeast(c, cursor)
    BY StartIsCursor DEF SearchInv, Given, Onwards
  <2>3. AtLeast(c, d)
    BY <2>1, <2>2, AtLeastGoesOn
  <2>4. Fixed => \A p \in Cursor : Suits(p) /\ AtLeast(p, d) => AtLeast(p, c)
    BY <2>1 DEF Onwards
  <2>5. Target' = LocalSecond(d) /\ maxYear' = d.year + Years /\ AtLeast(cursor', d)
    BY <2>1, <2>3, TargetStays DEF parser
  <2>6. Fixed' => \A p \in Cursor : Suits(p)' /\ AtLeast(p, d) => AtLeast(p, cursor')
    BY <2>4, SuitsStays
  <2> QED BY <2>5, <2>6 DEF Forward
<1>3. Minutely'
  BY SuitsStays DEF SearchInv, Minutely, Onwards, parser
<1> QED BY <1>1, <1>2, <1>3

\* in particular one that carries and starts the next iteration.
LEMMA AgainKeeps ==
    ASSUME SearchInv, NEW f \in Units \cup {"date"}, f # "year", Searching(f),
           NEW c, Onwards(c), Again(c)
    PROVE  SearchInv'
<1>1. /\ Searches /\ at' = "year" /\ Searches' /\ cursor' = c /\ iteration' = iteration + 1
      /\ UNCHANGED parser /\ result' = None /\ result = None /\ at = f
  BY UnitsInOrder DEF Again, Searching, Searches
<1>2. Given' /\ Forward' /\ Minutely'
  BY <1>1, OnwardsKeeps
<1>3. Counted'
  BY <1>1, SearchAssumption, UnitsInOrder DEF SearchInv, Counted
<1>4. Decided'
  <2>1. \A g \in Units : ~Passed(g)'
    BY <1>1, UnitsInOrder DEF Passed, Below
  <2> QED BY <1>1, <2>1, UnitsInOrder DEF Decided
<1> QED BY <1>1, <1>2, <1>3, <1>4 DEF SearchInv, Returned

\* Moving a unit to the least value it may have passes nothing that suits.
LEMMA MovedOnwards ==
    ASSUME Sound(expr), cursor \in Cursor, NEW f \in Units, NEW v \in Reach(f), v > cursor[f],
           f = "second" => expr.enableSeconds,
           Fixed => \A p \in Cursor : /\ Suits(p) /\ AtLeast(p, cursor)
                                      /\ \A g \in Units : f \in Below[g] => p[g] = cursor[g]
                                      => p[f] >= v
    PROVE  Onwards(Moved(f, v))
<1> DEFINE c == Moved(f, v)
<1>1. c \in Cursor /\ AtLeast(c, cursor)
  BY MovedAhead
<1>2. ASSUME ~expr.enableSeconds PROVE c.second \in {cursor.second, 0}
  <2>1. First["second"] = 0
    BY <1>2 DEF First
  <2>2. f # "second"
    BY <1>2
  <2> QED BY <2>1, <2>2, MovedIs, UnitsInOrder
<1>3. /\ c[f] = v
      /\ \A g \in Units : f \in Below[g] => c[g] = cursor[g]
      /\ \A g \in Units : g \in Below[f] => c[g] = First[g]
  BY MovedIs
<1> HIDE DEF c
<1>4. ASSUME Fixed, NEW p \in Cursor, Suits(p), AtLeast(p, cursor) PROVE AtLeast(p, c)
  <2>1. \A g \in Units : g \in Below[f] => p[g] >= c[g]
    BY <1>3, <1>4, FirstIsLeast
  <2>2. (\A g \in Units : f \in Below[g] => p[g] = cursor[g]) => p[f] >= c[f]
    BY <1>3, <1>4
  <2> QED BY <1>1, <1>3, <1>4, <2>1, <2>2, Skips
<1> QED BY <1>1, <1>2, <1>4 DEF Onwards, c

\* A unit without a value from now on carries into the unit above it.
LEMMA CarryOnwards ==
    ASSUME Sound(expr), cursor \in Cursor, NEW f \in Units, NEW g \in Units,
           \A h \in Units : g \in Below[h] => h = f \/ f \in Below[h], f # "second",
           cursor[f] + 1 \in Reach(f),
           \A p \in Cursor : /\ Suits(p) /\ p[g] >= cursor[g]
                             /\ \A h \in Units : g \in Below[h] => p[h] = cursor[h]
                             => FALSE
    PROVE  Onwards(Moved(f, cursor[f] + 1))
<1> DEFINE v == cursor[f] + 1
<1>1. cursor[f] \in Nat /\ v > cursor[f] /\ v \in Reach(f)
  BY DEF Cursor
<1>2. ASSUME NEW p \in Cursor, Suits(p), AtLeast(p, cursor),
             \A h \in Units : f \in Below[h] => p[h] = cursor[h]
      PROVE  p[f] >= v
  <2>1. p[f] \in Nat /\ p[f] >= cursor[f]
    BY <1>2, AtLeastIn DEF Cursor
  <2>2. ASSUME p[f] = cursor[f] PROVE FALSE
    <3>1. \A h \in Units : g \in Below[h] => p[h] = cursor[h]
      BY <1>2, <2>2
    <3>2. p[g] >= cursor[g]
      BY <1>2, <3>1, AtLeastIn
    <3> QED BY <1>2, <3>1, <3>2
  <2> QED BY <1>1, <2>1, <2>2
<1> HIDE DEF v
<1>3. Onwards(Moved(f, v))
  BY <1>1, <1>2, MovedOnwards
<1> QED BY <1>3 DEF v

\* Nor does the next month, if the rest of this one has no day that suits.
LEMMA NextMonthIsOnwards ==
    ASSUME Sound(expr), cursor \in Cursor,
           Fixed => \A p \in Cursor : /\ Suits(p) /\ p["day"] >= cursor["day"]
                                      /\ p["year"] = cursor["year"] /\ p["month"] = cursor["month"]
                                      => FALSE
    PROVE  Onwards(NextMonth)
<1>1. NextMonth \in Cursor /\ AtLeast(NextMonth, cursor)
  BY NextMonthAhead
<1>2. /\ NextMonth["day"] = First["day"] /\ NextMonth["hour"] = First["hour"]
      /\ NextMonth["minute"] = First["minute"] /\ NextMonth["second"] = First["second"]
      /\ cursor.month = 12 => NextMonth["year"] = cursor["year"] + 1 /\ NextMonth["month"] = 1
      /\ cursor.month # 12 => /\ NextMonth["year"] = cursor["year"]
                              /\ NextMonth["month"] = cursor["month"] + 1
  BY NextMonthUnits DEF Restarts
<1>3. ~expr.enableSeconds => NextMonth.second = 0
  BY <1>2 DEF First
<1>4. ASSUME Fixed, NEW p \in Cursor, Suits(p), AtLeast(p, cursor) PROVE AtLeast(p, NextMonth)
  <2> DEFINE c == NextMonth
  <2>1. /\ p["year"] \in Nat /\ p["month"] \in 1..12 /\ p["day"] \in Nat
        /\ cursor["year"] \in Nat /\ cursor["month"] \in 1..12 /\ cursor["day"] \in Nat
    BY CursorFacts
  <2>2. /\ p["day"] >= c["day"] /\ p["hour"] >= c["hour"] /\ p["minute"] >= c["minute"]
        /\ p["second"] >= c["second"]
    BY <1>2, <1>4, FirstIsLeast, UnitsInOrder DEF Below
  <2>3. p["year"] >= cursor["year"]
    BY <1>4, AtLeastIn, UnitsInOrder DEF Below
  <2>4. p["year"] = cursor["year"] => p["month"] >= cursor["month"]
    <3>1. p["year"] = cursor["year"] =>
             \A g \in Units : "month" \in Below[g] => p[g] = cursor[g]
      BY UnitsInOrder DEF Below
    <3> QED BY <1>4, <3>1, AtLeastIn, UnitsInOrder
  <2>5. p["year"] = cursor["year"] /\ p["month"] = cursor["month"] => p["day"] >= cursor["day"]
    <3>1. p["year"] = cursor["year"] /\ p["month"] = cursor["month"] =>
             \A g \in Units : "day" \in Below[g] => p[g] = cursor[g]
      BY UnitsInOrder DEF Below
    <3> QED BY <1>4, <3>1, AtLeastIn, UnitsInOrder
  <2>6. ~(p["year"] = cursor["year"] /\ p["month"] = cursor["month"])
    BY <1>4, <2>5
  <2>7. CASE cursor.month = 12
    <3>1. p["year"] >= c["year"] /\ p["month"] >= c["month"]
      BY <1>2, <2>1, <2>3, <2>4, <2>6, <2>7
    <3>2. \A g \in Units : p[g] >= c[g]
      BY <2>2, <3>1, UnitsInOrder
    <3> QED BY <1>1, <3>2, NoUnitLess
  <2>8. CASE cursor.month # 12
    <3>1. /\ \A g \in Units : "month" \in Below[g] => c[g] = cursor[g]
          /\ \A g \in Units : g \in Below["month"] => p[g] >= c[g]
      BY <1>2, <2>2, <2>8, UnitsInOrder DEF Below
    <3>2. (\A g \in Units : "month" \in Below[g] => p[g] = cursor[g]) => p["month"] >= c["month"]
      <4> SUFFICES ASSUME p["year"] = cursor["year"] PROVE p["month"] >= c["month"]
        BY UnitsInOrder DEF Below
      <4> QED BY <1>2, <2>1, <2>4, <2>6, <2>8
    <3> QED BY <1>1, <1>4, <3>1, <3>2, Skips, UnitsInOrder
  <2> QED BY <2>7, <2>8
<1> QED BY <1>1, <1>3, <1>4 DEF Onwards

\* Going on to the next unit: the values looked up are all the unit may have.
LEMMA SeekKeeps ==
    ASSUME SearchInv, NEW f \in Units, Searching(f), NEW S, S \subseteq Reach(f), S # {},
           \A v \in S : v >= cursor[f], NEW next \in (Units \ {"year"}) \cup {"date"},
           Seek(f, S, next), f = "year" => iteration < MaxIterations,
           cursor[f] \notin S =>
              \A p \in Cursor : /\ Suits(p) /\ p[f] >= cursor[f]
                                /\ \A g \in Units : f \in Below[g] => p[g] = cursor[g]
                                => p[f] \in S
    PROVE  /\ Given' /\ Counted' /\ Forward' /\ Minutely' /\ Returned' /\ UNCHANGED parser
           /\ at' = next
           /\ cursor'[f] \in S /\ cursor'[f] = Min(S)
           /\ \A g \in Units : f \in Below[g] => cursor'[g] = cursor[g]
<1>1. /\ Searches /\ at' = next /\ Searches' /\ UNCHANGED <<parser, iteration, result>>
      /\ result = None /\ at = f
  BY UnitsInOrder DEF Seek, Searching, Searches
<1>2. cursor \in Cursor /\ Sound(expr) /\ (f = "second" => expr.enableSeconds)
  BY <1>1 DEF SearchInv, Given, Decided
<1>3. Min(S) \in S /\ \A v \in S : Min(S) <= v
  BY ReachIs, LeastValue
<1> DEFINE v == Min(S)
<1> HIDE DEF v
<1>4. cursor' = IF cursor[f] \in S THEN cursor ELSE Moved(f, v)
  BY DEF Seek, v
<1>5. v \in S /\ (\A u \in S : v <= u) /\ v \in Nat /\ cursor[f] \in Nat /\ S \subseteq Nat
  BY <1>2, <1>3, ReachIs DEF v, Cursor
<1>6. /\ Onwards(cursor') /\ cursor'[f] = v
      /\ \A g \in Units : f \in Below[g] => cursor'[g] = cursor[g]
  <2>1. CASE cursor[f] \in S
    <3>1. cursor' = cursor /\ v = cursor[f]
      BY <1>4, <1>5, <2>1
    <3> QED BY <1>2, <3>1 DEF Onwards, AtLeast
  <2>2. CASE cursor[f] \notin S
    <3>1. cursor' = Moved(f, v) /\ v > cursor[f]
      BY <1>4, <1>5, <2>2
    <3>2. ASSUME NEW p \in Cursor, Suits(p), AtLeast(p, cursor),
                 \A g \in Units : f \in Below[g] => p[g] = cursor[g]
          PROVE  p[f] >= v
      <4>1. p[f] >= cursor[f]
        BY <1>2, <3>2, AtLeastIn
      <4> QED BY <1>5, <2>2, <3>2, <4>1
    <3>3. Onwards(Moved(f, v))
      BY <1>2, <1>5, <3>1, <3>2, MovedOnwards
    <3> QED BY <1>2, <3>1, <3>3, MovedIs
  <2> QED BY <2>1, <2>2
<1>7. Given' /\ Forward' /\ Minutely'
  BY <1>1, <1>6, OnwardsKeeps
<1>8. Counted'
  BY <1>1, UnitsInOrder DEF SearchInv, Counted
<1> QED BY <1>1, <1>5, <1>6, <1>7, <1>8 DEF Returned, v

\* Returning: no year is left, or time.Date has kept the day.
LEMMA ReturnKeeps ==
    ASSUME SearchInv, NEW f \in Units \cup {"date"}, Searching(f), NEW x, Return(x),
           \/ /\ x = Zero /\ at = "year"
              /\ iteration < MaxIterations =>
                    \A y \in Int : y >= cursor.year /\ YearFits(y) => y > maxYear
           \/ at = "date" /\ x = Date(cursor) /\ SameDay(x)
    PROVE  SearchInv'
<1>1. /\ UNCHANGED <<at, cursor, iteration>> /\ UNCHANGED parser /\ result' = x
      /\ zone' = zone /\ expr' = expr /\ maxYear' = maxYear /\ from' = from
      /\ Searches /\ Searches'
  BY UnitsInOrder DEF Return, parser, Searches, Searching
<1>2. Given' /\ Counted'
  BY <1>1 DEF SearchInv, Given, Sound, Counted
<1>3. Forward' /\ Minutely'
  <2>1. Onwards(cursor)
    BY <1>1 DEF SearchInv, Given, Onwards, AtLeast
  <2> QED BY <1>1, <2>1, OnwardsKeeps
<1>4. Decided'
  BY <1>1, AllowsStays DEF SearchInv, Decided, Passed, YearFits
<1>5. Date(cursor)' = Date(cursor) /\ SameDay(x)' = SameDay(x)
  BY <1>1, InstantStays DEF Date, SameDay, LocalSecond, Clock, DayNumber, Leap, DaysBefore
<1>6. Returned'
  BY <1>1, <1>5 DEF Returned, YearFits
<1> QED BY <1>2, <1>3, <1>4, <1>6 DEF SearchInv

\* What each step may rely on.
LEMMA SearchingSound == ASSUME SearchInv, NEW f \in Units \cup {"date"}, Searching(f)
   PROVE Searches /\ Sound(expr) /\ cursor \in Cursor /\ at = f
BY UnitsInOrder DEF SearchInv, Given, Searches, Searching

\* Next begins at the first second, or minute, after t.
Begun == /\ zone \in Zone /\ cursor \in Start /\ from \in Int
         /\ Local(After(from)) = LocalSecond(cursor)

LEMMA BegunMinutely == Begun => Minutely
<1> SUFFICES ASSUME Begun, Fixed, WholeMinutes, ~expr.enableSeconds PROVE cursor.second = 0
  BY DEF Minutely
<1> DEFINE N == SecondsPerMinute  q == (from \div N) + 1  b == zone.before \div N
<1>1. N \in Nat \ {0} /\ q \in Int /\ b \in Int /\ zone.before = b * N
  BY ClockAssumption, SearchAssumption DEF Begun, WholeMinutes
<1>2. LocalSecond(cursor) = (q * N) + zone.before
  <2>1. After(from) = q * N /\ q * N \in Int
    BY <1>1 DEF After
  <2> HIDE DEF q, N
  <2> QED BY <2>1, FixedInstants DEF Begun
<1>3. Valid(cursor)
  BY StartIsValid DEF Begun
<1> DEFINE n == DayNumber(cursor.year, cursor.month, cursor.day)
           h == cursor.hour  mi == cursor.minute  s == cursor.second
           k == Minutes(n, h, mi)
<1>4. k \in Int /\ LocalSecond(cursor) = (k * N) + s
  <2>1. n \in Int /\ h \in Int /\ mi \in Int /\ s \in Int
    BY <1>3, ClockIs, CursorFacts DEF Valid
  <2>2. LocalSecond(cursor) = (n * Day) + (((h * Hour) + (mi * SecondsPerMinute)) + s)
    BY DEF LocalSecond, Clock
  <2> HIDE DEF n, h, mi, s
  <2>3. InMinutes(n, h, mi, s)
    BY <2>1, MinutesAre
  <2> QED BY <2>2, <2>3, Zenon DEF InMinutes
<1>5. cursor.second \in 0..(N - 1)
  BY <1>3, CursorFacts DEF Valid
<1> HIDE DEF N, q, b, k
<1>6. (q * N) + (b * N) = ((q + b) * N) + 0 /\ q + b \in Int /\ 0 \in 0..(N - 1)
  BY <1>1
<1>7. LocalSecond(cursor) % N = 0
  BY <1>1, <1>2, <1>6, QuotientIs
<1>8. LocalSecond(cursor) % N = cursor.second
  BY <1>1, <1>4, <1>5, QuotientIs
<1> QED BY <1>7, <1>8

\* Now action by action.
LEMMA CallKeeps == ASSUME SearchInv, ParserIsSound, Call PROVE SearchInv'
<1>1. /\ at = "call" /\ at' = "year" /\ Searches' /\ ~Searches
      /\ zone' \in Zone /\ cursor' \in Start
      /\ UNCHANGED <<expr, iteration, result>>
      /\ Local(After(from))' = LocalSecond(cursor') /\ maxYear' = cursor'.year + Years
  BY DEF Call, Searches
<1>2. from' \in Int
  <2>1. PICK offset \in {zone'.before, zone'.after} :
           from' \in (LocalSecond(cursor') - offset - SecondsPerMinute)
                     ..(LocalSecond(cursor') - offset)
    BY DEF Call
  <2> QED BY <2>1
<1>3. Given'
  BY <1>1, <1>2, StartIsCursor DEF Given, ParserIsSound, Sound
<1>4. Counted'
  BY <1>1, SearchAssumption, UnitsInOrder DEF SearchInv, Counted
<1>5. Forward'
  BY <1>1 DEF Forward, Target, AtLeast
<1>6. Decided'
  BY <1>1, UnitsInOrder DEF Decided, Passed, Below
<1>7. Returned'
  BY <1>1 DEF SearchInv, Returned, Counted
<1>8. Minutely'
  <2>1. LocalSecond(cursor)' = LocalSecond(cursor')
    BY DEF LocalSecond, Clock
  <2>2. Begun'
    BY <1>1, <1>2, <2>1 DEF Begun
  <2> QED BY <2>2, BegunMinutely, PTL
<1> QED BY <1>3, <1>4, <1>5, <1>6, <1>7, <1>8 DEF SearchInv

LEMMA YearKeeps == ASSUME SearchInv, Year PROVE SearchInv'
<1> DEFINE years == IF expr.enableYears THEN FromNow(expr.years, "year") ELSE {cursor.year}
<1>1. Searching("year") /\ iteration < MaxIterations
  BY DEF Year
<1>2. Sound(expr) /\ cursor \in Cursor /\ at = "year" /\ Searches
  BY <1>1, SearchingSound, UnitsInOrder
<1>3. years \subseteq Reach("year") /\ \A v \in years : v >= cursor.year
  <2>1. CASE expr.enableYears
    <3>1. expr.years \subseteq Nat \ {0}
      BY <1>2, <2>1, Values
    <3> QED BY <2>1, <3>1, ReachIs DEF FromNow
  <2>2. CASE ~expr.enableYears
    BY <1>2, <2>2, CursorFacts, ReachIs
  <2> QED BY <2>1, <2>2
<1>4. years \subseteq Nat /\ maxYear \in Int
  <2>1. PICK d \in Start : maxYear = d.year + Years
    BY <1>2 DEF SearchInv, Forward
  <2>2. d.year \in Nat
    BY <2>1, StartIsCursor, CursorFacts
  <2> QED BY <1>3, <2>1, <2>2, ReachIs, SearchAssumption
<1>5. years # {} => Min(years) \in years /\ \A v \in years : Min(years) <= v
  BY <1>4, LeastValue
<1>6. /\ \A y \in Int : YearFits(y) /\ y >= cursor.year => y \in years \/ ~expr.enableYears
      /\ \A y \in years : YearFits(y)
      /\ ~expr.enableYears => years = {cursor.year}
      /\ expr.enableYears => \A y \in Int : YearFits(y) /\ y >= cursor.year => y \in years
  BY DEF FromNow, YearFits
<1>7. CASE years = {} \/ Min(years) > maxYear
  <2>1. Return(Zero)
    BY <1>7 DEF Year
  <2>2. ASSUME NEW y \in Int, y >= cursor.year, YearFits(y) PROVE y > maxYear
    <3> HIDE DEF years, Min
    <3>1. cursor.year \in Int
      BY <1>2, CursorFacts
    <3>2. years # {} /\ y >= Min(years)
      <4>1. CASE expr.enableYears
        BY <1>5, <1>6, <2>2, <4>1
      <4>2. CASE ~expr.enableYears
        BY <1>5, <1>6, <2>2, <3>1, <4>2
      <4> QED BY <4>1, <4>2
    <3> DEFINE v == Min(years)
    <3>3. v \in years
      BY <1>5, <3>2
    <3>4. v > maxYear /\ y >= v
      BY <1>7, <3>2
    <3> HIDE DEF v
    <3>5. v \in Int
      BY <1>4, <3>3
    <3> QED BY <1>4, <3>4, <3>5
  <2> QED BY <1>1, <1>2, <2>1, <2>2, ReturnKeeps, UnitsInOrder
<1>8. CASE ~(years = {} \/ Min(years) > maxYear)
  <2>1. Seek("year", years, "month") /\ years # {} /\ ~(Min(years) > maxYear)
    BY <1>8 DEF Year
  <2>2. ASSUME NEW p \in Cursor, Suits(p), p["year"] >= cursor["year"], cursor["year"] \notin years
        PROVE  p["year"] \in years
    <3>1. p["year"] \in Int /\ YearFits(p["year"])
      BY <2>2, CursorFacts DEF Suits
    <3> HIDE DEF years
    <3> QED BY <1>6, <2>2, <3>1
  <2> HIDE DEF years, Min
  <2>3. /\ Given' /\ Counted' /\ Forward' /\ Minutely' /\ Returned' /\ UNCHANGED parser
        /\ at' = "month" /\ cursor'["year"] \in years /\ cursor'["year"] = Min(years)
    BY <1>1, <1>3, <2>1, <2>2, SeekKeeps, UnitsInOrder
  <2>4. cursor'.year <= maxYear
    <3> DEFINE v == cursor'["year"]
    <3>1. v \in years /\ ~(v > maxYear)
      BY <2>1, <2>3
    <3> HIDE DEF v
    <3>2. v <= maxYear
      BY <1>4, <3>1
    <3> QED BY <3>2 DEF v
  <2>5. Decided'
    BY <1>6, <2>3, <2>4 DEF Decided, Passed, Below, YearFits, parser
  <2> QED BY <2>3, <2>5 DEF SearchInv
<1> QED BY <1>7, <1>8

LEMMA MonthKeeps == ASSUME SearchInv, Month PROVE SearchInv'
<1> DEFINE months == FromNow(expr.months, "month")
<1>1. Searching("month")
  BY DEF Month
<1>2. Sound(expr) /\ cursor \in Cursor /\ at = "month"
  BY <1>1, SearchingSound, UnitsInOrder
<1>3. ASSUME NEW p \in Cursor, Suits(p), p["month"] >= cursor["month"] PROVE p["month"] \in months
  BY <1>3 DEF FromNow, Suits
<1>4. CASE months = {}
  <2>1. Again(Moved("year", cursor["year"] + 1))
    BY <1>4 DEF Month
  <2>2. cursor["year"] + 1 \in Reach("year")
    BY <1>2, CursorFacts, ReachIs
  <2>3. \A h \in Units : "month" \in Below[h] => h = "year" \/ "year" \in Below[h]
    BY UnitsInOrder DEF Below
  <2> HIDE DEF months
  <2>4. Onwards(Moved("year", cursor["year"] + 1))
    BY <1>2, <1>3, <1>4, <2>2, <2>3, CarryOnwards, UnitsInOrder
  <2> QED BY <1>1, <2>1, <2>4, AgainKeeps, UnitsInOrder
<1>5. CASE months # {}
  <2>1. Seek("month", months, "day")
    BY <1>5 DEF Month
  <2>2. /\ months \subseteq Reach("month") /\ \A v \in months : v >= cursor.month
        /\ months \subseteq expr.months
    BY <1>2, ReachIs, Values DEF FromNow
  <2> HIDE DEF months
  <2>3. /\ Given' /\ Counted' /\ Forward' /\ Minutely' /\ Returned' /\ UNCHANGED parser
        /\ at' = "day" /\ cursor'["month"] \in months
        /\ \A g \in Units : "month" \in Below[g] => cursor'[g] = cursor[g]
    BY <1>1, <1>3, <1>5, <2>1, <2>2, SeekKeeps, UnitsInOrder
  <2>4. cursor'.year = cursor.year
    BY <2>3, UnitsInOrder DEF Below
  <2>5. Decided'
    BY <1>2, <2>2, <2>3, <2>4 DEF SearchInv, Decided, Passed, Below, YearFits, parser
  <2> QED BY <2>3, <2>5 DEF SearchInv
<1> QED BY <1>4, <1>5

LEMMA DayKeeps == ASSUME SearchInv, DayMissing \/ DayFound PROVE SearchInv'
<1>1. Searching("day")
  BY DEF DayMissing, DayFound
<1>2. Sound(expr) /\ cursor \in Cursor /\ at = "day"
  BY <1>1, SearchingSound, UnitsInOrder
<1>3. ASSUME NEW p \in Cursor, Suits(p), p["day"] >= cursor["day"],
             p["year"] = cursor["year"], p["month"] = cursor["month"]
      PROVE  p["day"] \in ValidDays
  <2>1. Allows(cursor.year, cursor.month, p["day"])
    BY <1>3 DEF Suits
  <2>2. /\ p["day"] \in 1..daysInMonth(cursor.year, cursor.month)
        /\ isDayValid(cursor.year, cursor.month, p["day"])
    BY <2>1 DEF Allows
  <2>3. cursor.day \in 1..32 /\ daysInMonth(cursor.year, cursor.month) \in 28..31
    BY <1>2, CursorFacts, MonthLength
  <2>4. p["day"] \in cursor.day..daysInMonth(cursor.year, cursor.month)
    BY <1>3, <2>2, <2>3
  <2> QED BY <2>2, <2>4 DEF ValidDays
<1>4. CASE DayMissing
  <2>1. Onwards(NextMonth)
    BY <1>2, <1>3, <1>4, NextMonthIsOnwards DEF DayMissing
  <2> QED BY <1>1, <1>4, <2>1, AgainKeeps, UnitsInOrder DEF DayMissing
<1>5. CASE DayFound
  <2>1. Seek("day", ValidDays, "hour") /\ ValidDays # {}
    BY <1>5 DEF DayFound
  <2>2. /\ ValidDays \subseteq Reach("day")
        /\ \A v \in ValidDays : v >= cursor.day /\ Allows(cursor.year, cursor.month, v)
    <3>1. daysInMonth(cursor.year, cursor.month) \in 28..31
      BY MonthLength
    <3>2. cursor.day \in 1..32
      BY <1>2, CursorFacts
    <3>3. \A v \in ValidDays : /\ v \in cursor.day..daysInMonth(cursor.year, cursor.month)
                               /\ isDayValid(cursor.year, cursor.month, v)
      BY DEF ValidDays
    <3>4. \A v \in ValidDays : /\ v \in 1..32 /\ v >= cursor.day
                               /\ v \in 1..daysInMonth(cursor.year, cursor.month)
      BY <3>1, <3>2, <3>3
    <3> QED BY <3>3, <3>4, ReachIs DEF Allows
  <2>3. \A g \in Units : "day" \in Below[g] => g \in {"year", "month"}
    BY UnitsInOrder DEF Below
  <2>4. "year" \in Units /\ "month" \in Units /\ "day" \in Below["year"] /\ "day" \in Below["month"]
    BY UnitsInOrder DEF Below
  <2>5. /\ Given' /\ Counted' /\ Forward' /\ Minutely' /\ Returned' /\ UNCHANGED parser
        /\ at' = "hour" /\ cursor'["day"] \in ValidDays
        /\ \A g \in Units : "day" \in Below[g] => cursor'[g] = cursor[g]
    BY <1>1, <1>3, <2>1, <2>2, <2>4, SeekKeeps, UnitsInOrder
  <2>6. cursor'.year = cursor.year /\ cursor'.month = cursor.month
    BY <2>4, <2>5
  <2>7. Allows(cursor.year, cursor.month, cursor'.day)
    BY <2>2, <2>5
  <2>8. Allows(cursor.year, cursor.month, cursor'.day)
           => Allows(cursor.year, cursor.month, cursor.day)'
    BY <2>5, <2>6, AllowsStays DEF parser
  <2>9. Decided'
    BY <1>2, <2>5, <2>6, <2>7, <2>8 DEF SearchInv, Decided, Passed, Below, YearFits, parser
  <2> QED BY <2>5, <2>9 DEF SearchInv
<1> QED BY <1>4, <1>5

LEMMA HourKeeps == ASSUME SearchInv, HourStep PROVE SearchInv'
<1> DEFINE hours == FromNow(expr.hours, "hour")
<1>1. Searching("hour")
  BY DEF HourStep
<1>2. Sound(expr) /\ cursor \in Cursor /\ at = "hour"
  BY <1>1, SearchingSound, UnitsInOrder
<1>3. ASSUME NEW p \in Cursor, Suits(p), p["hour"] >= cursor["hour"] PROVE p["hour"] \in hours
  BY <1>3 DEF FromNow, Suits
<1>4. CASE hours = {}
  <2>1. Again(Moved("day", cursor["day"] + 1))
    BY <1>4 DEF HourStep
  <2>2. cursor.day \in 1..31
    <3>1. cursor.day \in 1..daysInMonth(cursor.year, cursor.month)
      BY <1>2 DEF SearchInv, Decided, Passed, Below, Allows
    <3>2. daysInMonth(cursor.year, cursor.month) \in 28..31
      BY MonthLength
    <3> QED BY <3>1, <3>2
  <2>3. cursor["day"] + 1 \in Reach("day")
    <3>1. cursor["day"] + 1 \in 1..32
      BY <2>2
    <3> QED BY <3>1, ReachIs
  <2>4. \A h \in Units : "hour" \in Below[h] => h = "day" \/ "day" \in Below[h]
    BY UnitsInOrder DEF Below
  <2> HIDE DEF hours
  <2>5. Onwards(Moved("day", cursor["day"] + 1))
    BY <1>2, <1>3, <1>4, <2>3, <2>4, CarryOnwards, UnitsInOrder
  <2> QED BY <1>1, <2>1, <2>5, AgainKeeps, UnitsInOrder
<1>5. CASE hours # {}
  <2>1. Seek("hour", hours, "minute")
    BY <1>5 DEF HourStep
  <2>2. /\ hours \subseteq Reach("hour") /\ \A v \in hours : v >= cursor.hour
        /\ hours \subseteq expr.hours
    BY <1>2, ReachIs, Values, ClockAssumption DEF FromNow
  <2> HIDE DEF hours
  <2>3. /\ Given' /\ Counted' /\ Forward' /\ Minutely' /\ Returned' /\ UNCHANGED parser
        /\ at' = "minute" /\ cursor'["hour"] \in hours
        /\ \A g \in Units : "hour" \in Below[g] => cursor'[g] = cursor[g]
    BY <1>1, <1>3, <1>5, <2>1, <2>2, SeekKeeps, UnitsInOrder
  <2>4. cursor'.year = cursor.year /\ cursor'.month = cursor.month /\ cursor'.day = cursor.day
    BY <2>3, UnitsInOrder DEF Below
  <2>5. Allows(cursor.year, cursor.month, cursor.day)'
    BY <1>2, <2>3, <2>4, AllowsStays DEF SearchInv, Decided, Passed, Below, parser
  <2>6. Decided'
    BY <1>2, <2>2, <2>3, <2>4, <2>5 DEF SearchInv, Decided, Passed, Below, YearFits, parser
  <2> QED BY <2>3, <2>6 DEF SearchInv
<1> QED BY <1>4, <1>5

LEMMA MinuteKeeps == ASSUME SearchInv, MinuteStep PROVE SearchInv'
<1> DEFINE minutes == FromNow(expr.minutes, "minute")
           next == IF expr.enableSeconds THEN "second" ELSE "date"
<1>1. Searching("minute")
  BY DEF MinuteStep
<1>2. Sound(expr) /\ cursor \in Cursor /\ at = "minute"
  BY <1>1, SearchingSound, UnitsInOrder
<1>3. ASSUME NEW p \in Cursor, Suits(p), p["minute"] >= cursor["minute"]
      PROVE  p["minute"] \in minutes
  BY <1>3 DEF FromNow, Suits
<1>4. CASE minutes = {}
  <2>1. Again(Moved("hour", cursor["hour"] + 1))
    BY <1>4 DEF MinuteStep
  <2>2. cursor.hour \in 0..(HoursPerDay - 1)
    BY <1>2, Values DEF SearchInv, Decided, Passed, Below
  <2>3. cursor["hour"] + 1 \in Reach("hour")
    BY <2>2, ReachIs, ClockAssumption
  <2>4. \A h \in Units : "minute" \in Below[h] => h = "hour" \/ "hour" \in Below[h]
    BY UnitsInOrder DEF Below
  <2> HIDE DEF minutes
  <2>5. Onwards(Moved("hour", cursor["hour"] + 1))
    BY <1>2, <1>3, <1>4, <2>3, <2>4, CarryOnwards, UnitsInOrder
  <2> QED BY <1>1, <2>1, <2>5, AgainKeeps, UnitsInOrder
<1>5. CASE minutes # {}
  <2>1. Seek("minute", minutes, next) /\ next \in {"second", "date"}
    BY <1>5 DEF MinuteStep
  <2>2. next = "second" <=> expr.enableSeconds
    OBVIOUS
  <2>3. /\ minutes \subseteq Reach("minute") /\ \A v \in minutes : v >= cursor.minute
        /\ minutes \subseteq expr.minutes
    BY <1>2, ReachIs, Values, ClockAssumption DEF FromNow
  <2> HIDE DEF minutes, next
  <2>4. /\ Given' /\ Counted' /\ Forward' /\ Minutely' /\ Returned' /\ UNCHANGED parser
        /\ at' = next /\ cursor'["minute"] \in minutes
        /\ \A g \in Units : "minute" \in Below[g] => cursor'[g] = cursor[g]
    BY <1>1, <1>3, <1>5, <2>1, <2>3, SeekKeeps, UnitsInOrder
  <2>5. /\ cursor'.year = cursor.year /\ cursor'.month = cursor.month /\ cursor'.day = cursor.day
        /\ cursor'.hour = cursor.hour
    BY <2>4, UnitsInOrder DEF Below
  <2>6. Allows(cursor.year, cursor.month, cursor.day)'
    BY <1>2, <2>4, <2>5, AllowsStays DEF SearchInv, Decided, Passed, Below, parser
  <2>7. (at' = "second" => expr'.enableSeconds) /\ (at' = "date" => ~expr'.enableSeconds)
    BY <2>1, <2>2, <2>4 DEF parser
  <2>8. Decided'
    BY <1>2, <2>1, <2>3, <2>4, <2>5, <2>6, <2>7
       DEF SearchInv, Decided, Passed, Below, YearFits, parser
  <2> QED BY <2>4, <2>8 DEF SearchInv
<1> QED BY <1>4, <1>5

LEMMA SecondKeeps == ASSUME SearchInv, SecondStep PROVE SearchInv'
<1> DEFINE seconds == FromNow(expr.seconds, "second")
<1>1. Searching("second")
  BY DEF SecondStep
<1>2. Sound(expr) /\ cursor \in Cursor /\ at = "second" /\ expr.enableSeconds
  BY <1>1, SearchingSound, UnitsInOrder DEF SearchInv, Decided
<1>3. ASSUME NEW p \in Cursor, Suits(p), p["second"] >= cursor["second"]
      PROVE  p["second"] \in seconds
  BY <1>2, <1>3 DEF FromNow, Suits, Seconds
<1>4. CASE seconds = {}
  <2>1. Again(Moved("minute", cursor["minute"] + 1))
    BY <1>4 DEF SecondStep
  <2>2. cursor.minute \in 0..(MinutesPerHour - 1)
    BY <1>2, Values DEF SearchInv, Decided, Passed, Below
  <2>3. cursor["minute"] + 1 \in Reach("minute")
    BY <2>2, ReachIs, ClockAssumption
  <2>4. \A h \in Units : "second" \in Below[h] => h = "minute" \/ "minute" \in Below[h]
    BY UnitsInOrder DEF Below
  <2> HIDE DEF seconds
  <2>5. Onwards(Moved("minute", cursor["minute"] + 1))
    BY <1>2, <1>3, <1>4, <2>3, <2>4, CarryOnwards, UnitsInOrder
  <2> QED BY <1>1, <2>1, <2>5, AgainKeeps, UnitsInOrder
<1>5. CASE seconds # {}
  <2>1. Seek("second", seconds, "date")
    BY <1>5 DEF SecondStep
  <2>2. /\ seconds \subseteq Reach("second") /\ \A v \in seconds : v >= cursor.second
        /\ seconds \subseteq expr.seconds
    <3>1. expr.seconds \subseteq 0..(SecondsPerMinute - 1)
      BY <1>2, Values
    <3> QED BY <3>1, ReachIs DEF FromNow
  <2> HIDE DEF seconds
  <2>3. /\ Given' /\ Counted' /\ Forward' /\ Minutely' /\ Returned' /\ UNCHANGED parser
        /\ at' = "date" /\ cursor'["second"] \in seconds
        /\ \A g \in Units : "second" \in Below[g] => cursor'[g] = cursor[g]
    BY <1>1, <1>2, <1>3, <1>5, <2>1, <2>2, SeekKeeps, UnitsInOrder
  <2>4. /\ cursor'.year = cursor.year /\ cursor'.month = cursor.month /\ cursor'.day = cursor.day
        /\ cursor'.hour = cursor.hour /\ cursor'.minute = cursor.minute
    BY <2>3, UnitsInOrder DEF Below
  <2>5. Allows(cursor.year, cursor.month, cursor.day)'
    BY <1>2, <2>3, <2>4, AllowsStays DEF SearchInv, Decided, Passed, Below, parser
  <2>6. Decided'
    BY <1>2, <2>2, <2>3, <2>4, <2>5 DEF SearchInv, Decided, Passed, Below, YearFits, parser
  <2> QED BY <2>3, <2>6 DEF SearchInv
<1> QED BY <1>4, <1>5

LEMMA DateKeeps == ASSUME SearchInv, DateStep PROVE SearchInv'
<1>1. Searching("date")
  BY DEF DateStep
<1>2. Sound(expr) /\ cursor \in Cursor /\ at = "date" /\ Searches
  BY <1>1, SearchingSound, UnitsInOrder
<1>3. CASE SameDay(Date(cursor))
  <2>1. Return(Date(cursor))
    BY <1>3 DEF DateStep
  <2> QED BY <1>1, <1>2, <1>3, <2>1, ReturnKeeps
<1>4. CASE ~SameDay(Date(cursor))
  <2>1. Again(NextMonth)
    BY <1>4 DEF DateStep
  <2>2. ~Fixed
    BY <1>2, <1>4, FoundIsValid, FixedSameDay DEF SearchInv, Given
  <2>3. Onwards(NextMonth)
    BY <1>2, <2>2, NextMonthIsOnwards
  <2> QED BY <1>1, <2>1, <2>3, AgainKeeps, UnitsInOrder
<1> QED BY <1>3, <1>4

LEMMA ExhaustedKeeps == ASSUME SearchInv, Exhausted PROVE SearchInv'
<1>1. Searching("year") /\ at = "year" /\ Return(Zero) /\ iteration = MaxIterations
  BY DEF Exhausted, Searching
<1>2. ~(iteration < MaxIterations)
  BY <1>1, SearchAssumption
<1> QED BY <1>1, <1>2, ReturnKeeps, UnitsInOrder

\* The search keeps its invariant.
LEMMA SearchInvariant == Spec => [](Parsed /\ SearchInv)
<1>1. Init => SearchInv
  BY UnitsInOrder DEF Init, SearchInv, Given, Counted, Forward, Decided, Minutely, Returned,
                      Passed, Searches, Below
<1>2. Parsed /\ SearchInv /\ [Next]_vars => SearchInv'
  <2> SUFFICES ASSUME Parsed, SearchInv, [Next]_vars PROVE SearchInv'
    OBVIOUS
  <2>1. CASE New
    <3>1. /\ at = "parse" /\ at' \in {"refused", "call"} /\ ~Searches /\ ~Searches'
          /\ UNCHANGED <<iteration, result>>
      BY <2>1 DEF New, Searches
    <3> QED BY <3>1, UnitsInOrder DEF SearchInv, Given, Counted, Forward, Decided, Minutely,
                                      Returned, Passed, Below
  <2>2. CASE Call
    BY <2>2, CallKeeps DEF Parsed
  <2>3. CASE Exhausted \/ Year \/ Month \/ DayMissing \/ DayFound
    BY <2>3, ExhaustedKeeps, YearKeeps, MonthKeeps, DayKeeps
  <2>4. CASE HourStep \/ MinuteStep \/ SecondStep \/ DateStep
    BY <2>4, HourKeeps, MinuteKeeps, SecondKeeps, DateKeeps
  <2>5. CASE UNCHANGED vars
    <3>1. /\ UNCHANGED parser
          /\ UNCHANGED <<at, cursor, iteration, result, zone, from, expr, maxYear>>
      BY <2>5 DEF vars, parser
    <3>2. Given' /\ Counted'
      BY <3>1 DEF SearchInv, Given, Counted, Sound, Searches
    <3>3. Returned'
      <4>1. Date(cursor)' = Date(cursor) /\ \A x : SameDay(x)' = SameDay(x)
        BY <3>1, InstantStays DEF Date, SameDay, LocalSecond, Clock, DayNumber, Leap, DaysBefore
      <4> QED BY <3>1, <4>1 DEF SearchInv, Returned, YearFits
    <3>4. Forward' /\ Minutely'
      BY <3>1, TargetStays, SuitsStays DEF SearchInv, Forward, Minutely, Searches
    <3>5. Decided'
      BY <3>1, AllowsStays DEF SearchInv, Decided, Passed, YearFits
    <3> QED BY <3>2, <3>3, <3>4, <3>5 DEF SearchInv
  <2> QED BY <2>1, <2>2, <2>3, <2>4, <2>5 DEF Next
<1> QED BY <1>1, <1>2, ParsedInvariant, PTL DEF Spec

-----------------------------------------------------------------------------
(***************************************************************************)
(* What the search returns.                                                *)
(***************************************************************************)
\* Next's cursor stays within its ranges, one past the last day, hour or minute
\* included, until it returns an instant or the zero time (cron_parser.go:389).
THEOREM SearchTyped == Spec => []TypeOK
<1>1. SearchInv => TypeOK
  <2> SUFFICES ASSUME SearchInv PROVE TypeOK
    OBVIOUS
  <2>1. ASSUME Searches
        PROVE  /\ at \in {"year", "month", "day", "hour", "minute", "second", "date"}
               /\ iteration \in 0..MaxIterations
               /\ cursor \in Cursor
    BY <2>1, UnitsInOrder DEF SearchInv, Counted, Given
  <2>2. ASSUME Searches PROVE result \in Int \cup {None}
    <3>1. CASE result \in {None, Zero}
      BY <3>1 DEF Zero
    <3>2. CASE result \notin {None, Zero}
      <4>1. at = "date" /\ result = Instant(LocalSecond(cursor)) /\ zone \in Zone
        BY <2>2, <3>2 DEF SearchInv, Returned, Given, Date
      <4>2. LocalSecond(cursor) \in Int
        BY <4>1, FoundIsValid, ClockIs
      <4>3. \A n \in Int : Instant(n) \in Int
        BY <4>1, SearchAssumption DEF Instant, Offset
      <4> QED BY <4>1, <4>2, <4>3
    <3> QED BY <3>1, <3>2
  <2>3. ~Searches => result = None
    BY DEF SearchInv, Counted
  <2> QED BY <2>1, <2>2, <2>3, CursorFacts DEF TypeOK, Searches
<1> QED BY <1>1, SearchInvariant, PTL

\* Where no offset is negative, time.Date (cron_parser.go:501) never takes Next
\* back to t or before it, whatever the transition.
THEOREM ResultIsLater == Spec => []EastIsLater
<1>1. SearchInv => EastIsLater
  <2> SUFFICES ASSUME SearchInv, result \notin {None, Zero}, zone.before >= 0, zone.after >= 0
               PROVE  result > from
    BY DEF EastIsLater
  <2>1. at = "date" /\ result = Instant(LocalSecond(cursor))
    BY DEF SearchInv, Returned, Date
  <2>2. zone \in Zone /\ from \in Int
    BY <2>1 DEF SearchInv, Given, Searches
  <2>3. PICK d \in Start : AtLeast(cursor, d) /\ Local(After(from)) = LocalSecond(d)
    BY <2>1 DEF SearchInv, Forward, Searches, Target
  <2>4. Valid(cursor) /\ Valid(d)
    BY <2>1, FoundIsValid, StartIsValid
  <2>5. LocalSecond(cursor) \in Int /\ LocalSecond(cursor) >= Local(After(from))
    <3>1. LocalSecond(cursor) \in Int /\ LocalSecond(d) \in Int
      BY <2>4, ClockIs
    <3>2. cursor = d \/ LocalSecond(d) < LocalSecond(cursor)
      BY <2>3, <2>4, SecondsInOrder
    <3> QED BY <2>3, <3>1, <3>2
  <2>6. After(from) \in Int /\ After(from) > from
    BY <2>2, LaterThanNow
  <2>7. Instant(LocalSecond(cursor)) >= After(from)
    BY <2>2, <2>5, <2>6, NoGoingBack
  <2>8. Instant(LocalSecond(cursor)) \in Int
    BY <2>2, <2>5, SearchAssumption DEF Instant, Offset
  <2> QED BY <2>1, <2>2, <2>6, <2>7, <2>8
<1> QED BY <1>1, SearchInvariant, PTL

\* Where local midnights exist, or no day of the week is looked up, the day of
\* what Next returns is one the expression allows: the check after time.Date
\* (cron_parser.go:502) and isDayValid (:554) are enough.
THEOREM ResultIsOnAllowedDay == Spec => []RunsOnAllowedDay
<1>1. SearchInv => RunsOnAllowedDay
  <2> DEFINE y == cursor.year  m == cursor.month
             d == Local(result) \div Day - DayNumber(y, m, 0)
  <2> SUFFICES ASSUME SearchInv, result \notin {None, Zero},
                      MidnightExists \/ (/\ expr.dayOfWeekWildcard
                                         /\ \A x \in expr.dayOfMonth : x >= 0)
               PROVE  /\ YearFits(y) /\ m \in expr.months
                      /\ d \in 1..daysInMonth(y, m) /\ DayFits(y, m, d)
    BY Zenon DEF RunsOnAllowedDay
  <2>1. at = "date" /\ SameDay(result)
    BY DEF SearchInv, Returned
  <2>2. zone \in Zone /\ Sound(expr) /\ cursor \in Cursor
    BY <2>1 DEF SearchInv, Given, Searches
  <2>3. YearFits(y) /\ m \in expr.months /\ Allows(y, m, cursor.day)
    BY <2>1 DEF SearchInv, Decided, Passed
  <2>4. y \in Int /\ m \in 1..12 /\ cursor.day \in Int
    BY <2>2, CursorFacts
  <2>5. d = cursor.day
    <3>1. Local(result) \div Day = DayNumber(y, m, cursor.day)
      BY <2>1 DEF SameDay
    <3>2. /\ DayNumber(y, m, 0) \in Int
          /\ DayNumber(y, m, cursor.day) = DayNumber(y, m, 0) + cursor.day
      BY <2>4, DayTyped
    <3> QED BY <2>4, <3>1, <3>2
  <2> HIDE DEF d, y, m
  <2>6. d \in 1..daysInMonth(y, m) /\ isDayValid(y, m, d)
    BY <2>3, <2>5 DEF Allows
  <2>7. DayFits(y, m, d)
    <3>1. CASE MidnightExists
      BY <2>2, <2>4, <2>6, <3>1, AllowedDaysFit DEF NoneMissing
    <3>2. CASE expr.dayOfWeekWildcard /\ \A x \in expr.dayOfMonth : x >= 0
      BY <2>2, <2>4, <2>6, <3>2, AllowedDaysFit
    <3> QED BY <3>1, <3>2
  <2> QED BY <2>3, <2>6, <2>7
<1> QED BY <1>1, SearchInvariant, PTL

-----------------------------------------------------------------------------
(***************************************************************************)
(* Nothing that fits is passed over in a location without a transition.    *)
(***************************************************************************)

\* The cursor of a date and a time that fit.
At(y, m, d, h, mi, s) == [f \in Units |->
    CASE f = "year" -> y [] f = "month" -> m [] f = "day" -> d
      [] f = "hour" -> h [] f = "minute" -> mi [] OTHER -> s]

IsDate(y, m, d) == y \in Nat \ {0} /\ m \in 1..12 /\ d \in 1..daysInMonth(y, m)
IsTime(h, mi, s) == h \in expr.hours /\ mi \in expr.minutes /\ s \in Seconds
StandsFor(p, y, m, d, h, mi, s) ==
    /\ Valid(p) /\ p.year = y /\ p.month = m /\ p.day = d
    /\ p.hour = h /\ p.minute = mi /\ p.second = s

LEMMA AtIs ==
    ASSUME Sound(expr), NEW y, NEW m, NEW d, IsDate(y, m, d),
           NEW h, NEW mi, NEW s, IsTime(h, mi, s)
    PROVE  StandsFor(At(y, m, d, h, mi, s), y, m, d, h, mi, s)
<1> DEFINE p == At(y, m, d, h, mi, s)
<1>1. /\ p = [f \in Units |-> p[f]] /\ p.year = y /\ p.month = m /\ p.day = d /\ p.hour = h
      /\ p.minute = mi /\ p.second = s
  BY UnitsInOrder DEF At
<1> HIDE DEF p
<1>2. /\ h \in 0..(HoursPerDay - 1) /\ mi \in 0..(MinutesPerHour - 1)
      /\ s \in 0..(SecondsPerMinute - 1)
  BY Values, ClockAssumption DEF Seconds, IsTime
<1>3. y \in Nat \ {0} /\ m \in 1..12 /\ d \in 1..daysInMonth(y, m) /\ d \in 1..31
  BY MonthLength DEF IsDate
<1>4. /\ y \in Nat \ {0} /\ m \in 1..12 /\ d \in 1..32
      /\ h \in 0..HoursPerDay /\ mi \in 0..MinutesPerHour
  BY <1>2, <1>3, ClockAssumption
<1>5. \A f \in Units : p[f] \in Reach(f)
  <2>1. /\ p["year"] \in Reach("year") /\ p["month"] \in Reach("month")
        /\ p["day"] \in Reach("day")
    BY <1>1, <1>4, ReachIs
  <2>2. /\ p["hour"] \in Reach("hour") /\ p["minute"] \in Reach("minute")
        /\ p["second"] \in Reach("second")
    BY <1>1, <1>2, <1>4, ReachIs
  <2> QED BY <2>1, <2>2, UnitsInOrder
<1>6. p \in Cursor
  BY <1>1, <1>5, ReachIs DEF Cursor
<1>7. Valid(p)
  BY <1>1, <1>2, <1>3, <1>6 DEF Valid
<1> QED BY <1>1, <1>7 DEF p, StandsFor

\* A time after the present one is not before the one that Next begins at.
LEMMA NotBeforeTarget ==
    ASSUME zone \in Zone, from \in Int, Fixed, WholeMinutes, NEW k \in Int,
           NEW r \in Int, r \in Seconds, (k * SecondsPerMinute) + r >= Local(from) + 1
    PROVE  (k * SecondsPerMinute) + r >= Target
<1> DEFINE N == SecondsPerMinute  b == zone.before \div N
<1>1. /\ N \in Nat \ {0} /\ zone.before \in Int /\ b \in Int /\ zone.before = b * N
  BY ClockAssumption, SearchAssumption DEF WholeMinutes
<1>2. Local(from) = from + zone.before /\ k * N \in Int
  BY <1>1, FixedInstants
<1>3. CASE expr.enableSeconds
  <2>1. Target = (from + 1) + zone.before
    BY <1>3, FixedInstants DEF Target, After
  <2> QED BY <1>1, <1>2, <2>1
<1>4. CASE ~expr.enableSeconds
  <2> DEFINE q == (from \div N) + 1
  <2>1. q \in Int /\ from < q * N /\ (q - 1) * N <= from
    BY <1>1, Quotient
  <2>2. After(from) = q * N /\ q * N \in Int
    BY <1>1, <1>4, <2>1 DEF After
  <2>3. Target = (q * N) + zone.before
    BY <2>2, FixedInstants DEF Target
  <2>4. r = 0
    BY <1>4 DEF Seconds
  <2>5. (k * N) + r >= (from + zone.before) + 1
    BY <1>2
  <2> HIDE DEF q, N, b
  <2>6. (k - b) * N = (k * N) - (b * N) /\ b * N \in Int /\ q * N \in Int
    BY <1>1, <2>1
  <2>7. from < (k - b) * N
    BY <1>1, <1>2, <2>4, <2>5, <2>6
  <2>8. (q - 1) * N < (k - b) * N
    BY <1>1, <1>2, <2>1, <2>6, <2>7
  <2>9. q - 1 < k - b
    <3>1. ASSUME k - b <= q - 1 PROVE (k - b) * N <= (q - 1) * N
      BY <1>1, <2>1, <3>1
    <3>2. (k - b) * N \in Int /\ (q - 1) * N \in Int
      BY <1>1, <2>1
    <3> QED BY <1>1, <2>1, <2>8, <3>1, <3>2
  <2>10. q * N <= (k - b) * N
    BY <1>1, <2>1, <2>9
  <2> QED BY <1>1, <1>2, <2>3, <2>4, <2>6, <2>10 DEF N
<1> QED BY <1>3, <1>4

\* What fits after t is not before the cursor.
LEMMA NothingPassed ==
    ASSUME SearchInv, Searches, Fixed, WholeMinutes, NEW y \in Int, YearFits(y),
           NEW m \in expr.months, NEW d \in 1..daysInMonth(y, m), DayFits(y, m, d),
           NEW s \in TimesOfDay, (DayNumber(y, m, d) * Day) + s >= Local(from) + 1,
           NEW b \in Start, Target = LocalSecond(b),
           \A p \in Cursor : Suits(p) /\ AtLeast(p, b) => AtLeast(p, cursor)
    PROVE  \E p \in Cursor : /\ Valid(p) /\ AtLeast(p, cursor) /\ p.year = y
                             /\ LocalSecond(p) = (DayNumber(y, m, d) * Day) + s
<1>1. zone \in Zone /\ from \in Int /\ Sound(expr)
  BY DEF SearchInv, Given
<1>0. Sound(expr)
  BY <1>1
<1>2. PICK h \in expr.hours, mi \in expr.minutes, r \in Seconds :
         s = ((h * Hour) + (mi * SecondsPerMinute)) + r
  BY DEF TimesOfDay, Seconds
<1>3. /\ Valid(b) /\ b.year \in Nat \ {0} /\ b.month \in 1..12
      /\ b.day \in 1..daysInMonth(b.year, b.month)
  BY StartIsValid, CursorFacts DEF Valid
<1>4. m \in 1..12 /\ h \in Int /\ mi \in Int /\ r \in Int /\ d \in Int
  BY <1>1, Values, MonthLength, ClockAssumption DEF Seconds
<1>t. IsTime(h, mi, r)
  BY <1>2 DEF IsTime
<1> DEFINE n == DayNumber(y, m, d)  t == (n * Day) + s
<1>5. n \in Int /\ n = DayNumber(y, m, 0) + d /\ DayNumber(y, m, 0) \in Int
  <2>1. DayNumber(y, m, 0) \in Int /\ DayNumber(y, m, d) = DayNumber(y, m, 0) + d
    BY <1>4, DayTyped
  <2> QED BY <1>4, <2>1
<1>6. s \in 0..(Day - 1)
  <2> DEFINE z == b.year  u == b.month  v == b.day  p == At(z, u, v, h, mi, r)
  <2>0. z \in Nat \ {0} /\ u \in 1..12 /\ v \in 1..daysInMonth(z, u)
    BY <1>3
  <2> HIDE DEF z, u, v
  <2>1. Valid(p) /\ p.hour = h /\ p.minute = mi /\ p.second = r
    <3>1. IsDate(z, u, v)
      BY <2>0 DEF IsDate
    <3>2. StandsFor(p, z, u, v, h, mi, r)
      BY <1>0, <1>t, <3>1, AtIs, Zenon
    <3> HIDE DEF p
    <3> QED BY <3>2 DEF StandsFor
  <2> HIDE DEF p
  <2>2. Clock(p) = s
    BY <1>2, <2>1 DEF Clock
  <2> QED BY <2>1, <2>2, ClockIs
<1>7. t >= Target
  <2> DEFINE k == Minutes(n, h, mi)
  <2>1. k \in Int /\ (n * Day) + s = (k * SecondsPerMinute) + r
    <3> HIDE DEF n
    <3>1. n \in Int /\ h \in Int /\ mi \in Int /\ r \in Int
      BY <1>4, <1>5
    <3> DEFINE z == ((h * Hour) + (mi * SecondsPerMinute)) + r
    <3>2. InMinutes(n, h, mi, r)
      BY <3>1, MinutesAre
    <3>3. s = z
      BY <1>2
    <3>4. k \in Int /\ (n * Day) + z = (k * SecondsPerMinute) + r
      BY <3>2, Zenon DEF InMinutes
    <3> HIDE DEF k, z
    <3> QED BY <3>3, <3>4, Zenon
  <2> HIDE DEF k
  <2> QED BY <1>1, <1>4, <2>1, NotBeforeTarget
<1>8. y >= b.year
  <2> SUFFICES ASSUME y < b.year PROVE FALSE
    BY <1>3
  <2> DEFINE u == DayNumber(b.year, b.month, b.day)
  <2>1. /\ u \in Int /\ LocalSecond(b) = (u * Day) + Clock(b)
        /\ Clock(b) \in 0..(Day - 1)
    BY <1>3, ClockIs DEF LocalSecond
  <2>2. n < u
    <3>1. b.day \in Int /\ b.year \in Int /\ b.month \in 1..12
      BY <1>3, MonthLength
    <3>2. u = DayNumber(b.year, b.month, 0) + b.day /\ DayNumber(b.year, b.month, 0) \in Int
      BY <3>1, DayTyped, Zenon
    <3>3. DayNumber(y, m, 0) + daysInMonth(y, m) <= DayNumber(b.year, b.month, 0)
      BY <1>3, <1>4, YearEnds
    <3>4. d <= daysInMonth(y, m) /\ b.day >= 1 /\ daysInMonth(y, m) \in Int
      BY <1>3, MonthLength
    <3> DEFINE i == DayNumber(y, m, 0)  j == DayNumber(b.year, b.month, 0)
               l == daysInMonth(y, m)  k == b.day
    <3>5. /\ i \in Int /\ j \in Int /\ l \in Int /\ k \in Int /\ d \in Int
          /\ n = i + d /\ d <= l /\ i + l <= j /\ u = j + k /\ k >= 1
      BY <1>4, <1>5, <3>1, <3>2, <3>3, <3>4, Zenon
    <3> HIDE DEF u, n, i, j, l, k
    <3> QED BY <3>5
  <2> HIDE DEF n, u
  <2>3. (n * Day) + s < (u * Day) + Clock(b)
    BY <1>5, <1>6, <2>1, <2>2, Carry, DayIs
  <2>4. (n * Day) + s \in Int
    BY <1>5, <1>6, DayIs
  <2> QED BY <1>7, <2>1, <2>3, <2>4, DayIs
<1>9. y \in Nat \ {0}
  BY <1>3, <1>8
<1> DEFINE p == At(y, m, d, h, mi, r)
<1>10. /\ Valid(p) /\ p.year = y /\ p.month = m /\ p.day = d /\ p.hour = h /\ p.minute = mi
       /\ p.second = r
  <2>1. IsDate(y, m, d)
    BY <1>4, <1>9 DEF IsDate
  <2>2. StandsFor(p, y, m, d, h, mi, r)
    BY <1>0, <1>t, <2>1, AtIs, Zenon
  <2> HIDE DEF p
  <2> QED BY <2>2 DEF StandsFor
<1> HIDE DEF p
<1>11. LocalSecond(p) = t
  BY <1>2, <1>10 DEF LocalSecond, Clock
<1>12. Suits(p)
  <2>1. isDayValid(y, m, d)
    BY <1>1, <1>4, AllowedDaysFit DEF NoneMissing
  <2> QED BY <1>10, <2>1 DEF Suits, Allows
<1>13. AtLeast(p, b)
  <2> HIDE DEF t
  <2>1. p \in Cursor /\ b \in Cursor /\ LocalSecond(p) \in Int /\ LocalSecond(b) \in Int
    BY <1>3, <1>10, ClockIs DEF Valid
  <2>2. CASE AtLeast(b, p)
    <3>1. b = p \/ LocalSecond(p) < LocalSecond(b)
      BY <1>3, <1>10, <2>2, SecondsInOrder
    <3> QED BY <1>7, <1>11, <2>1, <3>1 DEF AtLeast
  <2> QED BY <2>1, <2>2, AtLeastIsTotal
<1>14. p \in Cursor
  BY <1>10 DEF Valid
<1> QED BY <1>10, <1>11, <1>12, <1>13, <1>14

\* What Next found fits.
LEMMA FoundFits ==
    ASSUME SearchInv, at = "date", Fixed, WholeMinutes
    PROVE  Fits(LocalSecond(cursor))
<1>1. zone \in Zone /\ Sound(expr) /\ cursor \in Cursor /\ Searches
  BY DEF SearchInv, Given, Searches
<1>2. /\ YearFits(cursor.year) /\ cursor.year <= maxYear /\ cursor.month \in expr.months
      /\ Allows(cursor.year, cursor.month, cursor.day) /\ cursor.hour \in expr.hours
      /\ cursor.minute \in expr.minutes
      /\ expr.enableSeconds => cursor.second \in expr.seconds
  BY DEF SearchInv, Decided, Passed
<1> DEFINE y == cursor.year  m == cursor.month  d == cursor.day  x == LocalSecond(cursor)
<1>3. y \in Int /\ m \in 1..12 /\ d \in 1..daysInMonth(y, m) /\ isDayValid(y, m, d)
  BY <1>1, <1>2, CursorFacts DEF Allows
<1>4. y \in (maxYear - Years)..maxYear
  <2>1. PICK b \in Start : maxYear = b.year + Years /\ AtLeast(cursor, b)
    BY <1>1 DEF SearchInv, Forward
  <2>2. b \in Cursor /\ b.year \in Nat
    BY StartIsCursor, CursorFacts
  <2>3. cursor["year"] >= b["year"]
    BY <1>1, <2>1, <2>2, AtLeastIn, UnitsInOrder DEF Below
  <2> QED BY <1>2, <1>3, <2>1, <2>2, <2>3, SearchAssumption
<1>5. DayFits(y, m, d)
  BY <1>1, <1>3, AllowedDaysFit DEF NoneMissing
<1>6. x \div Day = DayNumber(y, m, d) /\ x % Day = Clock(cursor)
  <2>1. Valid(cursor)
    BY FoundIsValid
  <2>2. /\ DayNumber(y, m, d) \in Int /\ Clock(cursor) \in 0..(Day - 1)
        /\ x = (DayNumber(y, m, d) * Day) + Clock(cursor)
    BY <2>1, ClockIs DEF LocalSecond
  <2> HIDE DEF x
  <2> QED BY <2>2, DayIs, QuotientIs
<1>7. Clock(cursor) \in TimesOfDay
  <2>1. cursor.second \in Seconds
    BY <1>1, <1>2 DEF SearchInv, Minutely, Seconds
  <2> QED BY <1>2, <2>1 DEF Clock, TimesOfDay, Seconds
<1> HIDE DEF x, y, m, d
<1>8. \E z \in (maxYear - Years)..maxYear : YearFits(z) /\
        \E k \in expr.months : \E e \in 1..daysInMonth(z, k) :
          /\ DayNumber(z, k, e) = x \div Day
          /\ DayFits(z, k, e)
          /\ x % Day \in TimesOfDay
  BY <1>2, <1>3, <1>4, <1>5, <1>6, <1>7 DEF y, m
<1> QED BY <1>8 DEF Fits, x

-----------------------------------------------------------------------------
(***************************************************************************)
(* The bound on the iterations (cron_parser.go:389).  A carry makes the    *)
(* units below start again from values they may have, so that seconds,     *)
(* minutes and hours carry once each at most, and after a fourth carry     *)
(* every month that is looked at is a whole one.  A whole month without an *)
(* allowed day has less than 31; five months have.  If some month has an   *)
(* allowed day in every year, it is found in the first allowed year after  *)
(* that of the start at the latest; if February is the only month, a year  *)
(* costs two iterations; and otherwise no month ever has an allowed day.   *)
(***************************************************************************)
\* A month of n days has one that is allowed: a value of the day of the month is
\* 0 for the last day and -d for the weekday nearest to d.
Roomy(n) == \/ expr.dayOfMonthWildcard \/ ~expr.dayOfWeekWildcard
            \/ \E x \in expr.dayOfMonth : x <= n /\ -x <= n

\* A month that has one in every year.
Good(g) == g \in expr.months /\ Roomy(daysInMonth(1, g))

\* How many months before the m-th have less than 31 days.
Shorter(m) == IF m <= 2 THEN 0 ELSE IF m <= 4 THEN 1 ELSE IF m <= 6 THEN 2
              ELSE IF m <= 9 THEN 3 ELSE IF m <= 11 THEN 4 ELSE 5

\* The lengths of the months, and longer ones have more room.
LEMMA MonthDays ==
    ASSUME NEW y \in Int, NEW m \in 1..12
    PROVE  /\ daysInMonth(y, m) \in 28..31 /\ daysInMonth(1, m) \in 28..31
           /\ daysInMonth(1, m) <= daysInMonth(y, m)
           /\ m # 2 => daysInMonth(1, m) >= 30 /\ daysInMonth(y, m) = daysInMonth(1, m)
           /\ m \notin {2, 4, 6, 9, 11} => daysInMonth(y, m) = 31
<1>1. daysInMonth(1, m) \in 28..31 /\ daysInMonth(y, m) \in 28..31
  BY DEF daysInMonth
<1>2. ~Leap(1)
  BY DEF Leap
<1> QED BY <1>1, <1>2 DEF daysInMonth

LEMMA RoomGrows ==
    ASSUME Sound(expr), NEW a \in Int, NEW b \in Int, a <= b, Roomy(a) PROVE Roomy(b)
<1>1. expr.dayOfMonth \subseteq -31..31
  BY DEF Sound
<1> QED BY <1>1 DEF Roomy

\* A roomy month has an allowed day: the code finds one for each kind of value.
LEMMA RoomyMonths ==
    ASSUME zone \in Zone, Fixed, Sound(expr), NEW y \in Int, NEW m \in 1..12,
           Roomy(daysInMonth(y, m))
    PROVE  \E d \in 1..daysInMonth(y, m) : isDayValid(y, m, d)
<1> DEFINE k == DayNumber(y, m, 0)  n == daysInMonth(y, m)
<1>1. k \in Int /\ n \in 28..31
  BY DayTyped, MonthLength
<1>2. /\ lastDay(y, m) = n
      /\ \A d \in Int : Weekday(MidnightDay(y, m, d)) = (k + d) % 7
  BY MidnightsAreKept DEF NoneMissing, Weekday
<1>3. expr.dayOfMonth \subseteq -31..31 /\ expr.dayOfWeek \subseteq -6..6 /\ expr.dayOfWeek # {}
  BY DEF Sound
<1>4. CASE expr.dayOfMonthWildcard /\ expr.dayOfWeekWildcard
  <2>1. 1 \in 1..n
    BY <1>1
  <2> QED BY <1>4, <2>1 DEF isDayValid
<1>5. CASE ~expr.dayOfWeekWildcard
  <2>1. PICK w \in -6..6 : w \in expr.dayOfWeek
    BY <1>3
  <2>2. CASE w >= 0
    <3>1. \E d \in 1..n : (k + d) % 7 = w
      <4> DEFINE d == 1 + (((w - k) - 1) % 7)
      <4> HIDE DEF k, n
      <4>1. d \in 1..n /\ (k + d) % 7 = w
        BY <1>1, <2>2
      <4> QED BY <4>1
    <3>2. PICK d \in 1..n : (k + d) % 7 = w
      BY <3>1
    <3>3. Weekday(MidnightDay(y, m, d)) = w
      BY <1>1, <1>2, <3>2
    <3>4. isDayOfWeekMatch(y, m, d)
      BY <2>1, <2>2, <3>3 DEF isDayOfWeekMatch
    <3> QED BY <1>5, <3>4 DEF isDayValid
  <2>3. CASE w < 0
    <3> DEFINE d == n - (((k + n) + w) % 7)
    <3>1. d \in 1..n /\ d + 7 > n /\ (k + d) % 7 = -w /\ -w \in 0..6
      <4> HIDE DEF k, n
      <4> QED BY <1>1, <2>3
    <3> HIDE DEF d
    <3>0. d \in Int
      BY <1>1, <3>1
    <3>2. DayNumber(y, m, d) = k + d
      BY <3>0, DayTyped
    <3>3. d = findLastWeekdayOfMonth(y, m, -w)
      BY <3>1, <3>2, LastIsLast DEF NoneMissing, Weekday
    <3>4. isDayOfWeekMatch(y, m, d)
      BY <2>1, <2>3, <3>3 DEF isDayOfWeekMatch
    <3> QED BY <1>5, <3>1, <3>4 DEF isDayValid
  <2> QED BY <2>2, <2>3
<1>6. CASE ~expr.dayOfMonthWildcard /\ expr.dayOfWeekWildcard
  <2>1. PICK x \in expr.dayOfMonth : x <= n /\ -x <= n
    BY <1>6 DEF Roomy
  <2>2. x \in Int
    BY <1>3, <2>1
  <2>3. \E d \in 1..n : isDayOfMonthMatch(y, m, d)
    <3>1. CASE x = 0
      <4>1. n \in 1..n
        BY <1>1
      <4> QED BY <3>1, <4>1 DEF isDayOfMonthMatch
    <3>2. CASE x > 0
      <4>1. x \in 1..n
        BY <1>1, <2>1, <2>2, <3>2
      <4> QED BY <3>2, <4>1 DEF isDayOfMonthMatch
    <3>3. CASE x < 0
      <4> DEFINE t == -x  d == findNearestWeekday(y, m, t)  w == (k + t) % 7
      <4>1. t \in 1..n
        BY <1>1, <2>1, <2>2, <3>3
      <4>2. Weekday(MidnightDay(y, m, t)) = w
        BY <1>1, <1>2, <4>1
      <4>3. d \in {t, t + 1} \/ (d = t - 1 /\ t > 1) \/ (d = t + 2 /\ t = 1)
            \/ (d = t - 2 /\ t = n)
        <5> HIDE DEF t, k, n
        <5> QED BY <1>1, <1>2, <4>1, <4>2 DEF findNearestWeekday
      <4>4. d = t + 1 => t < n
        <5> HIDE DEF t, k, n
        <5> QED BY <1>1, <1>2, <4>1, <4>2 DEF findNearestWeekday
      <4> HIDE DEF d, t, n
      <4>5. d \in 1..n
        BY <1>1, <4>1, <4>3, <4>4
      <4>6. isDayOfMonthMatch(y, m, d)
        BY <3>3 DEF isDayOfMonthMatch, d, t
      <4> QED BY <4>5, <4>6
    <3> QED BY <2>2, <3>1, <3>2, <3>3
  <2> QED BY <1>6, <2>3 DEF isDayValid
<1> QED BY <1>4, <1>5, <1>6 DEF Roomy

\* Any other has no day that fits.
LEMMA BareMonths ==
    ASSUME NEW y \in Int, NEW m \in 1..12, ~Roomy(daysInMonth(y, m)),
           NEW d \in 1..daysInMonth(y, m)
    PROVE  ~DayFits(y, m, d)
<1> DEFINE n == daysInMonth(y, m)
<1>1. n \in 28..31
  BY MonthLength
<1>2. /\ ~expr.dayOfMonthWildcard /\ expr.dayOfWeekWildcard
      /\ \A x \in expr.dayOfMonth : ~(x <= n /\ -x <= n)
  BY DEF Roomy
<1>3. d \in 1..n
  OBVIOUS
<1> HIDE DEF n
<1>4. d \notin expr.dayOfMonth /\ 0 \notin expr.dayOfMonth
  BY <1>1, <1>2, <1>3
<1>5. \A t \in 1..n : -t \notin expr.dayOfMonth
  BY <1>1, <1>2
<1>6. ~DayOfMonthFits(y, m, d)
  BY <1>4, <1>5 DEF DayOfMonthFits, n
<1> QED BY <1>2, <1>6 DEF DayFits

\* A month without an allowed day is not good, and has less than 31 days if
\* another month is good.
LEMMA EmptyMonths ==
    ASSUME zone \in Zone, Fixed, Sound(expr), NEW g \in 1..12, Good(g),
           NEW y \in Int, NEW m \in 1..12,
           \A d \in 1..daysInMonth(y, m) : ~isDayValid(y, m, d)
    PROVE  m \in {2, 4, 6, 9, 11} /\ m # g
<1>1. ~Roomy(daysInMonth(y, m))
  BY RoomyMonths
<1>2. Roomy(daysInMonth(1, g)) /\ daysInMonth(1, g) <= 31 /\ daysInMonth(1, g) \in Int
  BY MonthDays DEF Good
<1>3. Roomy(31)
  BY <1>2, RoomGrows
<1>4. m \in {2, 4, 6, 9, 11}
  BY <1>1, <1>3, MonthDays
<1>5. /\ daysInMonth(y, m) \in Int /\ daysInMonth(1, m) \in Int
      /\ daysInMonth(1, m) <= daysInMonth(y, m)
  BY MonthDays
<1>6. ~Roomy(daysInMonth(1, m))
  BY <1>1, <1>5, RoomGrows
<1> QED BY <1>2, <1>4, <1>6

\* Where no month is good and there is another than February, nothing fits.
LEMMA ThreeKinds ==
    ASSUME Sound(expr)
    PROVE  \/ \E g \in 1..12 : Good(g)
           \/ expr.months = {2}
           \/ \A m \in expr.months : \A y \in Int : ~Roomy(daysInMonth(y, m))
<1>1. expr.months # {} /\ expr.months \subseteq 1..12
  BY Values
<1> SUFFICES ASSUME expr.months # {2}, \A g \in expr.months : ~Good(g),
                    NEW m \in expr.months, NEW y \in Int, Roomy(daysInMonth(y, m))
             PROVE  FALSE
  BY <1>1
<1>2. PICK g \in expr.months : g # 2
  BY <1>1
<1>3. m \in 1..12 /\ g \in 1..12
  BY <1>1
<1>4. ~Roomy(daysInMonth(1, g)) /\ ~Roomy(daysInMonth(1, m))
  BY DEF Good
<1>5. daysInMonth(1, g) \in 30..31
  BY <1>2, <1>3, MonthDays
<1>6. daysInMonth(y, m) \in 28..31 /\ (daysInMonth(y, m) = 31 => m # 2)
  BY <1>3 DEF daysInMonth
<1>7. daysInMonth(y, m) > daysInMonth(1, g)
  <2>1. ~(daysInMonth(y, m) <= daysInMonth(1, g))
    BY <1>4, <1>5, <1>6, RoomGrows
  <2> QED BY <1>5, <1>6, <2>1
<1>8. daysInMonth(y, m) = 31 /\ m # 2
  BY <1>5, <1>6, <1>7
<1>9. daysInMonth(y, m) = daysInMonth(1, m)
  BY <1>3, <1>8, MonthDays
<1> QED BY <1>4, <1>9

\* The year of the start.
FirstYear == maxYear - Years

\* The first carry is into the minute or above it, so that the seconds have
\* started again, the second one into the hour, and so on; a new year starts all.
Settled(i, c, a) ==
    /\ c.year >= FirstYear
    /\ i >= 1 \/ c.year > FirstYear => c.second = First.second
    /\ i >= 2 \/ c.year > FirstYear => c.minute = First.minute
    /\ i >= 3 \/ c.year > FirstYear => c.hour = First.hour
    /\ (i >= 4 \/ c.year > FirstYear) /\ a \in {"year", "month", "day"} => c.day = 1

\* With a good month g the search ends in the start's year or the next allowed
\* one, and looks in vain at short months only.
FoundBy(g, i, c, a) ==
    /\ c.year = FirstYear => i <= 4 + Shorter(c.month)
    /\ c.year > FirstYear => /\ c.month <= g
                             /\ i <= 10 + Shorter(c.month)
                             /\ a = "year" /\ ~YearFits(c.year) => i <= 10

\* With February alone a year takes an iteration for each of two carries.
EveryFebruary(i, c) ==
    i <= (4 + (2 * (c.year - FirstYear))) + (IF c.month > 2 THEN 1 ELSE 0)

InStep(i, c, a) == /\ Settled(i, c, a)
                   /\ \A g \in 1..12 : Good(g) => FoundBy(g, i, c, a)
                   /\ expr.months = {2} => EveryFebruary(i, c)

Pace == Searches /\ Fixed => InStep(iteration, cursor, at)

\* What the lemmas below need to know of the search.
Ready == Sound(expr) /\ cursor \in Cursor /\ iteration \in Nat /\ FirstYear \in Int

\* What a unit starts again from is one of its values, the least.
LEMMA FirstIs ==
    ASSUME Sound(expr)
    PROVE  /\ First.day = 1
           /\ First.month \in expr.months /\ \A g \in expr.months : First.month <= g
           /\ First.month \in 1..12
           /\ First.hour \in expr.hours /\ First.minute \in expr.minutes
           /\ expr.enableSeconds => First.second \in expr.seconds
<1>1. \A T : T \subseteq Nat /\ T # {} => Min(T) \in T /\ \A x \in T : Min(T) <= x
  BY LeastValue
<1>2. /\ expr.months \subseteq Nat /\ expr.hours \subseteq Nat /\ expr.minutes \subseteq Nat
      /\ expr.enableSeconds => expr.seconds \subseteq Nat
  BY Values, ClockAssumption
<1> HIDE DEF Min
<1> QED BY <1>1, <1>2, Values DEF First

\* Past a short month there is one more of them behind.
LEMMA ShorterIs ==
    ASSUME NEW m \in 1..12
    PROVE  /\ Shorter(m) \in 0..5
           /\ \A k \in 1..12 : k <= m => Shorter(k) <= Shorter(m)
           /\ m \in {2, 4, 6, 9, 11} => Shorter(m + 1) = Shorter(m) + 1
BY DEF Shorter

\* Looking at a unit, action by action.
LEMMA YearInStep ==
    ASSUME Ready, InStep(iteration, cursor, "year"), NEW v \in Nat, v > cursor.year,
           ~YearFits(cursor.year)
    PROVE  InStep(iteration, Moved("year", v), "month")
<1> DEFINE c == Moved("year", v)
<1>1. c.year = v /\ c.month = First.month /\ c.day = 1 /\ Restarts(c)
  BY MovedUnits, FirstIs DEF Ready
<1>2. cursor.year \in Nat /\ cursor.month \in 1..12 /\ FirstYear \in Int /\ iteration \in Nat
      /\ cursor.year >= FirstYear
  BY CursorFacts DEF Ready, InStep, Settled
<1> HIDE DEF c
<1>3. Settled(iteration, c, "month")
  BY <1>1, <1>2 DEF Settled, Restarts
<1>4. ASSUME NEW g \in 1..12, Good(g) PROVE FoundBy(g, iteration, c, "month")
  <2>1. First.month <= g /\ First.month \in 1..12
    BY <1>4, FirstIs DEF Ready, Good
  <2>2. iteration <= 10
    BY <1>2, <1>4, ShorterIs DEF InStep, FoundBy
  <2>3. Shorter(First.month) \in 0..5
    BY <2>1, ShorterIs
  <2> QED BY <1>1, <1>2, <2>1, <2>2, <2>3 DEF FoundBy
<1>5. ASSUME expr.months = {2} PROVE EveryFebruary(iteration, c)
  <2>1. EveryFebruary(iteration, cursor) /\ First.month = 2
    BY <1>5, FirstIs DEF Ready, InStep
  <2> QED BY <1>1, <1>2, <2>1 DEF EveryFebruary
<1> QED BY <1>3, <1>4, <1>5 DEF InStep, c

LEMMA MonthInStep ==
    ASSUME Ready, InStep(iteration, cursor, "month"), NEW v \in FromNow(expr.months, "month"),
           \A m \in FromNow(expr.months, "month") : v <= m, v # cursor.month
    PROVE  InStep(iteration, Moved("month", v), "day")
<1> DEFINE c == Moved("month", v)
<1>1. c.year = cursor.year /\ c.month = v /\ c.day = 1 /\ Restarts(c)
  BY MovedUnits, FirstIs DEF Ready
<1>2. cursor.year \in Nat /\ cursor.month \in 1..12 /\ FirstYear \in Int /\ iteration \in Nat
      /\ cursor.year >= FirstYear
  BY CursorFacts DEF Ready, InStep, Settled
<1>3. v \in expr.months /\ v \in 1..12 /\ v >= cursor.month
      /\ \A m \in expr.months : m >= cursor.month => v <= m
  BY Values DEF Ready, FromNow
<1> HIDE DEF c
<1>4. Settled(iteration, c, "day")
  BY <1>1, <1>2 DEF Settled, Restarts
<1>5. ASSUME NEW g \in 1..12, Good(g) PROVE FoundBy(g, iteration, c, "day")
  <2>1. FoundBy(g, iteration, cursor, "month") /\ g \in expr.months
    BY <1>5 DEF InStep, Good
  <2>2. /\ Shorter(cursor.month) \in 0..5 /\ Shorter(v) \in 0..5
        /\ Shorter(cursor.month) <= Shorter(v)
    BY <1>2, <1>3, ShorterIs
  <2> QED BY <1>1, <1>2, <1>3, <2>1, <2>2 DEF FoundBy
<1>6. ASSUME expr.months = {2} PROVE EveryFebruary(iteration, c)
  BY <1>1, <1>2, <1>3, <1>6 DEF EveryFebruary, InStep
<1> QED BY <1>4, <1>5, <1>6 DEF InStep, c

\* The day and what is below it leave the year and the month alone.
LEMMA SameMonthInStep ==
    ASSUME Ready, NEW i \in Nat, NEW a, NEW c, NEW b, InStep(i, cursor, a), Settled(i, c, b),
           c.year = cursor.year, c.month = cursor.month, b # "year"
    PROVE  InStep(i, c, b)
<1>1. cursor.year \in Nat /\ cursor.month \in 1..12 /\ FirstYear \in Int
  BY CursorFacts DEF Ready
<1>2. ASSUME NEW g \in 1..12, Good(g) PROVE FoundBy(g, i, c, b)
  BY <1>2 DEF InStep, FoundBy
<1>3. expr.months = {2} => EveryFebruary(i, c)
  BY DEF InStep, EveryFebruary
<1> QED BY <1>2, <1>3 DEF InStep

\* Once it has started again a unit has the value it is sought for.
LEMMA NoNeed ==
    ASSUME Ready, NEW a, InStep(iteration, cursor, a)
    PROVE  /\ iteration >= 3 \/ cursor.year > FirstYear =>
                 cursor.hour \in FromNow(expr.hours, "hour")
           /\ iteration >= 2 \/ cursor.year > FirstYear =>
                 cursor.minute \in FromNow(expr.minutes, "minute")
           /\ expr.enableSeconds /\ (iteration >= 1 \/ cursor.year > FirstYear) =>
                 cursor.second \in FromNow(expr.seconds, "second")
<1>1. cursor["hour"] \in Nat /\ cursor["minute"] \in Nat /\ cursor["second"] \in Nat
  BY UnitsInOrder DEF Ready, Cursor
<1>2. /\ First.hour \in expr.hours /\ First.minute \in expr.minutes
      /\ expr.enableSeconds => First.second \in expr.seconds
  BY FirstIs DEF Ready
<1> QED BY <1>1, <1>2 DEF InStep, Settled, FromNow

LEMMA DayInStep ==
    ASSUME Ready, InStep(iteration, cursor, "day"), NEW v
    PROVE  InStep(iteration, Moved("day", v), "hour")
<1> DEFINE c == Moved("day", v)
<1>1. c.year = cursor.year /\ c.month = cursor.month /\ Restarts(c)
  BY MovedUnits DEF Ready
<1>2. iteration \in Nat /\ "hour" # "year"
  BY DEF Ready
<1> HIDE DEF c
<1>3. Settled(iteration, c, "hour")
  BY <1>1 DEF InStep, Settled, Restarts
<1>4. InStep(iteration, c, "hour")
  BY <1>1, <1>2, <1>3, SameMonthInStep
<1> QED BY <1>4 DEF c

LEMMA HourInStep ==
    ASSUME Ready, InStep(iteration, cursor, "hour"), cursor.hour \notin FromNow(expr.hours, "hour"),
           NEW v
    PROVE  InStep(iteration, Moved("hour", v), "minute")
<1> DEFINE c == Moved("hour", v)
<1>1. /\ c.year = cursor.year /\ c.month = cursor.month
      /\ c.minute = First.minute /\ c.second = First.second
  BY MovedUnits DEF Ready
<1>2. iteration \in Nat /\ ~(iteration >= 3) /\ ~(cursor.year > FirstYear)
  BY NoNeed DEF Ready
<1> HIDE DEF c
<1>3. Settled(iteration, c, "minute")
  BY <1>1, <1>2 DEF InStep, Settled
<1>4. InStep(iteration, c, "minute")
  BY <1>1, <1>2, <1>3, SameMonthInStep
<1> QED BY <1>4 DEF c

LEMMA MinuteInStep ==
    ASSUME Ready, InStep(iteration, cursor, "minute"),
           cursor.minute \notin FromNow(expr.minutes, "minute"), NEW v,
           NEW b \in {"second", "date"}
    PROVE  InStep(iteration, Moved("minute", v), b)
<1> DEFINE c == Moved("minute", v)
<1>1. c.year = cursor.year /\ c.month = cursor.month /\ c.second = First.second
  BY MovedUnits DEF Ready
<1>2. iteration \in Nat /\ ~(iteration >= 2) /\ ~(cursor.year > FirstYear)
  BY NoNeed DEF Ready
<1> HIDE DEF c
<1>3. Settled(iteration, c, b)
  BY <1>1, <1>2 DEF InStep, Settled
<1>4. InStep(iteration, c, b)
  BY <1>1, <1>2, <1>3, SameMonthInStep
<1> QED BY <1>4 DEF c

LEMMA SecondInStep ==
    ASSUME Ready, InStep(iteration, cursor, "second"), expr.enableSeconds,
           cursor.second \notin FromNow(expr.seconds, "second"), NEW v
    PROVE  InStep(iteration, Moved("second", v), "date")
<1> DEFINE c == Moved("second", v)
<1>1. c.year = cursor.year /\ c.month = cursor.month
  BY MovedUnits DEF Ready
<1>2. iteration \in Nat /\ ~(iteration >= 1) /\ ~(cursor.year > FirstYear)
  BY NoNeed DEF Ready
<1> HIDE DEF c
<1>3. Settled(iteration, c, "date")
  BY <1>1, <1>2 DEF InStep, Settled
<1>4. InStep(iteration, c, "date")
  BY <1>1, <1>2, <1>3, SameMonthInStep
<1> QED BY <1>4 DEF c

\* The unit already has the least of the values it is sought for.
LEMMA StaysInStep ==
    ASSUME Ready, NEW a, NEW b, InStep(iteration, cursor, a),
           \/ a = "year" /\ b = "month"
           \/ a = "month" /\ b = "day"
           \/ b \in {"hour", "minute", "second", "date"}
    PROVE  InStep(iteration, cursor, b)
<1>1. Settled(iteration, cursor, b)
  BY DEF InStep, Settled
<1>2. iteration \in Nat /\ b # "year"
  BY DEF Ready
<1> QED BY <1>1, <1>2, SameMonthInStep

\* A carry out of a unit of the time of day happens in the first year, and
\* each of the three at most once.
LEMMA EarlyInStep ==
    ASSUME Ready, iteration \in 0..2, cursor.year = FirstYear, NEW c,
           c.year = cursor.year, c.month = cursor.month, c.second = First.second,
           iteration >= 1 => c.minute = First.minute,
           iteration >= 2 => c.hour = First.hour
    PROVE  InStep(iteration + 1, c, "year")
<1>1. c.month \in 1..12 /\ c.year \in Int
  BY CursorFacts DEF Ready
<1>2. Settled(iteration + 1, c, "year")
  BY <1>1 DEF Settled
<1>3. ASSUME NEW g \in 1..12 PROVE FoundBy(g, iteration + 1, c, "year")
  <2>1. Shorter(c.month) \in 0..5
    BY <1>1, ShorterIs
  <2> QED BY <1>1, <2>1 DEF FoundBy
<1>4. EveryFebruary(iteration + 1, c)
  BY <1>1 DEF EveryFebruary
<1> QED BY <1>2, <1>3, <1>4 DEF InStep

LEMMA SecondCarries ==
    ASSUME Ready, InStep(iteration, cursor, "second"), expr.enableSeconds,
           FromNow(expr.seconds, "second") = {}, NEW v
    PROVE  InStep(iteration + 1, Moved("minute", v), "year")
<1> DEFINE c == Moved("minute", v)
<1>1. c.year = cursor.year /\ c.month = cursor.month /\ c.second = First.second
  BY MovedUnits DEF Ready
<1>2. ~(iteration >= 1) /\ ~(cursor.year > FirstYear)
  BY NoNeed
<1>3. iteration = 0 /\ cursor.year = FirstYear
  BY <1>2, CursorFacts DEF Ready, InStep, Settled
<1> HIDE DEF c
<1>4. InStep(iteration + 1, c, "year")
  BY <1>1, <1>3, EarlyInStep
<1> QED BY <1>4 DEF c

LEMMA MinuteCarries ==
    ASSUME Ready, InStep(iteration, cursor, "minute"), FromNow(expr.minutes, "minute") = {}, NEW v
    PROVE  InStep(iteration + 1, Moved("hour", v), "year")
<1> DEFINE c == Moved("hour", v)
<1>1. /\ c.year = cursor.year /\ c.month = cursor.month
      /\ c.minute = First.minute /\ c.second = First.second
  BY MovedUnits DEF Ready
<1>2. ~(iteration >= 2) /\ ~(cursor.year > FirstYear)
  BY NoNeed
<1>3. iteration \in 0..1 /\ cursor.year = FirstYear
  BY <1>2, CursorFacts DEF Ready, InStep, Settled
<1> HIDE DEF c
<1>4. InStep(iteration + 1, c, "year")
  BY <1>1, <1>3, EarlyInStep
<1> QED BY <1>4 DEF c

LEMMA HourCarries ==
    ASSUME Ready, InStep(iteration, cursor, "hour"), FromNow(expr.hours, "hour") = {}, NEW v
    PROVE  InStep(iteration + 1, Moved("day", v), "year")
<1> DEFINE c == Moved("day", v)
<1>1. c.year = cursor.year /\ c.month = cursor.month /\ Restarts(c)
  BY MovedUnits DEF Ready
<1>2. ~(iteration >= 3) /\ ~(cursor.year > FirstYear)
  BY NoNeed
<1>3. iteration \in 0..2 /\ cursor.year = FirstYear
  BY <1>2, CursorFacts DEF Ready, InStep, Settled
<1> HIDE DEF c
<1>4. InStep(iteration + 1, c, "year")
  BY <1>1, <1>3, EarlyInStep DEF Restarts
<1> QED BY <1>4 DEF c

\* No month is left in the year.
LEMMA MonthCarries ==
    ASSUME Ready, InStep(iteration, cursor, "month"), FromNow(expr.months, "month") = {}
    PROVE  InStep(iteration + 1, Moved("year", cursor.year + 1), "year")
<1> DEFINE c == Moved("year", cursor.year + 1)
<1>1. c.year = cursor.year + 1 /\ c.month = First.month /\ c.day = 1 /\ Restarts(c)
  BY MovedUnits, FirstIs DEF Ready
<1>2. cursor.year \in Nat /\ cursor.month \in 1..12 /\ FirstYear \in Int /\ iteration \in Nat
      /\ cursor.year >= FirstYear
  BY CursorFacts DEF Ready, InStep, Settled
<1>3. \A g \in expr.months : g \in 1..12 /\ g < cursor.month
  BY <1>2, Values DEF Ready, FromNow
<1> HIDE DEF c
<1>4. Settled(iteration + 1, c, "year")
  BY <1>1, <1>2 DEF Settled, Restarts
<1>5. ASSUME NEW g \in 1..12, Good(g) PROVE FoundBy(g, iteration + 1, c, "year")
  <2>1. First.month <= g /\ First.month \in 1..12 /\ g < cursor.month
    BY <1>3, <1>5, FirstIs DEF Ready, Good
  <2>2. Shorter(First.month) \in 0..5 /\ Shorter(cursor.month) \in 0..5
    BY <1>2, <2>1, ShorterIs
  <2>3. FoundBy(g, iteration, cursor, "month")
    BY <1>5 DEF InStep
  <2>4. iteration + 1 <= 10
    BY <1>2, <2>1, <2>2, <2>3 DEF FoundBy
  <2> QED BY <1>1, <1>2, <2>1, <2>2, <2>4 DEF FoundBy
<1>6. ASSUME expr.months = {2} PROVE EveryFebruary(iteration + 1, c)
  <2>1. EveryFebruary(iteration, cursor) /\ First.month = 2 /\ cursor.month > 2
    BY <1>3, <1>6, FirstIs DEF Ready, InStep
  <2> QED BY <1>1, <1>2, <2>1 DEF EveryFebruary
<1> QED BY <1>4, <1>5, <1>6 DEF InStep, c

\* No day is left in the month.
LEMMA DayCarries ==
    ASSUME Ready, zone \in Zone, Fixed, InStep(iteration, cursor, "day"), ValidDays = {},
           YearFits(cursor.year), cursor.month \in expr.months
    PROVE  InStep(iteration + 1, NextMonth, "year")
<1> DEFINE c == NextMonth
<1>1. /\ c.day = 1 /\ Restarts(c)
      /\ cursor.month = 12 => c.year = cursor.year + 1 /\ c.month = 1
      /\ cursor.month # 12 => c.year = cursor.year /\ c.month = cursor.month + 1
  BY NextMonthUnits, FirstIs DEF Ready
<1>2. cursor.year \in Nat /\ cursor.month \in 1..12 /\ FirstYear \in Int /\ iteration \in Nat
      /\ cursor.year >= FirstYear
  BY CursorFacts DEF Ready, InStep, Settled
<1> HIDE DEF c
<1>3. Settled(iteration + 1, c, "year")
  BY <1>1, <1>2 DEF Settled, Restarts
<1>4. ASSUME NEW g \in 1..12, Good(g) PROVE FoundBy(g, iteration + 1, c, "year")
  <2>1. FoundBy(g, iteration, cursor, "day")
    BY <1>4 DEF InStep
  <2>2. ASSUME iteration >= 4 \/ cursor.year > FirstYear
        PROVE  cursor.month \in {2, 4, 6, 9, 11} /\ cursor.month # g
    <3>1. cursor.day = 1
      BY <2>2 DEF InStep, Settled
    <3>2. \A d \in 1..daysInMonth(cursor.year, cursor.month) :
             ~isDayValid(cursor.year, cursor.month, d)
      BY <3>1 DEF ValidDays
    <3> DEFINE y == cursor.year  m == cursor.month
    <3>3. /\ Sound(expr) /\ y \in Int /\ m \in 1..12
          /\ \A d \in 1..daysInMonth(y, m) : ~isDayValid(y, m, d)
      BY <1>2, <3>2 DEF Ready
    <3> HIDE DEF y, m
    <3>4. m \in {2, 4, 6, 9, 11} /\ m # g
      BY <1>4, <3>3, EmptyMonths
    <3> QED BY <3>4 DEF m
  <2>3. Shorter(cursor.month) \in 0..5
    BY <1>2, ShorterIs
  <2>4. cursor.month \in {2, 4, 6, 9, 11} =>
           Shorter(cursor.month + 1) = Shorter(cursor.month) + 1
    BY <1>2, ShorterIs
  <2>5. Shorter(1) = 0 /\ (cursor.month # 12 => Shorter(cursor.month + 1) \in 0..5)
    BY <1>2, ShorterIs DEF Shorter
  <2>6. CASE cursor.month = 12
    <3>1. cursor.year = FirstYear /\ iteration < 4
      BY <1>2, <2>1, <2>2, <2>6
    <3> QED BY <1>1, <1>2, <2>5, <2>6, <3>1 DEF FoundBy
  <2>7. CASE cursor.month # 12 /\ cursor.year = FirstYear
    <3>1. iteration + 1 <= 4 + Shorter(cursor.month + 1)
      BY <1>2, <2>1, <2>2, <2>3, <2>4, <2>5, <2>7 DEF FoundBy
    <3> QED BY <1>1, <1>2, <2>7, <3>1 DEF FoundBy
  <2>8. CASE cursor.month # 12 /\ cursor.year > FirstYear
    <3>1. /\ iteration + 1 <= 10 + Shorter(cursor.month + 1)
          /\ cursor.month + 1 <= g
      BY <1>2, <2>1, <2>2, <2>3, <2>4, <2>8 DEF FoundBy
    <3> QED BY <1>1, <1>2, <2>8, <3>1 DEF FoundBy
  <2> QED BY <1>2, <2>6, <2>7, <2>8
<1>5. ASSUME expr.months = {2} PROVE EveryFebruary(iteration + 1, c)
  BY <1>1, <1>2, <1>5 DEF EveryFebruary, InStep
<1> QED BY <1>3, <1>4, <1>5 DEF InStep, c

\* Pace is about the cursor and the parser only.
LEMMA InStepNext ==
    ASSUME UNCHANGED parser, Searches /\ Fixed => InStep(iteration', cursor', at'), Searches
    PROVE  Pace'
<1>1. expr' = expr /\ maxYear' = maxYear /\ Fixed' = Fixed
  BY DEF parser, Fixed
<1>2. First' = First /\ FirstYear' = FirstYear /\ \A y : YearFits(y)' <=> YearFits(y)
  BY <1>1 DEF First, FirstYear, YearFits
<1>3. \A g : Good(g)' <=> Good(g)
  BY <1>1 DEF Good, Roomy
<1>4. SUFFICES ASSUME InStep(iteration', cursor', at') PROVE InStep(iteration, cursor, at)'
  BY <1>1 DEF Pace
<1>5. Settled(iteration, cursor, at)'
  BY <1>2, <1>4 DEF InStep, Settled
<1>6. ASSUME NEW g \in 1..12, Good(g)' PROVE FoundBy(g, iteration, cursor, at)'
  BY <1>2, <1>3, <1>4, <1>6 DEF InStep, FoundBy
<1>7. expr'.months = {2} => EveryFebruary(iteration, cursor)'
  BY <1>1, <1>2, <1>4 DEF InStep, EveryFebruary
<1> QED BY <1>5, <1>6, <1>7 DEF InStep

LEMMA ReadyNow ==
    ASSUME SearchInv, Searches PROVE Ready /\ zone \in Zone
<1>1. PICK d \in Start : maxYear = d.year + Years
  BY DEF SearchInv, Forward
<1>2. d.year \in Int
  BY <1>1, StartIsCursor, CursorFacts
<1>3. iteration \in Nat
  BY SearchAssumption DEF SearchInv, Counted
<1> QED BY <1>1, <1>2, <1>3, SearchAssumption DEF Ready, SearchInv, Given, FirstYear

\* Each step of the search is in step with its iterations.
LEMMA SoughtInStep ==
    ASSUME SearchInv, Searches, Fixed => InStep(iteration, cursor, at),
           NEW f \in Units, NEW S, NEW b, Seek(f, S, b),
           Fixed => InStep(iteration, cursor, b),
           Fixed /\ cursor[f] \notin S => InStep(iteration, Moved(f, Min(S)), b)
    PROVE  Pace'
<1>1. UNCHANGED parser /\ iteration' = iteration /\ at' = b
      /\ cursor' \in {cursor, Moved(f, Min(S))}
      /\ (cursor[f] \in S => cursor' = cursor)
  BY DEF Seek
<1> HIDE DEF Min
<1>2. Fixed => InStep(iteration', cursor', at')
  BY <1>1
<1> QED BY <1>1, <1>2, InStepNext

LEMMA CarriedInStep ==
    ASSUME SearchInv, Searches, NEW c, Again(c), Fixed => InStep(iteration + 1, c, "year")
    PROVE  Pace'
<1>1. UNCHANGED parser /\ iteration' = iteration + 1 /\ at' = "year" /\ cursor' = c
  BY DEF Again
<1> QED BY <1>1, InStepNext

LEMMA YearPace == ASSUME SearchInv, Pace, Year PROVE Pace'
<1> DEFINE years == IF expr.enableYears THEN FromNow(expr.years, "year") ELSE {cursor.year}
<1>1. at = "year" /\ Searches
  BY DEF Year, Searching, Searches
<1>2. Ready
  BY <1>1, ReadyNow
<1>3. CASE years = {} \/ Min(years) > maxYear
  <2>1. Return(Zero)
    BY <1>3 DEF Year
  <2>2. UNCHANGED <<parser, at, cursor, iteration>>
    BY <2>1 DEF Return
  <2> QED BY <1>1, <2>2, InStepNext DEF Pace
<1>4. CASE ~(years = {} \/ Min(years) > maxYear)
  <2>1. Seek("year", years, "month") /\ years # {}
    BY <1>4 DEF Year
  <2>2. Fixed => InStep(iteration, cursor, "year")
    BY <1>1 DEF Pace
  <2>3. Fixed => InStep(iteration, cursor, "month")
    BY <1>2, <2>2, StaysInStep
  <2>4. ASSUME Fixed, cursor["year"] \notin years
        PROVE  InStep(iteration, Moved("year", Min(years)), "month")
    <3>1. cursor.year \in Nat
      BY <1>2, CursorFacts DEF Ready
    <3>2. ~YearFits(cursor.year) /\ years = FromNow(expr.years, "year") /\ expr.enableYears
      BY <2>4, <3>1 DEF YearFits, FromNow
    <3>3. years \subseteq Nat /\ \A v \in years : v >= cursor.year
      BY <1>2, <3>2, Values DEF Ready, FromNow
    <3>4. Min(years) \in years
      BY <2>1, <3>3, LeastValue
    <3> DEFINE v == Min(years)
    <3>5. v \in Nat /\ v > cursor.year
      <4> HIDE DEF v
      <4>1. v \in years
        BY <3>4 DEF v
      <4>2. v # cursor["year"]
        BY <2>4, <4>1
      <4> QED BY <3>1, <3>3, <4>1, <4>2
    <3> HIDE DEF v
    <3>6. InStep(iteration, Moved("year", v), "month")
      BY <1>2, <2>2, <2>4, <3>2, <3>5, YearInStep
    <3> QED BY <3>6 DEF v
  <2> HIDE DEF years, Min
  <2>5. "year" \in Units
    BY UnitsInOrder
  <2> QED BY <1>1, <2>1, <2>2, <2>3, <2>4, <2>5, SoughtInStep
<1> QED BY <1>3, <1>4

LEMMA MonthPace == ASSUME SearchInv, Pace, Month PROVE Pace'
<1> DEFINE months == FromNow(expr.months, "month")
<1>1. at = "month" /\ Searches
  BY DEF Month, Searching, Searches
<1>2. Ready
  BY <1>1, ReadyNow
<1>3. Fixed => InStep(iteration, cursor, "month")
  BY <1>1 DEF Pace
<1>4. CASE months = {}
  <2>1. Again(Moved("year", cursor.year + 1))
    BY <1>4 DEF Month
  <2>2. Fixed => InStep(iteration + 1, Moved("year", cursor.year + 1), "year")
    BY <1>2, <1>3, <1>4, MonthCarries
  <2> QED BY <1>1, <2>1, <2>2, CarriedInStep
<1>5. CASE months # {}
  <2>1. Seek("month", months, "day")
    BY <1>5 DEF Month
  <2>2. Fixed => InStep(iteration, cursor, "day")
    BY <1>2, <1>3, StaysInStep
  <2>3. months \subseteq Nat
    BY <1>2, Values DEF Ready, FromNow
  <2>4. Min(months) \in months /\ \A m \in months : Min(months) <= m
    BY <1>5, <2>3, LeastValue
  <2> DEFINE v == Min(months)
  <2>5. v \in months /\ \A m \in months : v <= m
    BY <2>4
  <2> HIDE DEF v
  <2>6. ASSUME Fixed, cursor["month"] \notin months
        PROVE  InStep(iteration, Moved("month", v), "day")
    BY <1>2, <1>3, <2>5, <2>6, MonthInStep
  <2>7. "month" \in Units
    BY UnitsInOrder
  <2> HIDE DEF months, Min
  <2> QED BY <1>1, <1>3, <2>1, <2>2, <2>6, <2>7, SoughtInStep DEF v
<1> QED BY <1>4, <1>5

LEMMA DayPace == ASSUME SearchInv, Pace, DayMissing \/ DayFound PROVE Pace'
<1>1. at = "day" /\ Searches
  BY DEF DayMissing, DayFound, Searching, Searches
<1>2. Ready /\ zone \in Zone
  BY <1>1, ReadyNow
<1>3. Fixed => InStep(iteration, cursor, "day")
  BY <1>1 DEF Pace
<1>4. CASE DayMissing
  <2>1. Again(NextMonth) /\ ValidDays = {}
    BY <1>4 DEF DayMissing
  <2>2. YearFits(cursor.year) /\ cursor.month \in expr.months
    BY <1>1 DEF SearchInv, Decided, Passed, Below
  <2>3. Fixed => InStep(iteration + 1, NextMonth, "year")
    BY <1>2, <1>3, <2>1, <2>2, DayCarries
  <2> QED BY <1>1, <2>1, <2>3, CarriedInStep
<1>5. CASE DayFound
  <2>1. Seek("day", ValidDays, "hour")
    BY <1>5 DEF DayFound
  <2>2. Fixed => InStep(iteration, cursor, "hour")
    BY <1>2, <1>3, StaysInStep
  <2>3. Fixed => InStep(iteration, Moved("day", Min(ValidDays)), "hour")
    BY <1>2, <1>3, DayInStep
  <2> QED BY <1>1, <1>3, <2>1, <2>2, <2>3, SoughtInStep, UnitsInOrder
<1> QED BY <1>4, <1>5

LEMMA HourPace == ASSUME SearchInv, Pace, HourStep PROVE Pace'
<1> DEFINE hours == FromNow(expr.hours, "hour")
<1>1. at = "hour" /\ Searches
  BY DEF HourStep, Searching, Searches
<1>2. Ready
  BY <1>1, ReadyNow
<1>3. Fixed => InStep(iteration, cursor, "hour")
  BY <1>1 DEF Pace
<1>4. CASE hours = {}
  <2>1. Again(Moved("day", cursor.day + 1))
    BY <1>4 DEF HourStep
  <2>2. Fixed => InStep(iteration + 1, Moved("day", cursor.day + 1), "year")
    BY <1>2, <1>3, <1>4, HourCarries
  <2> QED BY <1>1, <2>1, <2>2, CarriedInStep
<1>5. CASE hours # {}
  <2>1. Seek("hour", hours, "minute")
    BY <1>5 DEF HourStep
  <2>2. Fixed => InStep(iteration, cursor, "minute")
    BY <1>2, <1>3, StaysInStep
  <2>3. Fixed /\ cursor["hour"] \notin hours =>
           InStep(iteration, Moved("hour", Min(hours)), "minute")
    BY <1>2, <1>3, HourInStep
  <2> HIDE DEF hours
  <2> QED BY <1>1, <1>3, <2>1, <2>2, <2>3, SoughtInStep, UnitsInOrder
<1> QED BY <1>4, <1>5

LEMMA MinutePace == ASSUME SearchInv, Pace, MinuteStep PROVE Pace'
<1> DEFINE minutes == FromNow(expr.minutes, "minute")
           b == IF expr.enableSeconds THEN "second" ELSE "date"
<1>1. at = "minute" /\ Searches
  BY DEF MinuteStep, Searching, Searches
<1>2. Ready
  BY <1>1, ReadyNow
<1>3. Fixed => InStep(iteration, cursor, "minute")
  BY <1>1 DEF Pace
<1>4. CASE minutes = {}
  <2>1. Again(Moved("hour", cursor.hour + 1))
    BY <1>4 DEF MinuteStep
  <2>2. Fixed => InStep(iteration + 1, Moved("hour", cursor.hour + 1), "year")
    BY <1>2, <1>3, <1>4, MinuteCarries
  <2> QED BY <1>1, <2>1, <2>2, CarriedInStep
<1>5. CASE minutes # {}
  <2>1. Seek("minute", minutes, b) /\ b \in {"second", "date"}
    BY <1>5 DEF MinuteStep
  <2> HIDE DEF b
  <2>2. Fixed => InStep(iteration, cursor, b)
    BY <1>2, <1>3, <2>1, StaysInStep
  <2>3. Fixed /\ cursor["minute"] \notin minutes =>
           InStep(iteration, Moved("minute", Min(minutes)), b)
    BY <1>2, <1>3, <2>1, MinuteInStep
  <2> HIDE DEF minutes
  <2> QED BY <1>1, <1>3, <2>1, <2>2, <2>3, SoughtInStep, UnitsInOrder
<1> QED BY <1>4, <1>5

LEMMA SecondPace == ASSUME SearchInv, Pace, SecondStep PROVE Pace'
<1> DEFINE seconds == FromNow(expr.seconds, "second")
<1>1. at = "second" /\ Searches
  BY DEF SecondStep, Searching, Searches
<1>2. Ready /\ expr.enableSeconds
  BY <1>1, ReadyNow DEF SearchInv, Decided
<1>3. Fixed => InStep(iteration, cursor, "second")
  BY <1>1 DEF Pace
<1>4. CASE seconds = {}
  <2>1. Again(Moved("minute", cursor.minute + 1))
    BY <1>4 DEF SecondStep
  <2>2. Fixed => InStep(iteration + 1, Moved("minute", cursor.minute + 1), "year")
    BY <1>2, <1>3, <1>4, SecondCarries
  <2> QED BY <1>1, <2>1, <2>2, CarriedInStep
<1>5. CASE seconds # {}
  <2>1. Seek("second", seconds, "date")
    BY <1>5 DEF SecondStep
  <2>2. Fixed => InStep(iteration, cursor, "date")
    BY <1>2, <1>3, StaysInStep
  <2>3. Fixed /\ cursor["second"] \notin seconds =>
           InStep(iteration, Moved("second", Min(seconds)), "date")
    BY <1>2, <1>3, SecondInStep
  <2> HIDE DEF seconds
  <2> QED BY <1>1, <1>3, <2>1, <2>2, <2>3, SoughtInStep, UnitsInOrder
<1> QED BY <1>4, <1>5

LEMMA DatePace == ASSUME SearchInv, Pace, DateStep PROVE Pace'
<1>1. at = "date" /\ Searches
  BY DEF DateStep, Searching, Searches
<1>2. CASE SameDay(Date(cursor))
  <2>1. Return(Date(cursor))
    BY <1>2 DEF DateStep
  <2>2. UNCHANGED <<parser, at, cursor, iteration>>
    BY <2>1 DEF Return
  <2> QED BY <1>1, <2>2, InStepNext DEF Pace
<1>3. CASE ~SameDay(Date(cursor))
  <2>1. Again(NextMonth)
    BY <1>3 DEF DateStep
  <2>2. ~Fixed
    BY <1>1, <1>3, FoundIsValid, FixedSameDay DEF SearchInv, Given
  <2> QED BY <1>1, <2>1, <2>2, CarriedInStep
<1> QED BY <1>2, <1>3

LEMMA CallPace == ASSUME SearchInv, ParserIsSound, Call PROVE Pace'
<1>1. /\ at' = "year" /\ iteration' = 0 /\ cursor' \in Start /\ maxYear' = cursor'.year + Years
  BY DEF Call, SearchInv, Counted, Searches
<1>2. /\ cursor'.year \in Nat \ {0} /\ cursor'.month \in 1..12 /\ FirstYear' = cursor'.year
  BY <1>1, SearchAssumption DEF FirstYear
<1>3. Settled(iteration, cursor, at)'
  BY <1>1, <1>2 DEF Settled
<1>4. ASSUME NEW g \in 1..12 PROVE FoundBy(g, iteration, cursor, at)'
  <2>1. Shorter(cursor'.month) \in 0..5
    BY <1>2, ShorterIs
  <2>2. Shorter(cursor'.month) = Shorter(cursor.month)'
    BY DEF Shorter
  <2> QED BY <1>1, <1>2, <2>1, <2>2 DEF FoundBy
<1>5. EveryFebruary(iteration, cursor)'
  BY <1>1, <1>2 DEF EveryFebruary
<1> QED BY <1>3, <1>4, <1>5 DEF Pace, InStep

LEMMA PaceInvariant == Spec => [](Parsed /\ SearchInv /\ Pace)
<1>1. Init => Pace
  BY DEF Init, Pace, Searches
<1>2. Parsed /\ SearchInv /\ Pace /\ [Next]_vars => Pace'
  <2> SUFFICES ASSUME Parsed, SearchInv, Pace, [Next]_vars PROVE Pace'
    OBVIOUS
  <2>1. CASE New
    BY <2>1 DEF New, Pace, Searches
  <2>2. CASE Call
    BY <2>2, CallPace DEF Parsed
  <2>3. CASE Exhausted
    <3>1. UNCHANGED <<parser, at, cursor, iteration>> /\ Searches
      BY <2>3 DEF Exhausted, Return, Searching, Searches
    <3> QED BY <3>1, InStepNext DEF Pace
  <2>4. CASE Year \/ Month \/ DayMissing \/ DayFound
    BY <2>4, YearPace, MonthPace, DayPace
  <2>5. CASE HourStep \/ MinuteStep \/ SecondStep \/ DateStep
    BY <2>5, HourPace, MinutePace, SecondPace, DatePace
  <2>6. CASE UNCHANGED vars
    <3>1. UNCHANGED <<parser, at, cursor, iteration>>
      BY <2>6 DEF vars, parser
    <3>2. CASE Searches
      BY <3>1, <3>2, InStepNext DEF Pace
    <3>3. CASE ~Searches
      BY <3>1, <3>3 DEF Pace, Searches
    <3> QED BY <3>2, <3>3
  <2> QED BY <2>1, <2>2, <2>3, <2>4, <2>5, <2>6 DEF Next
<1> QED BY <1>1, <1>2, SearchInvariant, PTL DEF Spec

\* The code has 25 iterations for 5 years.
EnoughIterations == MaxIterations > 15 /\ MaxIterations > 2 * Years + 5

\* When the iterations are used up there is nothing left to find.
LEMMA NothingIsLeft ==
    ASSUME SearchInv, Pace, Fixed, Searches, ~(iteration < MaxIterations), EnoughIterations
    PROVE  \/ cursor.year > maxYear
           \/ \A m \in expr.months : \A y \in Int : ~Roomy(daysInMonth(y, m))
<1>1. Ready /\ InStep(iteration, cursor, at) /\ Years \in Nat /\ maxYear \in Int
  <2>1. PICK d \in Start : maxYear = d.year + Years
    BY DEF SearchInv, Forward
  <2> QED BY <2>1, ReadyNow, StartIsCursor, CursorFacts, SearchAssumption DEF Pace
<1>2. cursor.year \in Nat /\ cursor.month \in 1..12 /\ cursor.year >= FirstYear
      /\ iteration \in Nat /\ MaxIterations \in Nat
  BY <1>1, CursorFacts, SearchAssumption DEF Ready, InStep, Settled
<1>3. ~\E g \in 1..12 : Good(g)
  <2> SUFFICES ASSUME NEW g \in 1..12, Good(g) PROVE FALSE
    OBVIOUS
  <2>1. FoundBy(g, iteration, cursor, at)
    BY <1>1 DEF InStep
  <2>2. Shorter(cursor.month) \in 0..5
    BY <1>2, ShorterIs
  <2>3. FirstYear \in Int /\ iteration > 15
    BY <1>1, <1>2 DEF Ready, EnoughIterations
  <2> QED BY <1>2, <2>1, <2>2, <2>3 DEF FoundBy
<1>4. ASSUME expr.months = {2} PROVE cursor.year > maxYear
  <2>1. EveryFebruary(iteration, cursor)
    BY <1>1, <1>4 DEF InStep
  <2> QED BY <1>1, <1>2, <2>1 DEF EveryFebruary, FirstYear, EnoughIterations
<1> QED BY <1>1, <1>3, <1>4, ThreeKinds DEF Ready

-----------------------------------------------------------------------------
\* What Next returns in a location without a transition whose offset is of
\* whole minutes is what its comment promises (cron_parser.go:370): it fits, it is later than
\* t and nothing that fits lies between; and the zero time says that nothing fits
\* in the years that are searched, also when the bound on the iterations has
\* ended the search (:389).  The 25 iterations of the code are enough for its 5
\* years, and would be for 9.
THEOREM EarliestIsFound ==
    ASSUME EnoughIterations
    PROVE  Spec => [](WholeMinutes => NextIsEarliest)
<1>1. SearchInv /\ Pace => (WholeMinutes => NextIsEarliest)
  <2> SUFFICES ASSUME SearchInv, Pace, WholeMinutes, result # None, Fixed
               PROVE  IF result = Zero
                      THEN NothingFits(Local(from) + 1, EndOfSearch)
                      ELSE /\ result > from
                           /\ Fits(Local(result))
                           /\ NothingFits(Local(from) + 1, Local(result))
    BY DEF NextIsEarliest
  <2>1. Searches
    BY DEF SearchInv, Returned, Searches
  <2>2. zone \in Zone /\ from \in Int /\ Sound(expr) /\ cursor \in Cursor
    BY <2>1 DEF SearchInv, Given
  <2>3. PICK b \in Start : /\ Target = LocalSecond(b) /\ maxYear = b.year + Years
                           /\ AtLeast(cursor, b)
                           /\ \A p \in Cursor : Suits(p) /\ AtLeast(p, b) => AtLeast(p, cursor)
    BY <2>1 DEF SearchInv, Forward
  <2>4. Valid(b) /\ maxYear \in Int
    BY <2>3, StartIsValid, StartIsCursor, CursorFacts, SearchAssumption
  <2> DEFINE a == Local(from) + 1
  <2>5. a \in Int /\ Local(from) = from + zone.before /\ zone.before \in (1 - Day)..(Day - 1)
    BY <2>2, FixedInstants, SearchAssumption
  <2>6. ASSUME NEW y \in (a \div (366 * Day))..maxYear, YearFits(y), NEW m \in expr.months,
               NEW d \in 1..daysInMonth(y, m), DayFits(y, m, d), NEW s \in TimesOfDay,
               a <= (DayNumber(y, m, d) * Day) + s
        PROVE  \E p \in Cursor : /\ Valid(p) /\ AtLeast(p, cursor) /\ p.year = y
                                 /\ LocalSecond(p) = (DayNumber(y, m, d) * Day) + s
    <3>1. y \in Int
      BY <2>4, <2>5, DayIs
    <3>2. (DayNumber(y, m, d) * Day) + s >= Local(from) + 1
      BY <2>6
    <3> HIDE DEF a
    <3> QED BY <2>1, <2>3, <2>6, <3>1, <3>2, NothingPassed
  <2>7. CASE at = "year" /\ result = Zero
    <3>1. \/ \A y \in Int : y >= cursor.year /\ YearFits(y) => y > maxYear
          \/ \A m \in expr.months : \A y \in Int : ~Roomy(daysInMonth(y, m))
      <4>1. CASE iteration < MaxIterations
        BY <2>7, <4>1 DEF SearchInv, Returned
      <4>2. CASE ~(iteration < MaxIterations)
        <5>1. cursor.year > maxYear => \A y \in Int : y >= cursor.year => y > maxYear
          BY <2>2, <2>4, CursorFacts
        <5> QED BY <2>1, <4>2, <5>1, NothingIsLeft
      <4> QED BY <4>1, <4>2
    <3>2. ASSUME NEW y \in (a \div (366 * Day))..maxYear, YearFits(y), NEW m \in expr.months,
                 NEW d \in 1..daysInMonth(y, m), DayFits(y, m, d), NEW s \in TimesOfDay,
                 a <= (DayNumber(y, m, d) * Day) + s
          PROVE  FALSE
      <4>1. PICK p \in Cursor : AtLeast(p, cursor) /\ p.year = y
        BY <2>6, <3>2
      <4>2. p["year"] >= cursor["year"]
        BY <2>2, <4>1, AtLeastIn, UnitsInOrder DEF Below
      <4>3. y \in Int /\ y <= maxYear
        BY <2>4, <2>5, DayIs
      <4>4. Roomy(daysInMonth(y, m))
        <5>1. m \in 1..12
          BY <2>2, Values
        <5> HIDE DEF a
        <5> QED BY <3>2, <4>3, <5>1, BareMonths
      <4> HIDE DEF a
      <4> QED BY <2>4, <3>1, <3>2, <4>1, <4>2, <4>3, <4>4
    <3> HIDE DEF a
    <3>3. NothingFits(a, EndOfSearch)
      BY <3>2 DEF NothingFits
    <3> QED BY <2>7, <3>3 DEF a
  <2>8. CASE at = "date" /\ result = Date(cursor)
    <3> DEFINE x == LocalSecond(cursor)
    <3>1. Valid(cursor) /\ x \in Int
      BY <2>8, FoundIsValid, ClockIs
    <3>2. result = x - zone.before /\ Local(result) = x
      <4>1. Instant(x) = x - zone.before /\ x - zone.before \in Int
        BY <2>2, <2>5, <3>1, FixedInstants
      <4>2. Local(x - zone.before) = (x - zone.before) + zone.before
        BY <2>2, <4>1, FixedInstants
      <4> HIDE DEF x
      <4>3. Local(x - zone.before) = x
        BY <2>5, <3>1, <4>2
      <4>4. result = Instant(x)
        BY <2>8 DEF Date, x
      <4> QED BY <4>1, <4>3, <4>4
    <3>3. x >= Day
      <4> DEFINE n == DayNumber(cursor.year, cursor.month, cursor.day)
      <4>1. n \in Int /\ Clock(cursor) \in 0..(Day - 1) /\ x = (n * Day) + Clock(cursor)
        BY <3>1, ClockIs DEF LocalSecond
      <4>2. n >= 1
        <5> DEFINE y == cursor.year  m == cursor.month  d == cursor.day
        <5>1. y \in Nat \ {0} /\ m \in 1..12 /\ d \in 1..31
          BY <3>1, CursorFacts, MonthLength DEF Valid
        <5> HIDE DEF y, m, d
        <5>2. DayNumber(y, m, d) >= 1
          BY <5>1, DayIsPositive
        <5> QED BY <5>2 DEF y, m, d
      <4> HIDE DEF n, x
      <4>3. n * Day >= Day
        BY <4>1, <4>2, DayIs
      <4> QED BY <4>1, <4>3, DayIs
    <3>4. result # Zero
      BY <2>5, <3>1, <3>2, <3>3, DayIs DEF Zero
    <3>5. result > from
      <4>1. After(from) \in Int /\ After(from) > from
        BY <2>2, LaterThanNow
      <4>2. Target = After(from) + zone.before
        BY <2>2, <4>1, FixedInstants DEF Target
      <4>3. cursor = b \/ LocalSecond(b) < LocalSecond(cursor)
        BY <2>3, <2>4, <3>1, SecondsInOrder
      <4>4. x >= Target
        <5>1. Target \in Int
          BY <2>5, <4>1, <4>2
        <5>2. Target = LocalSecond(b)
          BY <2>3
        <5> HIDE DEF x
        <5>3. x = LocalSecond(b) \/ LocalSecond(b) < x
          BY <4>3 DEF x
        <5> QED BY <3>1, <5>1, <5>2, <5>3
      <4> HIDE DEF x
      <4> QED BY <2>2, <2>5, <3>1, <3>2, <4>1, <4>2, <4>4
    <3>6. Fits(Local(result))
      BY <2>8, <3>2, FoundFits
    <3>7. ASSUME NEW y \in (a \div (366 * Day))..maxYear, YearFits(y), NEW m \in expr.months,
                 NEW d \in 1..daysInMonth(y, m), DayFits(y, m, d), NEW s \in TimesOfDay,
                 a <= (DayNumber(y, m, d) * Day) + s, (DayNumber(y, m, d) * Day) + s < x
          PROVE  FALSE
      <4>1. PICK p \in Cursor : /\ Valid(p) /\ AtLeast(p, cursor)
                                /\ LocalSecond(p) = (DayNumber(y, m, d) * Day) + s
        BY <2>6, <3>7
      <4>2. p = cursor \/ LocalSecond(cursor) < LocalSecond(p)
        BY <3>1, <4>1, SecondsInOrder
      <4>3. LocalSecond(p) \in Int
        BY <4>1, ClockIs
      <4> QED BY <3>1, <3>7, <4>1, <4>2, <4>3
    <3> HIDE DEF a, x
    <3>8. NothingFits(a, x)
      BY <3>7 DEF NothingFits
    <3> QED BY <3>2, <3>4, <3>5, <3>6, <3>8 DEF a
  <2> QED BY <2>7, <2>8 DEF SearchInv, Returned
<1> QED BY <1>1, PaceInvariant, PTL
=============================================================================
