--------------------------- MODULE CronField_proofs ---------------------------
(***************************************************************************)
(* What parseField and newCronParser make of a text: for every text, every *)
(* choice of options and every length of a day.                            *)
(***************************************************************************)
EXTENDS CronField, SequenceTheorems, WellFoundedInduction, TLAPS

\* The values that a field can have, the letters L and W included.
Extended(f) == CASE f = "dayOfMonth" -> -31..31
                 [] f = "dayOfWeek" -> -6..6
                 [] OTHER -> Allowed(f)

LEMMA FieldNames == Field = {"seconds", "minutes", "hours", "dayOfMonth",
                             "months", "dayOfWeek", "years"}
BY DEF Field, Least

LEMMA LimitsAreNumbers == ASSUME NEW f \in Field
                          PROVE  Least[f] \in Nat /\ Greatest[f] \in Int
BY FieldNames, ClockAssumption DEF Least, Greatest

LEMMA AllowedIsExtended == ASSUME NEW f \in Field PROVE Allowed(f) \subseteq Extended(f)
BY FieldNames, ClockAssumption DEF Extended, Allowed, Least, Greatest

-----------------------------------------------------------------------------
\* A range lies within its field.
LEMMA BetweenAllowed == ASSUME NEW s, NEW f \in Field PROVE Between(s, f) \subseteq Allowed(f)
<1> DEFINE a == Before(s, Dash)[1]  b == Behind(s, Dash)[1]
<1>1. CASE Splits(s, Dash) /\ InRange(Before(s, Dash), f) /\ InRange(Behind(s, Dash), f)
  <2>1. a \in Allowed(f) /\ b \in Allowed(f)
    BY <1>1 DEF InRange
  <2>2. Between(s, f) = a..b
    BY <1>1 DEF Between
  <2> HIDE DEF a, b
  <2> QED BY <2>1, <2>2, LimitsAreNumbers DEF Allowed
<1>2. CASE ~(Splits(s, Dash) /\ InRange(Before(s, Dash), f) /\ InRange(Behind(s, Dash), f))
  BY <1>2 DEF Between
<1> QED BY <1>1, <1>2

\* So does all that a step goes through.
LEMMA BaseAllowed == ASSUME NEW s, NEW f \in Field PROVE Base(s, f) \subseteq Allowed(f)
<1>1. Between(s, f) \subseteq Allowed(f)
  BY BetweenAllowed
<1>2. InRange(s, f) => s[1]..Greatest[f] \subseteq Allowed(f)
  <2> SUFFICES ASSUME s[1] \in Allowed(f) PROVE s[1]..Greatest[f] \subseteq Allowed(f)
    BY DEF InRange
  <2> QED BY LimitsAreNumbers DEF Allowed
<1> QED BY <1>1, <1>2 DEF Base

LEMMA StepAllowed == ASSUME NEW s, NEW f \in Field PROVE Step(s, f) \subseteq Allowed(f)
BY BaseAllowed DEF Step, EveryNth

\* A letter stands for zero or for a number of its field, negated.
LEMMA LetterExtended == ASSUME NEW s, NEW f \in Field PROVE Letter(s, f) \subseteq Extended(f)
<1>1. ASSUME NEW x, Marked(s, x, f) PROVE s[1] \in Allowed(f)
  BY <1>1 DEF Marked, InRange
<1>2. CASE f = "dayOfMonth"
  <2>1. \A n \in Allowed(f) : -n \in Extended(f)
    BY <1>2 DEF Allowed, Extended, Least, Greatest
  <2>2. 0 \in Extended(f)
    BY <1>2 DEF Extended
  <2> QED BY <1>1, <1>2, <2>1, <2>2 DEF Letter
<1>3. CASE f = "dayOfWeek"
  <2>1. \A n \in Allowed(f) : -n \in Extended(f)
    BY <1>3 DEF Allowed, Extended, Least, Greatest
  <2> QED BY <1>1, <1>3, <2>1 DEF Letter
<1>4. CASE f \notin {"dayOfMonth", "dayOfWeek"}
  BY <1>4 DEF Letter
<1> QED BY <1>2, <1>3, <1>4

LEMMA PartExtended == ASSUME NEW s, NEW f \in Field PROVE Part(s, f) \subseteq Extended(f)
BY AllowedIsExtended, StepAllowed, BetweenAllowed, LetterExtended DEF Part

\* A field has values of its own only (parseField, cron_parser.go:185).
LEMMA FieldExtended == ASSUME NEW s, NEW f \in Field PROVE parseField(s, f) \subseteq Extended(f)
BY PartExtended DEF parseField

-----------------------------------------------------------------------------
(***************************************************************************)
(* Sequences that are written out.                                         *)
(***************************************************************************)
LEMMA Five ==
    ASSUME NEW X, NEW a \in X, NEW b \in X, NEW c \in X, NEW d \in X, NEW e \in X
    PROVE  <<a, b, c, d, e>> \in Seq(X) /\ Len(<<a, b, c, d, e>>) = 5
  OBVIOUS

LEMMA Three ==
    ASSUME NEW X, NEW a \in X, NEW b \in X, NEW c \in X
    PROVE  <<a, b, c>> \in Seq(X) /\ Len(<<a, b, c>>) = 3
  OBVIOUS

LEMMA Two ==
    ASSUME NEW X, NEW a \in X, NEW b \in X
    PROVE  <<a, b>> \in Seq(X) /\ Len(<<a, b>>) = 2
  OBVIOUS

LEMMA One == ASSUME NEW X, NEW a \in X PROVE <<a>> \in Seq(X) /\ Len(<<a>>) = 1
  OBVIOUS

LEMMA FunctionIsSequence ==
    ASSUME NEW X, NEW n \in Nat, NEW f \in [1..n -> X]
    PROVE  f \in Seq(X) /\ Len(f) = n
  OBVIOUS

-----------------------------------------------------------------------------
\* The fields that are asked for, written out.
LEMMA RulesAre ==
    ASSUME NEW opts
    PROVE  /\ \A k \in DOMAIN Rules(opts) : Rules(opts)[k] \in Field
           /\ \A f \in {"minutes", "hours", "dayOfMonth", "months", "dayOfWeek"} :
                 \E k \in DOMAIN Rules(opts) : Rules(opts)[k] = f
           /\ opts.enableSeconds => \E k \in DOMAIN Rules(opts) : Rules(opts)[k] = "seconds"
           /\ opts.enableYears => \E k \in DOMAIN Rules(opts) : Rules(opts)[k] = "years"
<1> DEFINE a == IF opts.enableSeconds THEN <<"seconds">> ELSE <<>>
           b == <<"minutes", "hours", "dayOfMonth", "months", "dayOfWeek">>
           c == IF opts.enableYears THEN <<"years">> ELSE <<>>
<1>1. a \in Seq(Field) /\ b \in Seq(Field) /\ c \in Seq(Field)
  <2>1. "seconds" \in Field /\ "years" \in Field
    BY FieldNames
  <2>2. <<"seconds">> \in Seq(Field) /\ <<"years">> \in Seq(Field) /\ <<>> \in Seq(Field)
    BY <2>1
  <2>3. a \in Seq(Field) /\ c \in Seq(Field)
    BY <2>2
  <2>4. /\ "minutes" \in Field /\ "hours" \in Field /\ "dayOfMonth" \in Field
        /\ "months" \in Field /\ "dayOfWeek" \in Field
    BY FieldNames
  <2>5. b \in Seq(Field)
    BY <2>4
  <2> QED BY <2>3, <2>5
<1>2. Rules(opts) = a \o b \o c
  BY DEF Rules
<1>3. /\ opts.enableSeconds => Len(a) = 1 /\ a[1] = "seconds"
      /\ Len(b) = 5 /\ b[1] = "minutes" /\ b[2] = "hours" /\ b[3] = "dayOfMonth"
      /\ b[4] = "months" /\ b[5] = "dayOfWeek"
      /\ opts.enableYears => Len(c) = 1 /\ c[1] = "years"
  OBVIOUS
<1> HIDE DEF a, b, c
<1>4. a \o b \o c \in Seq(Field)
  BY <1>1
<1>5. \A k \in 1..Len(a) : k \in DOMAIN (a \o b \o c) /\ (a \o b \o c)[k] = a[k]
  BY <1>1
<1>6. \A k \in 1..Len(b) : /\ Len(a) + k \in DOMAIN (a \o b \o c)
                           /\ (a \o b \o c)[Len(a) + k] = b[k]
  BY <1>1
<1>7. \A k \in 1..Len(c) : /\ Len(a) + Len(b) + k \in DOMAIN (a \o b \o c)
                           /\ (a \o b \o c)[Len(a) + Len(b) + k] = c[k]
  BY <1>1
<1> DEFINE r == a \o b \o c
<1>8. \A k \in DOMAIN r : r[k] \in Field
  BY <1>4
<1>9. \A i \in 1..5 : \E k \in DOMAIN r : r[k] = b[i]
  BY <1>3, <1>6
<1>10. ASSUME opts.enableSeconds PROVE \E k \in DOMAIN r : r[k] = "seconds"
  <2>1. Len(a) = 1 /\ a[1] = "seconds"
    BY <1>3, <1>10
  <2>2. 1 \in DOMAIN r /\ r[1] = a[1]
    BY <1>5, <2>1
  <2> QED BY <2>1, <2>2
<1>11. ASSUME opts.enableYears PROVE \E k \in DOMAIN r : r[k] = "years"
  <2>1. Len(c) = 1 /\ c[1] = "years"
    BY <1>3, <1>11
  <2>2. Len(a) + Len(b) + 1 \in DOMAIN r /\ r[Len(a) + Len(b) + 1] = c[1]
    BY <1>7, <2>1
  <2> QED BY <2>1, <2>2
<1> HIDE DEF r
<1>12. \A f \in {"minutes", "hours", "dayOfMonth", "months", "dayOfWeek"} :
          \E k \in DOMAIN r : r[k] = f
  BY <1>3, <1>9
<1>13. Rules(opts) = r
  BY <1>2 DEF r
<1> QED BY <1>8, <1>10, <1>11, <1>12, <1>13

\* How many fields the options ask for.
LEMMA RulesLength ==
    ASSUME NEW o, o.enableSeconds \in BOOLEAN, o.enableYears \in BOOLEAN
    PROVE  Len(Rules(o)) = 5 + (IF o.enableSeconds THEN 1 ELSE 0)
                             + (IF o.enableYears THEN 1 ELSE 0)
  <1> DEFINE X == {"seconds", "minutes", "hours", "dayOfMonth", "months", "dayOfWeek", "years"}
             five == <<"minutes", "hours", "dayOfMonth", "months", "dayOfWeek">>
             sec == IF o.enableSeconds THEN <<"seconds">> ELSE <<>>
             year == IF o.enableYears THEN <<"years">> ELSE <<>>
             s == IF o.enableSeconds THEN 1 ELSE 0
             y == IF o.enableYears THEN 1 ELSE 0
  <1>0. /\ "minutes" \in X /\ "hours" \in X /\ "dayOfMonth" \in X /\ "months" \in X
        /\ "dayOfWeek" \in X /\ "seconds" \in X /\ "years" \in X
    OBVIOUS
  <1> HIDE DEF X
  <1>1. five \in Seq(X) /\ Len(five) = 5
    BY <1>0, Five, Zenon
  <1>2. <<>> \in Seq(X) /\ Len(<<>>) = 0
    BY EmptySeq
  <1>3. sec \in Seq(X) /\ Len(sec) = s
    <2>1. <<"seconds">> \in Seq(X) /\ Len(<<"seconds">>) = 1
      BY <1>0, One, Zenon
    <2>2. CASE o.enableSeconds
      BY <2>1, <2>2, Zenon
    <2>3. CASE ~o.enableSeconds
      BY <1>2, <2>3
    <2> QED
      BY <2>2, <2>3
  <1>4. year \in Seq(X) /\ Len(year) = y
    <2>1. <<"years">> \in Seq(X) /\ Len(<<"years">>) = 1
      BY <1>0, One, Zenon
    <2>2. CASE o.enableYears
      BY <2>1, <2>2, Zenon
    <2>3. CASE ~o.enableYears
      BY <1>2, <2>3
    <2> QED
      BY <2>2, <2>3
  <1>5. Rules(o) = (sec \o five) \o year
    BY DEF Rules
  <1>6. s \in {0, 1} /\ y \in {0, 1}
    OBVIOUS
  <1> HIDE DEF five, sec, year, s, y
  <1>7. sec \o five \in Seq(X) /\ Len(sec \o five) = Len(sec) + Len(five)
    BY <1>1, <1>3, ConcatProperties
  <1>8. Len((sec \o five) \o year) = Len(sec \o five) + Len(year)
    BY <1>4, <1>7, ConcatProperties
  <1>9. Len(Rules(o)) = 5 + s + y
    BY <1>1, <1>3, <1>4, <1>5, <1>6, <1>7, <1>8
  <1> QED
    BY <1>9 DEF s, y

LEMMA AcceptedLength ==
    ASSUME NEW fields, NEW o,
           newCronParser([macro |-> "", fields |-> fields], o) # Refused
    PROVE  Len(fields) = Len(Rules(o))
  <1>1. Expand([macro |-> "", fields |-> fields]) = fields
    BY DEF Expand
  <1> QED
    BY <1>1 DEF newCronParser

\* The parser depends on no other option.
LEMMA OptionsOfParser ==
    ASSUME NEW text, NEW o, NEW p,
           o.enableSeconds = p.enableSeconds, o.enableYears = p.enableYears
    PROVE  newCronParser(text, o) = newCronParser(text, p)
  <1>1. Rules(o) = Rules(p)
    BY DEF Rules
  <1> QED
    BY <1>1 DEF newCronParser

\* newCronParser (cron_parser.go:105) refuses a text or returns a parser whose
\* enabled fields have values, all of them values that Next can move to.
THEOREM ParsersAreSound ==
    ASSUME NEW text, NEW opts, newCronParser(text, opts) # Refused
    PROVE  Sound(newCronParser(text, opts))
<1> DEFINE parts == Expand(text)
           rules == Rules(opts)
           place(f) == {k \in DOMAIN rules : rules[k] = f}
           values(f) == UNION {parseField(parts[k], f) : k \in place(f)}
           p == newCronParser(text, opts)
<1>1. \A k \in DOMAIN rules : parseField(parts[k], rules[k]) # {}
  BY DEF newCronParser
<1>2. /\ p.seconds = values("seconds") /\ p.minutes = values("minutes")
      /\ p.hours = values("hours") /\ p.dayOfMonth = values("dayOfMonth")
      /\ p.months = values("months") /\ p.dayOfWeek = values("dayOfWeek")
      /\ p.years = values("years")
      /\ p.enableSeconds = opts.enableSeconds /\ p.enableYears = opts.enableYears
  BY DEF newCronParser
<1>3. ASSUME NEW f \in Field PROVE values(f) \subseteq Extended(f)
  BY FieldExtended
<1>4. ASSUME NEW f, \E k \in DOMAIN rules : rules[k] = f PROVE values(f) # {}
  BY <1>1, <1>4
<1> HIDE DEF p, values, rules
<1>5. ASSUME NEW f \in {"minutes", "hours", "dayOfMonth", "months", "dayOfWeek"}
      PROVE  values(f) # {}
  BY <1>4, RulesAre DEF rules
<1>6. ASSUME opts.enableSeconds PROVE values("seconds") # {}
  <2>1. opts.enableSeconds => \E k \in DOMAIN Rules(opts) : Rules(opts)[k] = "seconds"
    BY RulesAre, Zenon
  <2>2. \E k \in DOMAIN rules : rules[k] = "seconds"
    BY <1>6, <2>1, Zenon DEF rules
  <2> QED BY <1>4, <2>2
<1>7. ASSUME opts.enableYears PROVE values("years") # {}
  <2>1. opts.enableYears => \E k \in DOMAIN Rules(opts) : Rules(opts)[k] = "years"
    BY RulesAre, Zenon
  <2>2. \E k \in DOMAIN rules : rules[k] = "years"
    BY <1>7, <2>1, Zenon DEF rules
  <2> QED BY <1>4, <2>2
<1>8. \A f \in {"seconds", "minutes", "hours", "months", "years"} : Extended(f) = Allowed(f)
  BY DEF Extended
<1>9. Extended("dayOfMonth") = -31..31 /\ Extended("dayOfWeek") = -6..6
  BY DEF Extended
<1>10. Sound(p)
  BY <1>2, <1>3, <1>5, <1>6, <1>7, <1>8, <1>9, FieldNames DEF Sound
<1> QED BY <1>10 DEF p

-----------------------------------------------------------------------------
(***************************************************************************)
(* Texts and their pieces.                                                 *)
(***************************************************************************)
Texts == Seq(Token)

LEMMA Piece ==
    ASSUME NEW s \in Texts, NEW a \in Int, NEW b \in Int, 1 <= a, b <= Len(s)
    PROVE  /\ SubSeq(s, a, b) \in Texts
           /\ Len(SubSeq(s, a, b)) = IF a <= b THEN b - a + 1 ELSE 0
           /\ \A i \in 1..(b - a + 1) : SubSeq(s, a, b)[i] = s[a + i - 1]
<1>1. \A i \in a..b : s[i] \in Token
  BY DEF Texts
<1> QED BY <1>1, SubSeqProperties DEF Texts

LEMMA PieceOfPiece ==
    ASSUME NEW s \in Texts, NEW a \in Int, NEW b \in Int, 1 <= a, b <= Len(s),
           NEW c \in Int, NEW d \in Int, 1 <= c, d <= Len(SubSeq(s, a, b))
    PROVE  SubSeq(SubSeq(s, a, b), c, d) = SubSeq(s, a + c - 1, a + d - 1)
<1> DEFINE t == SubSeq(s, a, b)
           u == SubSeq(t, c, d)
           v == SubSeq(s, a + c - 1, a + d - 1)
<1>1. /\ t \in Texts /\ Len(t) = IF a <= b THEN b - a + 1 ELSE 0
      /\ \A i \in 1..(b - a + 1) : t[i] = s[a + i - 1]
  BY Piece
<1>2. CASE c > d
  <2>1. u = <<>>
    BY <1>2, SubSeqEmpty
  <2>2. a + d - 1 < a + c - 1
    BY <1>2
  <2>3. v = <<>>
    BY <2>2, SubSeqEmpty
  <2> QED BY <2>1, <2>3
<1>3. CASE c <= d
  <2>1. 1 <= d /\ d <= Len(t)
    BY <1>3
  <2>2. a <= b /\ d <= b - a + 1
    BY <1>1, <2>1
  <2>3. u \in Texts /\ Len(u) = d - c + 1 /\ \A i \in 1..(d - c + 1) : u[i] = t[c + i - 1]
    <3> HIDE DEF t
    <3> QED BY <1>1, <1>3, Piece
  <2>4. /\ v \in Texts /\ Len(v) = d - c + 1
        /\ \A i \in 1..(d - c + 1) : v[i] = s[a + c - 1 + i - 1]
    <3> DEFINE e == a + c - 1  g == a + d - 1
    <3>1. e \in Int /\ g \in Int /\ 1 <= e /\ g <= Len(s) /\ e <= g /\ g - e + 1 = d - c + 1
      BY <1>3, <2>2
    <3> HIDE DEF e, g
    <3>2. /\ SubSeq(s, e, g) \in Texts /\ Len(SubSeq(s, e, g)) = g - e + 1
          /\ \A i \in 1..(g - e + 1) : SubSeq(s, e, g)[i] = s[e + i - 1]
      BY <3>1, Piece
    <3> QED BY <3>1, <3>2 DEF e, g
  <2> HIDE DEF u, v, t
  <2>5. \A i \in 1..(d - c + 1) : u[i] = v[i]
    <3> SUFFICES ASSUME NEW i \in 1..(d - c + 1) PROVE u[i] = v[i]
      OBVIOUS
    <3>1. u[i] = t[c + i - 1] /\ v[i] = s[a + c - 1 + i - 1]
      BY <2>3, <2>4
    <3>2. c + i - 1 \in 1..(b - a + 1)
      BY <2>2
    <3>3. t[c + i - 1] = s[a + (c + i - 1) - 1]
      BY <1>1, <3>2
    <3>4. a + (c + i - 1) - 1 = a + c - 1 + i - 1
      OBVIOUS
    <3> QED BY <3>1, <3>3, <3>4
  <2>6. u = v
    BY <2>3, <2>4, <2>5, SeqEqual DEF Texts
  <2> QED BY <2>6 DEF u, v, t
<1> QED BY <1>2, <1>3

\* A set of numbers has a least one.
LEMMA Smallest == ASSUME NEW T, T \subseteq Nat, T # {} PROVE \E x \in T : \A y \in T : x <= y
  <1> DEFINE R == OpToRel(<, Nat)
  <1>1. IsWellFoundedOn(R, Nat)
    BY NatLessThanWellFounded
  <1>2. \A x, y \in Nat : x < y => <<x, y>> \in R
    BY DEF OpToRel
  <1> HIDE DEF R
  <1>3. PICK x \in T : \A y \in T : ~ (<<y, x>> \in R)
    BY <1>1, WFMin
  <1>4. \A y \in T : ~(y < x)
    BY <1>2, <1>3, Zenon
  <1> QED
    BY <1>4

-----------------------------------------------------------------------------
(***************************************************************************)
(* Lists (parseField, cron_parser.go:189).                                 *)
(***************************************************************************)
Cuts(s) == Places(s, Comma) \cup {0, Len(s) + 1}

\* Two cuts with none between them.
Adjacent(s, x, y) == /\ x \in Cuts(s) /\ y \in Cuts(s) /\ x < y
                     /\ \A c \in Cuts(s) : c <= x \/ y <= c

LEMMA CutsAre == ASSUME NEW s \in Texts PROVE Cuts(s) \subseteq 0..(Len(s) + 1)
BY DEF Cuts, Places, Texts

LEMMA PartsAre ==
    ASSUME NEW s, NEW p
    PROVE  p \in Parts(s) <=> \E x, y \in Cuts(s) : Adjacent(s, x, y)
                                                   /\ p = SubSeq(s, x + 1, y - 1)
<1> DEFINE Good(q) == q[1] < q[2] /\ \A c \in Cuts(s) : c <= q[1] \/ q[2] <= c
<1>1. Parts(s) = {SubSeq(s, q[1] + 1, q[2] - 1) : q \in {r \in Cuts(s) \X Cuts(s) : Good(r)}}
  BY DEF Parts, Cuts
<1>2. ASSUME p \in Parts(s)
      PROVE  \E x, y \in Cuts(s) : Adjacent(s, x, y) /\ p = SubSeq(s, x + 1, y - 1)
  <2>1. PICK q \in Cuts(s) \X Cuts(s) : Good(q) /\ p = SubSeq(s, q[1] + 1, q[2] - 1)
    BY <1>1, <1>2
  <2>2. q[1] \in Cuts(s) /\ q[2] \in Cuts(s)
    BY <2>1
  <2>3. Adjacent(s, q[1], q[2])
    BY <2>1, <2>2 DEF Adjacent
  <2> QED BY <2>1, <2>2, <2>3
<1>3. ASSUME NEW x \in Cuts(s), NEW y \in Cuts(s), Adjacent(s, x, y),
             p = SubSeq(s, x + 1, y - 1)
      PROVE  p \in Parts(s)
  <2>1. <<x, y>> \in Cuts(s) \X Cuts(s) /\ Good(<<x, y>>)
    BY <1>3 DEF Adjacent
  <2> DEFINE q == <<x, y>>
  <2>2. q[1] = x /\ q[2] = y
    OBVIOUS
  <2>3. p = SubSeq(s, q[1] + 1, q[2] - 1)
    BY <1>3, <2>2
  <2> HIDE DEF q, Good
  <2>4. q \in {r \in Cuts(s) \X Cuts(s) : Good(r)}
    BY <2>1 DEF q
  <2> QED BY <1>1, <2>3, <2>4, Zenon
<1> QED BY <1>2, <1>3, Zenon

LEMMA PartsExist == ASSUME NEW s \in Texts PROVE Parts(s) # {}
<1> DEFINE T == Cuts(s) \ {0}
<1>1. T \subseteq Nat /\ Len(s) + 1 \in T
  BY CutsAre DEF Cuts, Texts
<1> HIDE DEF T
<1>2. PICK y \in T : \A z \in T : y <= z
  BY <1>1, Smallest
<1>3. 0 \in Cuts(s) /\ y \in Cuts(s) /\ 0 < y
  BY <1>1 DEF T, Cuts
<1>4. \A c \in Cuts(s) : c <= 0 \/ y <= c
  BY <1>2, <1>3 DEF T
<1>5. Adjacent(s, 0, y)
  BY <1>3, <1>4 DEF Adjacent
<1>6. SubSeq(s, 0 + 1, y - 1) \in Parts(s)
  BY <1>3, <1>5, PartsAre
<1> QED BY <1>6

LEMMA OnePart == ASSUME NEW X, NEW s \in Seq(X), ~Contains(s, Comma) PROVE Parts(s) = {s}
<1>1. Cuts(s) = {0, Len(s) + 1} /\ Len(s) \in Nat
  BY DEF Cuts, Contains
<1>2. \A x, y : Adjacent(s, x, y) <=> x = 0 /\ y = Len(s) + 1
  BY <1>1 DEF Adjacent
<1>3. SubSeq(s, 0 + 1, (Len(s) + 1) - 1) = s
  <2>1. SubSeq(s, 1, Len(s)) = s
    BY SubSeqFull
  <2>2. (Len(s) + 1) - 1 = Len(s) /\ 0 + 1 = 1
    BY <1>1
  <2> QED BY <2>1, <2>2
<1>4. 0 \in Cuts(s) /\ Len(s) + 1 \in Cuts(s)
  BY <1>1
<1>5. ASSUME NEW p \in Parts(s) PROVE p = s
  <2>1. PICK x, y \in Cuts(s) : Adjacent(s, x, y) /\ p = SubSeq(s, x + 1, y - 1)
    BY PartsAre
  <2>2. x = 0 /\ y = Len(s) + 1
    BY <1>2, <2>1, Zenon
  <2> QED BY <1>3, <2>1, <2>2, Zenon
<1>6. SubSeq(s, 0 + 1, (Len(s) + 1) - 1) \in Parts(s)
  <2>1. Adjacent(s, 0, Len(s) + 1)
    BY <1>2, Zenon
  <2> QED BY <1>4, <2>1, PartsAre, Zenon
<1> QED BY <1>3, <1>5, <1>6

\* Without a comma, a field is one part.
LEMMA FieldWithoutList ==
    ASSUME NEW X, NEW s \in Seq(X), NEW f, ~Contains(s, Comma)
    PROVE  parseField(s, f) = Part(s, f)
<1>1. Parts(s) = {s}
  BY OnePart
<1> QED BY <1>1 DEF parseField

\* Cut at one of its commas, a list is the list before it and that behind it.
LEMMA PartsOfList ==
    ASSUME NEW s \in Texts, NEW k \in Places(s, Comma)
    PROVE  Parts(s) = Parts(SubSeq(s, 1, k - 1)) \cup Parts(SubSeq(s, k + 1, Len(s)))
<1> DEFINE n == Len(s)
           left == SubSeq(s, 1, k - 1)
           right == SubSeq(s, k + 1, n)
<1>1. n \in Nat /\ k \in 1..n /\ s[k] = Comma
  BY DEF Places, Texts
<1>2. /\ left \in Texts /\ Len(left) = k - 1
      /\ \A i \in 1..(k - 1) : left[i] = s[i]
  <2>1. /\ left \in Texts /\ Len(left) = IF 1 <= k - 1 THEN (k - 1) - 1 + 1 ELSE 0
        /\ \A i \in 1..((k - 1) - 1 + 1) : left[i] = s[1 + i - 1]
    BY <1>1, Piece
  <2> QED BY <1>1, <2>1
<1>3. /\ right \in Texts /\ Len(right) = n - k
      /\ \A i \in 1..(n - k) : right[i] = s[k + i]
  <2>1. /\ right \in Texts /\ Len(right) = IF k + 1 <= n THEN n - (k + 1) + 1 ELSE 0
        /\ \A i \in 1..(n - (k + 1) + 1) : right[i] = s[k + 1 + i - 1]
    BY <1>1, Piece
  <2> QED BY <1>1, <2>1
<1>4. DOMAIN s = 1..n /\ DOMAIN left = 1..(k - 1) /\ DOMAIN right = 1..(n - k)
  BY <1>1, <1>2, <1>3 DEF Texts
<1>5. k \in Cuts(s) /\ 0 \in Cuts(s) /\ n + 1 \in Cuts(s) /\ Cuts(s) \subseteq 0..(n + 1)
  BY CutsAre DEF Cuts
<1>6. \A c : c \in Cuts(left) <=> c \in Cuts(s) /\ c <= k
  <2>1. Cuts(left) = {c \in 1..(k - 1) : left[c] = Comma} \cup {0, k}
    BY <1>1, <1>2, <1>4 DEF Cuts, Places
  <2>2. Cuts(s) = {c \in 1..n : s[c] = Comma} \cup {0, n + 1}
    BY <1>4 DEF Cuts, Places
  <2> HIDE DEF left
  <2> QED BY <1>1, <1>2, <2>1, <2>2
<1>7. \A c \in Int : c \in Cuts(right) <=> c + k \in Cuts(s) /\ c >= 0
  <2>1. Cuts(right) = {c \in 1..(n - k) : right[c] = Comma} \cup {0, n - k + 1}
    BY <1>1, <1>3, <1>4 DEF Cuts, Places
  <2>2. Cuts(s) = {c \in 1..n : s[c] = Comma} \cup {0, n + 1}
    BY <1>4 DEF Cuts, Places
  <2> HIDE DEF right
  <2> QED BY <1>1, <1>3, <2>1, <2>2
<1> HIDE DEF left, right
<1>8. ASSUME NEW x \in Cuts(left), NEW y \in Cuts(left), Adjacent(left, x, y)
      PROVE  Adjacent(s, x, y) /\ SubSeq(left, x + 1, y - 1) = SubSeq(s, x + 1, y - 1)
  <2>1. x \in Cuts(s) /\ y \in Cuts(s) /\ x \in 0..k /\ y \in 0..k
    BY <1>1, <1>5, <1>6
  <2>2. \A c \in Cuts(s) : c <= x \/ y <= c
    <3> SUFFICES ASSUME NEW c \in Cuts(s) PROVE c <= x \/ y <= c
      OBVIOUS
    <3>1. c \in 0..(n + 1)
      BY <1>5
    <3>2. CASE c <= k
      BY <1>6, <1>8, <3>2 DEF Adjacent
    <3>3. CASE c > k
      BY <1>1, <2>1, <3>1, <3>3
    <3> QED BY <1>1, <3>1, <3>2, <3>3
  <2>3. Adjacent(s, x, y)
    BY <1>8, <2>1, <2>2 DEF Adjacent
  <2>4. SubSeq(left, x + 1, y - 1) = SubSeq(s, 1 + (x + 1) - 1, 1 + (y - 1) - 1)
    BY <1>1, <1>2, <2>1, PieceOfPiece DEF left
  <2>5. 1 + (x + 1) - 1 = x + 1 /\ 1 + (y - 1) - 1 = y - 1
    BY <2>1
  <2> QED BY <2>3, <2>4, <2>5
<1>9. ASSUME NEW x \in Cuts(right), NEW y \in Cuts(right), Adjacent(right, x, y)
      PROVE  /\ Adjacent(s, x + k, y + k) /\ x + k \in Cuts(s) /\ y + k \in Cuts(s)
             /\ SubSeq(right, x + 1, y - 1) = SubSeq(s, (x + k) + 1, (y + k) - 1)
  <2>0. x \in 0..(n - k + 1) /\ y \in 0..(n - k + 1)
    BY <1>3, CutsAre
  <2>1. x + k \in Cuts(s) /\ y + k \in Cuts(s)
    BY <1>7, <2>0
  <2>2. \A c \in Cuts(s) : c <= x + k \/ y + k <= c
    <3> SUFFICES ASSUME NEW c \in Cuts(s) PROVE c <= x + k \/ y + k <= c
      OBVIOUS
    <3>1. c \in 0..(n + 1)
      BY <1>5
    <3>2. CASE c >= k
      <4>1. c - k \in Int /\ (c - k) + k = c /\ c - k >= 0
        BY <1>1, <3>1, <3>2
      <4>2. c - k \in Cuts(right)
        BY <1>7, <4>1
      <4>3. c - k <= x \/ y <= c - k
        BY <1>9, <4>2 DEF Adjacent
      <4> QED BY <1>1, <2>0, <3>1, <4>3
    <3>3. CASE c < k
      BY <1>1, <2>0, <3>1, <3>3
    <3> QED BY <1>1, <3>1, <3>2, <3>3
  <2>3. Adjacent(s, x + k, y + k)
    BY <1>1, <1>9, <2>0, <2>1, <2>2 DEF Adjacent
  <2>4. SubSeq(right, x + 1, y - 1) = SubSeq(s, (k + 1) + (x + 1) - 1, (k + 1) + (y - 1) - 1)
    BY <1>1, <1>3, <2>0, PieceOfPiece DEF right
  <2>5. (k + 1) + (x + 1) - 1 = (x + k) + 1 /\ (k + 1) + (y - 1) - 1 = (y + k) - 1
    BY <1>1, <2>0
  <2> QED BY <2>1, <2>3, <2>4, <2>5
<1>10. ASSUME NEW p \in Parts(left) PROVE p \in Parts(s)
  <2>1. PICK x, y \in Cuts(left) : Adjacent(left, x, y) /\ p = SubSeq(left, x + 1, y - 1)
    BY PartsAre
  <2>2. x \in Cuts(s) /\ y \in Cuts(s)
    BY <1>6
  <2>3. Adjacent(s, x, y) /\ p = SubSeq(s, x + 1, y - 1)
    BY <1>8, <2>1
  <2> QED BY <2>2, <2>3, PartsAre, Zenon
<1>11. ASSUME NEW p \in Parts(right) PROVE p \in Parts(s)
  <2>1. PICK x, y \in Cuts(right) : Adjacent(right, x, y) /\ p = SubSeq(right, x + 1, y - 1)
    BY PartsAre
  <2>2. /\ Adjacent(s, x + k, y + k) /\ x + k \in Cuts(s) /\ y + k \in Cuts(s)
        /\ p = SubSeq(s, (x + k) + 1, (y + k) - 1)
    BY <1>9, <2>1
  <2> QED BY <2>2, PartsAre, Zenon
<1>12. ASSUME NEW p \in Parts(s) PROVE p \in Parts(left) \cup Parts(right)
  <2>1. PICK x, y \in Cuts(s) : Adjacent(s, x, y) /\ p = SubSeq(s, x + 1, y - 1)
    BY PartsAre
  <2>2. x \in 0..(n + 1) /\ y \in 0..(n + 1) /\ x < y
    BY <1>5, <2>1 DEF Adjacent
  <2>3. CASE y <= k
    <3>1. x \in Cuts(left) /\ y \in Cuts(left)
      BY <1>1, <1>6, <2>2, <2>3
    <3>2. \A c \in Cuts(left) : c <= x \/ y <= c
      BY <1>6, <2>1 DEF Adjacent
    <3>3. Adjacent(left, x, y)
      BY <2>2, <3>1, <3>2 DEF Adjacent
    <3>4. p = SubSeq(left, x + 1, y - 1)
      BY <1>8, <2>1, <3>1, <3>3
    <3>5. p \in Parts(left)
      BY <3>1, <3>3, <3>4, PartsAre, Zenon
    <3> QED BY <3>5
  <2>4. CASE k <= x
    <3> DEFINE u == x - k  v == y - k
    <3>1. u \in Int /\ v \in Int /\ u + k = x /\ v + k = y /\ 0 <= u /\ u < v
      BY <1>1, <2>2, <2>4
    <3> HIDE DEF u, v
    <3>2. u \in Cuts(right) /\ v \in Cuts(right)
      BY <1>7, <3>1
    <3>3. \A c \in Cuts(right) : c <= u \/ v <= c
      <4> SUFFICES ASSUME NEW c \in Cuts(right) PROVE c <= u \/ v <= c
        OBVIOUS
      <4>1. c \in Int
        BY <1>3, CutsAre
      <4>2. c + k \in Cuts(s)
        BY <1>7, <4>1
      <4>3. c + k <= x \/ y <= c + k
        BY <2>1, <4>2 DEF Adjacent
      <4> QED BY <1>1, <3>1, <4>1, <4>3
    <3>4. Adjacent(right, u, v)
      BY <3>1, <3>2, <3>3 DEF Adjacent
    <3>5. SubSeq(right, u + 1, v - 1) = SubSeq(s, (u + k) + 1, (v + k) - 1)
      BY <1>9, <3>2, <3>4
    <3>6. p = SubSeq(right, u + 1, v - 1)
      BY <2>1, <3>1, <3>5
    <3>7. p \in Parts(right)
      BY <3>2, <3>4, <3>6, PartsAre, Zenon
    <3> QED BY <3>7
  <2>5. k <= x \/ y <= k
    BY <1>5, <2>1 DEF Adjacent
  <2> QED BY <2>3, <2>4, <2>5
<1>13. Parts(s) = Parts(left) \cup Parts(right)
  BY <1>10, <1>11, <1>12
<1> QED BY <1>13 DEF left, right

\* The values of a list, of which each part must have some.
LEMMA ListIsRead ==
    ASSUME NEW s \in Texts, NEW f, NEW k \in Places(s, Comma)
    PROVE  LET left == parseField(SubSeq(s, 1, k - 1), f)
               right == parseField(SubSeq(s, k + 1, Len(s)), f)
           IN  parseField(s, f) = IF left = {} \/ right = {} THEN {} ELSE left \cup right
<1> DEFINE a == SubSeq(s, 1, k - 1)  b == SubSeq(s, k + 1, Len(s))
<1>1. a \in Texts /\ b \in Texts
  <2>1. Len(s) \in Nat /\ k \in 1..Len(s)
    BY DEF Places, Texts
  <2> QED BY <2>1, Piece
<1>2. Parts(a) # {} /\ Parts(b) # {}
  BY <1>1, PartsExist
<1>3. Parts(s) = Parts(a) \cup Parts(b)
  BY PartsOfList
<1> HIDE DEF a, b
<1>4. ASSUME NEW t, Parts(t) # {}
      PROVE  parseField(t, f) = {} <=> \E p \in Parts(t) : Part(p, f) = {}
  BY <1>4 DEF parseField
<1>5. parseField(a, f) = {} <=> \E p \in Parts(a) : Part(p, f) = {}
  BY <1>2, <1>4
<1>6. parseField(b, f) = {} <=> \E p \in Parts(b) : Part(p, f) = {}
  BY <1>2, <1>4
<1>7. CASE parseField(a, f) = {} \/ parseField(b, f) = {}
  <2>1. \E p \in Parts(s) : Part(p, f) = {}
    BY <1>3, <1>5, <1>6, <1>7
  <2>2. parseField(s, f) = {}
    BY <2>1 DEF parseField
  <2> QED BY <1>7, <2>2 DEF a, b
<1>8. CASE parseField(a, f) # {} /\ parseField(b, f) # {}
  <2>1. /\ parseField(s, f) = UNION {Part(p, f) : p \in Parts(s)}
        /\ parseField(a, f) = UNION {Part(p, f) : p \in Parts(a)}
        /\ parseField(b, f) = UNION {Part(p, f) : p \in Parts(b)}
    BY <1>3, <1>5, <1>6, <1>8 DEF parseField
  <2>2. parseField(s, f) = parseField(a, f) \cup parseField(b, f)
    BY <1>3, <2>1
  <2> QED BY <1>8, <2>2 DEF a, b
<1> QED BY <1>7, <1>8

-----------------------------------------------------------------------------
(***************************************************************************)
(* The ways to write a part of a list, by the length and the letters.      *)
(***************************************************************************)
\* Division, as far as it is needed.
LEMMA Quotient == ASSUME NEW n \in Nat \ {0}, NEW x \in Int
                  PROVE  /\ x \div n \in Int
                         /\ (x \div n) * n <= x /\ x < (x \div n + 1) * n
OBVIOUS

LEMMA QuotientIs == ASSUME NEW n \in Nat \ {0}, NEW q \in Int, NEW r \in 0..(n - 1)
                    PROVE  (q * n + r) \div n = q /\ (q * n + r) % n = r
OBVIOUS

LEMMA Tokens ==
    /\ \A n \in Int : /\ n \notin Symbol /\ n # Star /\ n # Quest /\ n # Comma
                      /\ n # Slash /\ n # Dash /\ n # Last /\ n # Near /\ n # Other
    /\ \A x \in Token : x \in Nat \/ x \in Symbol
    /\ {Star, Quest, Comma, Slash, Dash, Last, Near} \subseteq Symbol
    /\ Symbol \subseteq Token
BY SymbolAssumption DEF Token, Symbol

LEMMA AllowedIs == ASSUME NEW f \in Field
                   PROVE  /\ Allowed(f) \subseteq Nat
                          /\ \A n \in Int : n \in Allowed(f) <=> Least[f] <= n /\ n <= Greatest[f]
BY LimitsAreNumbers DEF Allowed

LEMMA IsOne == ASSUME NEW s \in Texts, NEW a PROVE s = <<a>> <=> Len(s) = 1 /\ s[1] = a
BY DEF Texts

LEMMA IsTwo ==
    ASSUME NEW s \in Texts, NEW a, NEW b
    PROVE  s = <<a, b>> <=> Len(s) = 2 /\ s[1] = a /\ s[2] = b
BY DEF Texts

LEMMA IsThree ==
    ASSUME NEW s \in Texts, NEW a, NEW b, NEW c
    PROVE  s = <<a, b, c>> <=> Len(s) = 3 /\ s[1] = a /\ s[2] = b /\ s[3] = c
BY DEF Texts

\* A base with a slash and a number behind it.
StepOf(s, t, n) ==
    /\ Len(s) = Len(t) + 2 /\ s[Len(t) + 1] = Slash /\ s[Len(t) + 2] = n
    /\ \A i \in 1..Len(t) : s[i] = t[i]

LEMMA IsStep ==
    ASSUME NEW s \in Texts, NEW t \in Texts, NEW n \in Nat
    PROVE  s = t \o <<Slash, n>> <=> StepOf(s, t, n)
<1> DEFINE u == <<Slash, n>>  v == t \o u
<1>1. u \in Seq(Token) /\ Len(u) = 2 /\ u[1] = Slash /\ u[2] = n
  BY Tokens DEF Token
<1> HIDE DEF u
<1>2. /\ v \in Seq(Token) /\ Len(v) = Len(t) + 2
      /\ \A i \in 1..(Len(t) + 2) : v[i] = IF i <= Len(t) THEN t[i] ELSE u[i - Len(t)]
  <2>1. /\ v \in Seq(Token) /\ Len(v) = Len(t) + Len(u)
        /\ \A i \in 1..(Len(t) + Len(u)) : v[i] = IF i <= Len(t) THEN t[i] ELSE u[i - Len(t)]
    BY <1>1, ConcatProperties, Zenon DEF Texts
  <2> QED BY <1>1, <2>1, Zenon
<1> HIDE DEF v
<1>3. Len(t) \in Nat /\ Len(s) \in Nat
  BY DEF Texts
<1>4. /\ \A i \in 1..Len(t) : v[i] = t[i]
      /\ v[Len(t) + 1] = Slash /\ v[Len(t) + 2] = n
  BY <1>1, <1>2, <1>3
<1>5. ASSUME Len(s) = Len(t) + 2, s[Len(t) + 1] = Slash, s[Len(t) + 2] = n,
             \A i \in 1..Len(t) : s[i] = t[i]
      PROVE  s = v
  <2>1. \A i \in 1..Len(s) : s[i] = v[i]
    <3> SUFFICES ASSUME NEW i \in 1..Len(s) PROVE s[i] = v[i]
      OBVIOUS
    <3>1. i \in 1..Len(t) \/ i = Len(t) + 1 \/ i = Len(t) + 2
      BY <1>3, <1>5
    <3> QED BY <1>4, <1>5, <3>1
  <2> QED BY <1>2, <1>5, <2>1, SeqEqual DEF Texts
<1>6. s = v <=> /\ Len(s) = Len(t) + 2 /\ s[Len(t) + 1] = Slash /\ s[Len(t) + 2] = n
                /\ \A i \in 1..Len(t) : s[i] = t[i]
  BY <1>2, <1>4, <1>5
<1> QED BY <1>6 DEF u, v, StepOf

\* A text that strings.Split cuts in two.
CutAt(s, x, k) ==
    /\ Splits(s, x) /\ Place(s, x) = k /\ s[k] = x
    /\ Before(s, x) \in Texts /\ Len(Before(s, x)) = k - 1
    /\ \A i \in 1..(k - 1) : Before(s, x)[i] = s[i]
    /\ Behind(s, x) \in Texts /\ Len(Behind(s, x)) = Len(s) - k
    /\ \A i \in 1..(Len(s) - k) : Behind(s, x)[i] = s[k + i]

LEMMA SplitAt ==
    ASSUME NEW s \in Texts, NEW x, NEW k \in 1..Len(s), Places(s, x) = {k}
    PROVE  CutAt(s, x, k)
<1>1. DOMAIN s = 1..Len(s) /\ Len(s) \in Nat
  BY DEF Texts
<1>0. k \in Int /\ 1 <= k /\ k <= Len(s) /\ Len(s) \in Int
  BY <1>1
<1>2. \A j \in 1..Len(s) : s[j] = x <=> j = k
  BY <1>1 DEF Places
<1>3. Splits(s, x)
  BY <1>1 DEF Splits
<1>4. Place(s, x) = k /\ s[k] = x
  BY <1>1, <1>2 DEF Place
<1>5. /\ SubSeq(s, 1, k - 1) \in Texts
      /\ Len(SubSeq(s, 1, k - 1)) = IF 1 <= k - 1 THEN k - 1 - 1 + 1 ELSE 0
      /\ \A i \in 1..(k - 1 - 1 + 1) : SubSeq(s, 1, k - 1)[i] = s[1 + i - 1]
  BY <1>1, Piece
<1>6. /\ SubSeq(s, k + 1, Len(s)) \in Texts
      /\ Len(SubSeq(s, k + 1, Len(s))) = IF k + 1 <= Len(s) THEN Len(s) - (k + 1) + 1 ELSE 0
      /\ \A i \in 1..(Len(s) - (k + 1) + 1) : SubSeq(s, k + 1, Len(s))[i] = s[k + 1 + i - 1]
  BY <1>1, Piece
<1>7. Before(s, x) = SubSeq(s, 1, k - 1) /\ Behind(s, x) = SubSeq(s, k + 1, Len(s))
  BY <1>4 DEF Before, Behind
<1>8. /\ Before(s, x) \in Texts /\ Len(Before(s, x)) = k - 1
      /\ \A i \in 1..(k - 1) : Before(s, x)[i] = s[i]
  BY <1>1, <1>5, <1>7
<1>9. /\ Behind(s, x) \in Texts /\ Len(Behind(s, x)) = Len(s) - k
      /\ \A i \in 1..(Len(s) - k) : Behind(s, x)[i] = s[k + i]
  <2> DEFINE b == SubSeq(s, k + 1, Len(s))
  <2>1. /\ b \in Texts /\ Len(b) = IF k + 1 <= Len(s) THEN Len(s) - (k + 1) + 1 ELSE 0
        /\ \A i \in 1..(Len(s) - (k + 1) + 1) : b[i] = s[k + 1 + i - 1]
    BY <1>6
  <2>2. Behind(s, x) = b
    BY <1>7
  <2> HIDE DEF b
  <2>3. Len(b) = Len(s) - k
    <3>1. CASE k + 1 <= Len(s)
      <4>1. Len(s) - (k + 1) + 1 = Len(s) - k
        BY <1>1
      <4> QED BY <2>1, <3>1, <4>1, Zenon
    <3>2. CASE ~(k + 1 <= Len(s))
      <4>1. Len(s) - k = 0
        BY <1>0, <3>2
      <4> QED BY <2>1, <3>2, <4>1, Zenon
    <3> QED BY <3>1, <3>2
  <2>4. \A i \in 1..(Len(s) - k) : b[i] = s[k + i]
    <3> SUFFICES ASSUME NEW i \in 1..(Len(s) - k) PROVE b[i] = s[k + i]
      OBVIOUS
    <3>1. i \in 1..(Len(s) - (k + 1) + 1) /\ k + 1 + i - 1 = k + i
      BY <1>1
    <3> QED BY <2>1, <3>1
  <2> QED BY <2>1, <2>2, <2>3, <2>4
<1> QED BY <1>3, <1>4, <1>8, <1>9, Zenon DEF CutAt

LEMMA NumberIs == ASSUME NEW s \in Texts, NEW f \in Field
                  PROVE  /\ IsNumber(s) <=> Len(s) = 1 /\ s[1] \in Nat
                         /\ InRange(s, f) <=> Len(s) = 1 /\ s[1] \in Allowed(f)
<1>1. Len(s) = 1 => s[1] \in Token
  BY DEF Texts
<1>2. IsNumber(s) <=> Len(s) = 1 /\ s[1] \in Nat
  BY <1>1, Tokens DEF IsNumber
<1>3. Allowed(f) \subseteq Nat
  BY AllowedIs
<1> QED BY <1>2, <1>3 DEF InRange

LEMMA WildcardIs == ASSUME NEW s \in Texts
                    PROVE  IsWildcard(s) <=> Len(s) = 1 /\ s[1] \in {Star, Quest}
BY IsOne DEF IsWildcard

\* A base, with its first and its last value.
IsBase(s, f, lo, hi) ==
    \/ IsWildcard(s) /\ lo = Least[f] /\ hi = Greatest[f]
    \/ Len(s) = 1 /\ s[1] \in Allowed(f) /\ lo = s[1] /\ hi = Greatest[f]
    \/ /\ Len(s) = 3 /\ s[2] = Dash /\ s[1] \in Allowed(f) /\ s[3] \in Allowed(f)
       /\ lo = s[1] /\ hi = s[3]

LEMMA RangeIs ==
    ASSUME NEW s \in Texts, NEW f \in Field
    PROVE  /\ Len(s) = 3 /\ s[2] = Dash /\ s[1] \in Allowed(f) /\ s[3] \in Allowed(f) =>
                 Between(s, f) = s[1]..s[3]
           /\ Between(s, f) # {} =>
                 Len(s) = 3 /\ s[2] = Dash /\ s[1] \in Allowed(f) /\ s[3] \in Allowed(f)
<1>1. DOMAIN s = 1..Len(s) /\ Len(s) \in Nat
  BY DEF Texts
<1>2. ASSUME Len(s) = 3, s[2] = Dash, s[1] \in Allowed(f), s[3] \in Allowed(f)
      PROVE  Between(s, f) = s[1]..s[3]
  <2>1. s[1] # Dash /\ s[3] # Dash
    BY <1>2, AllowedIs, Tokens
  <2>2. Places(s, Dash) = {2} /\ 2 \in 1..Len(s)
    BY <1>1, <1>2, <2>1 DEF Places
  <2> DEFINE a == Before(s, Dash)  b == Behind(s, Dash)
  <2>3. /\ Splits(s, Dash) /\ a \in Texts /\ Len(a) = 2 - 1 /\ \A i \in 1..(2 - 1) : a[i] = s[i]
        /\ b \in Texts /\ Len(b) = Len(s) - 2 /\ \A i \in 1..(Len(s) - 2) : b[i] = s[2 + i]
    <3>1. CutAt(s, Dash, 2)
      BY <2>2, SplitAt, Zenon
    <3> QED BY <3>1, Zenon DEF CutAt
  <2> HIDE DEF a, b
  <2>4. Len(a) = 1 /\ a[1] = s[1] /\ Len(b) = 1 /\ b[1] = s[3]
    <3>1. 1 \in 1..(2 - 1) /\ 1 \in 1..(3 - 2) /\ 2 - 1 = 1 /\ 3 - 2 = 1 /\ 2 + 1 = 3
      OBVIOUS
    <3> QED BY <1>2, <2>3, <3>1, Zenon
  <2>5. InRange(a, f) /\ InRange(b, f)
    BY <1>2, <2>3, <2>4, NumberIs
  <2>6. Between(s, f) = a[1]..b[1]
    BY <2>3, <2>5 DEF Between, a, b
  <2> QED BY <2>4, <2>6
<1>3. ASSUME Between(s, f) # {}
      PROVE  Len(s) = 3 /\ s[2] = Dash /\ s[1] \in Allowed(f) /\ s[3] \in Allowed(f)
  <2> DEFINE a == Before(s, Dash)  b == Behind(s, Dash)
  <2>1. Splits(s, Dash) /\ InRange(a, f) /\ InRange(b, f)
    BY <1>3 DEF Between
  <2>2. PICK k \in 1..Len(s) : Places(s, Dash) = {k}
    BY <1>1, <2>1 DEF Splits
  <2>3. /\ s[k] = Dash /\ a \in Texts /\ Len(a) = k - 1 /\ \A i \in 1..(k - 1) : a[i] = s[i]
        /\ b \in Texts /\ Len(b) = Len(s) - k /\ \A i \in 1..(Len(s) - k) : b[i] = s[k + i]
    <3>1. CutAt(s, Dash, k)
      BY <2>2, SplitAt, Zenon
    <3> QED BY <3>1, Zenon DEF CutAt
  <2> HIDE DEF a, b
  <2>4. /\ Len(a) = 1 /\ a[1] \in Allowed(f) /\ Len(b) = 1 /\ b[1] \in Allowed(f)
    BY <2>1, <2>3, NumberIs
  <2>5. k = 2 /\ Len(s) = 3
    <3>1. k \in Int /\ Len(s) \in Int /\ k - 1 = 1 /\ Len(s) - k = 1
      <4>1. k \in Int /\ Len(s) \in Int
        BY <1>1, <2>2
      <4>2. k - 1 = 1 /\ Len(s) - k = 1
        BY <2>3, <2>4, Zenon
      <4> QED BY <4>1, <4>2
    <3> QED BY <3>1
  <2>6. a[1] = s[1] /\ b[1] = s[3]
    <3>1. 1 \in 1..(2 - 1) /\ 1 \in 1..(3 - 2) /\ 2 + 1 = 3
      OBVIOUS
    <3> QED BY <2>3, <2>5, <3>1, Zenon
  <2> QED BY <2>3, <2>4, <2>5, <2>6
<1> QED BY <1>2, <1>3

LEMMA BaseIs ==
    ASSUME NEW s \in Texts, NEW f \in Field
    PROVE  /\ \A lo, hi : IsBase(s, f, lo, hi) => /\ Base(s, f) = lo..hi /\ ~Contains(s, Slash)
                                                  /\ lo \in Int /\ hi \in Int
           /\ Base(s, f) # {} => \E lo, hi \in Int : IsBase(s, f, lo, hi) /\ lo <= hi
<1>1. DOMAIN s = 1..Len(s) /\ Len(s) \in Nat
  BY DEF Texts
<1>2. Least[f] \in Int /\ Greatest[f] \in Int /\ Allowed(f) \subseteq Nat
  BY LimitsAreNumbers, AllowedIs
<1>3. ASSUME NEW n \in Allowed(f)
      PROVE  n # Star /\ n # Quest /\ n # Slash /\ n # Dash
  BY <1>2, Tokens
<1>4. Star # Slash /\ Quest # Slash /\ Dash # Slash /\ Star # Dash /\ Quest # Dash
  BY SymbolAssumption
<1>5. ASSUME NEW lo, NEW hi, IsBase(s, f, lo, hi)
      PROVE  /\ Base(s, f) = lo..hi /\ ~Contains(s, Slash) /\ lo \in Int /\ hi \in Int
  <2>1. CASE IsWildcard(s) /\ lo = Least[f] /\ hi = Greatest[f]
    <3>1. Len(s) = 1 /\ s[1] \in {Star, Quest}
      BY <2>1, WildcardIs
    <3>2. ~Contains(s, Slash) /\ ~Contains(s, Dash)
      BY <1>1, <1>4, <3>1 DEF Contains, Places
    <3>3. ~InRange(s, f)
      BY <1>3, <3>1, NumberIs
    <3>4. Base(s, f) = lo..hi
      BY <2>1, <3>2, <3>3 DEF Base, Allowed
    <3> QED BY <1>2, <2>1, <3>2, <3>4
  <2>2. CASE Len(s) = 1 /\ s[1] \in Allowed(f) /\ lo = s[1] /\ hi = Greatest[f]
    <3>1. ~IsWildcard(s)
      BY <1>3, <2>2, WildcardIs
    <3>2. ~Contains(s, Slash) /\ ~Contains(s, Dash)
      BY <1>1, <1>3, <2>2 DEF Contains, Places
    <3>3. InRange(s, f)
      BY <2>2, NumberIs
    <3>4. Base(s, f) = lo..hi
      BY <2>2, <3>1, <3>2, <3>3 DEF Base
    <3> QED BY <1>2, <2>2, <3>2, <3>4
  <2>3. CASE /\ Len(s) = 3 /\ s[2] = Dash /\ s[1] \in Allowed(f) /\ s[3] \in Allowed(f)
             /\ lo = s[1] /\ hi = s[3]
    <3>1. ~IsWildcard(s)
      BY <2>3, WildcardIs
    <3>2. ~Contains(s, Slash) /\ Contains(s, Dash)
      BY <1>1, <1>3, <1>4, <2>3 DEF Contains, Places
    <3>3. Between(s, f) = lo..hi
      BY <2>3, RangeIs
    <3>4. ~InRange(s, f)
      BY <2>3, NumberIs
    <3>5. Base(s, f) = lo..hi
      BY <3>1, <3>2, <3>3, <3>4 DEF Base
    <3> QED BY <1>2, <2>3, <3>2, <3>5
  <2> QED BY <1>5, <2>1, <2>2, <2>3 DEF IsBase
<1>6. ASSUME Base(s, f) # {} PROVE \E lo, hi \in Int : IsBase(s, f, lo, hi) /\ lo <= hi
  <2>1. ASSUME NEW lo, NEW hi, IsBase(s, f, lo, hi)
        PROVE \E l, h \in Int : IsBase(s, f, l, h) /\ l <= h
    <3>1. Base(s, f) = lo..hi /\ lo \in Int /\ hi \in Int
      BY <1>5, <2>1
    <3>2. lo <= hi
      BY <1>6, <3>1
    <3> QED BY <2>1, <3>1, <3>2
  <2>2. CASE IsWildcard(s)
    <3>1. IsBase(s, f, Least[f], Greatest[f])
      BY <2>2 DEF IsBase
    <3> QED BY <2>1, <3>1
  <2>3. CASE ~IsWildcard(s) /\ Contains(s, Dash)
    <3>1. ~InRange(s, f)
      <4> SUFFICES ASSUME InRange(s, f) PROVE FALSE
        OBVIOUS
      <4>1. Len(s) = 1 /\ s[1] # Dash
        BY <1>3, NumberIs
      <4> QED BY <1>1, <2>3, <4>1 DEF Contains, Places
    <3>2. Between(s, f) # {}
      BY <1>6, <2>3, <3>1 DEF Base
    <3>3. IsBase(s, f, s[1], s[3])
      BY <3>2, RangeIs DEF IsBase
    <3> QED BY <2>1, <3>3
  <2>4. CASE ~IsWildcard(s) /\ ~Contains(s, Dash)
    <3>1. InRange(s, f)
      BY <1>6, <2>4 DEF Base
    <3>2. IsBase(s, f, s[1], Greatest[f])
      BY <3>1, NumberIs DEF IsBase
    <3> QED BY <2>1, <3>2
  <2> QED BY <2>2, <2>3, <2>4
<1> QED BY <1>5, <1>6

\* Every nth value of a range, as parseField counts them.
LEMMA NthValues ==
    ASSUME NEW lo \in Int, NEW hi \in Int, lo <= hi, NEW n \in Nat \ {0}
    PROVE  /\ EveryNth(lo..hi, n) = {lo + k * n : k \in 0..(hi - lo)} \cap lo..hi
           /\ lo \in EveryNth(lo..hi, n)
<1> DEFINE S == lo..hi
<1>1. lo \in S /\ \A u \in S : lo <= u
  OBVIOUS
<1>2. \A start \in S : (\A u \in S : start <= u) <=> start = lo
  BY <1>1
<1>3. \A v : v \in EveryNth(S, n) <=> v \in S /\ (v - lo) % n = 0
  BY <1>1, <1>2 DEF EveryNth
<1>4. ASSUME NEW v \in S, (v - lo) % n = 0 PROVE \E k \in 0..(hi - lo) : v = lo + k * n
  <2> DEFINE x == v - lo  k == x \div n
  <2>1. x \in Nat /\ x <= hi - lo
    OBVIOUS
  <2>2. k \in Int /\ k * n <= x /\ x < (k + 1) * n /\ x = k * n
    <3>1. x % n = 0
      BY <1>4
    <3> HIDE DEF x
    <3>2. k \in Int /\ k * n <= x /\ x < (k + 1) * n
      BY <2>1, Quotient
    <3>3. x = n * k + (x % n)
      BY <2>1
    <3>4. n * k = k * n
      BY <3>2
    <3> HIDE DEF k
    <3> QED BY <2>1, <3>1, <3>2, <3>3, <3>4
  <2> HIDE DEF k
  <2>3. 0 <= k /\ k <= x
    <3> HIDE DEF x
    <3>1. CASE k < 0
      <4>1. (k + 1) * n <= 0
        BY <2>2, <3>1
      <4> QED BY <2>1, <2>2, <4>1
    <3>2. CASE k >= 0
      <4>1. k <= k * n
        BY <2>2, <3>2
      <4> QED BY <2>2, <3>2, <4>1
    <3> QED BY <2>2, <3>1, <3>2
  <2> QED BY <2>1, <2>2, <2>3
<1>5. ASSUME NEW k \in 0..(hi - lo) PROVE ((lo + k * n) - lo) % n = 0
  <2>1. k \in Int /\ (k * n + 0) % n = 0 /\ k * n \in Int
    BY QuotientIs
  <2>2. (lo + k * n) - lo = k * n + 0
    BY <2>1
  <2> QED BY <2>1, <2>2
<1> HIDE DEF S
<1>6. EveryNth(S, n) = {lo + k * n : k \in 0..(hi - lo)} \cap S
  <2>1. \A v : v \in EveryNth(S, n) => v \in {lo + k * n : k \in 0..(hi - lo)} /\ v \in S
    BY <1>3, <1>4, Zenon
  <2>2. \A k \in 0..(hi - lo) : lo + k * n \in S => lo + k * n \in EveryNth(S, n)
    BY <1>3, <1>5, Zenon
  <2> QED BY <2>1, <2>2
<1>7. lo \in EveryNth(S, n)
  <2>1. (lo - lo) % n = 0
    OBVIOUS
  <2> QED BY <1>1, <1>3, <2>1
<1> QED BY <1>6, <1>7 DEF S

-----------------------------------------------------------------------------
(***************************************************************************)
(* What is written, and what it stands for: x is the set of the values.    *)
(***************************************************************************)
Whole(s, f, x) == \E lo, hi \in Int : /\ IsBase(s, f, lo, hi) /\ lo <= hi /\ x = lo..hi
                                      /\ ~(Len(s) = 1 /\ s[1] \in Allowed(f))
Single(s, f, x) == Len(s) = 1 /\ s[1] \in Allowed(f) /\ x = {s[1]}
Nth(s, f, x) == \E t \in Texts, n \in Nat \ {0}, lo, hi \in Int :
                   s = t \o <<Slash, n>> /\ IsBase(t, f, lo, hi) /\ lo <= hi
                   /\ x = EveryNth(lo..hi, n)
LastDay(s, f, x) == /\ f = "dayOfMonth" /\ x = {0}
                    /\ \/ Len(s) = 1 /\ s[1] = Last
                       \/ Len(s) = 2 /\ s[2] = Last /\ s[1] \in Allowed(f)
Negated(s, f, x) == /\ Len(s) = 2 /\ s[1] \in Allowed(f) /\ x = {-s[1]}
                    /\ \/ f = "dayOfMonth" /\ s[2] = Near
                       \/ f = "dayOfWeek" /\ s[2] = Last

Legal(s, f, x) == \/ Whole(s, f, x) \/ Single(s, f, x) \/ Nth(s, f, x)
                  \/ LastDay(s, f, x) \/ Negated(s, f, x)

LEMMA StepIs ==
    ASSUME NEW s \in Texts, NEW f \in Field
    PROVE  /\ \A x : Nth(s, f, x) => Step(s, f) = x /\ x # {} /\ Contains(s, Slash)
                                     /\ ~IsWildcard(s)
           /\ Step(s, f) # {} => Nth(s, f, Step(s, f))
<1>1. DOMAIN s = 1..Len(s) /\ Len(s) \in Nat
  BY DEF Texts
<1>2. ASSUME NEW t \in Texts, NEW n \in Nat \ {0}, NEW lo \in Int, NEW hi \in Int,
             s = t \o <<Slash, n>>, IsBase(t, f, lo, hi), lo <= hi
      PROVE  /\ Step(s, f) = EveryNth(lo..hi, n) /\ Step(s, f) # {}
             /\ Contains(s, Slash) /\ ~IsWildcard(s)
  <2> DEFINE k == Len(t) + 1
  <2>1. /\ Len(s) = Len(t) + 2 /\ s[Len(t) + 1] = Slash /\ s[Len(t) + 2] = n
        /\ \A i \in 1..Len(t) : s[i] = t[i]
    <3>1. n \in Nat
      OBVIOUS
    <3>2. StepOf(s, t, n)
      BY <1>2, <3>1, IsStep, Zenon
    <3> QED BY <3>2, Zenon DEF StepOf
  <2>2. Len(t) \in Nat /\ DOMAIN t = 1..Len(t)
    BY DEF Texts
  <2>3. \A i \in 1..Len(t) : s[i] # Slash
    BY <1>2, <2>1, <2>2, BaseIs DEF Contains, Places
  <2>4. n # Slash
    BY Tokens
  <2>5. k \in 1..Len(s) /\ Len(s) - k = 1 /\ k - 1 = Len(t) /\ k + 1 = Len(t) + 2
    BY <2>1, <2>2
  <2>6. Places(s, Slash) = {k}
    <3>1. \A i \in 1..Len(s) : i \in 1..Len(t) \/ i = Len(t) + 1 \/ i = Len(t) + 2
      BY <1>1, <2>1, <2>2
    <3>2. s[k] = Slash
      BY <2>1
    <3>3. \A i \in 1..Len(s) : s[i] = Slash => i = k
      BY <2>1, <2>3, <2>4, <3>1
    <3> HIDE DEF k
    <3> QED BY <1>1, <2>5, <3>2, <3>3 DEF Places
  <2> DEFINE a == Before(s, Slash)  b == Behind(s, Slash)
  <2>7. /\ Splits(s, Slash) /\ a \in Texts /\ Len(a) = k - 1 /\ \A i \in 1..(k - 1) : a[i] = s[i]
        /\ b \in Texts /\ Len(b) = Len(s) - k /\ \A i \in 1..(Len(s) - k) : b[i] = s[k + i]
    <3> HIDE DEF k
    <3>1. CutAt(s, Slash, k)
      BY <2>5, <2>6, SplitAt, Zenon
    <3> QED BY <3>1, Zenon DEF CutAt
  <2> HIDE DEF a, b
  <2>8. a = t
    <3>1. Len(a) = Len(t) /\ \A i \in 1..Len(a) : a[i] = t[i]
      BY <2>1, <2>5, <2>7, Zenon
    <3> QED BY <2>7, <3>1, SeqEqual DEF Texts
  <2>9. Len(b) = 1 /\ b[1] = n
    <3>1. 1 \in 1..(Len(s) - k)
      BY <2>5
    <3> HIDE DEF k
    <3> QED BY <2>1, <2>5, <2>7, <3>1, Zenon
  <2>10. IsNumber(b) /\ b[1] > 0
    BY <2>7, <2>9, NumberIs
  <2>11. Base(t, f) = lo..hi
    BY <1>2, BaseIs
  <2>12. Step(s, f) = EveryNth(lo..hi, n)
    BY <2>7, <2>8, <2>9, <2>10, <2>11, Zenon DEF Step, a, b
  <2>13. lo \in EveryNth(lo..hi, n)
    BY <1>2, NthValues
  <2>14. Contains(s, Slash)
    BY <2>6 DEF Contains
  <2>15. ~IsWildcard(s)
    <3>1. Len(s) # 1
      BY <2>1, <2>2
    <3> QED BY <3>1, WildcardIs, Zenon
  <2> QED BY <2>12, <2>13, <2>14, <2>15
<1>3. ASSUME NEW x, Nth(s, f, x)
      PROVE  Step(s, f) = x /\ x # {} /\ Contains(s, Slash) /\ ~IsWildcard(s)
  BY <1>2, <1>3, Zenon DEF Nth
<1>4. ASSUME Step(s, f) # {} PROVE Nth(s, f, Step(s, f))
  <2> DEFINE a == Before(s, Slash)  b == Behind(s, Slash)
  <2>1. /\ Splits(s, Slash) /\ IsNumber(b) /\ b[1] > 0
        /\ Step(s, f) = EveryNth(Base(a, f), b[1])
    BY <1>4 DEF Step
  <2>2. PICK k \in 1..Len(s) : Places(s, Slash) = {k}
    BY <1>1, <2>1 DEF Splits
  <2>3. /\ s[k] = Slash /\ a \in Texts /\ Len(a) = k - 1 /\ \A i \in 1..(k - 1) : a[i] = s[i]
        /\ b \in Texts /\ Len(b) = Len(s) - k /\ \A i \in 1..(Len(s) - k) : b[i] = s[k + i]
    <3>1. CutAt(s, Slash, k)
      BY <2>2, SplitAt, Zenon
    <3> QED BY <3>1, Zenon DEF CutAt
  <2> HIDE DEF a, b
  <2>4. Len(b) = 1 /\ b[1] \in Nat \ {0}
    BY <2>1, <2>3, NumberIs
  <2>5. k \in Int /\ Len(s) \in Int
    BY <1>1, <2>2
  <2>6. Len(s) - k = 1 /\ k - 1 = Len(a)
    BY <2>3, <2>4, Zenon
  <2>7. Len(s) = Len(a) + 2 /\ k = Len(a) + 1 /\ 1 \in 1..(Len(s) - k) /\ k + 1 = Len(a) + 2
    BY <2>5, <2>6
  <2>8. s[Len(a) + 1] = Slash /\ s[Len(a) + 2] = b[1] /\ \A i \in 1..Len(a) : s[i] = a[i]
    BY <2>3, <2>6, <2>7, Zenon
  <2>9. s = a \o <<Slash, b[1]>>
    <3>1. b[1] \in Nat
      BY <2>4
    <3>2. StepOf(s, a, b[1])
      BY <2>7, <2>8 DEF StepOf
    <3>3. s \in Texts /\ a \in Texts
      BY <2>3
    <3> QED BY <3>1, <3>2, <3>3, IsStep, Zenon
  <2>10. Base(a, f) # {}
    BY <1>4, <2>1 DEF EveryNth
  <2>11. PICK lo, hi \in Int : IsBase(a, f, lo, hi) /\ lo <= hi
    BY <2>3, <2>10, BaseIs
  <2>12. Base(a, f) = lo..hi
    BY <2>3, <2>11, BaseIs
  <2> QED BY <2>1, <2>3, <2>4, <2>9, <2>11, <2>12, Zenon DEF Nth
<1> QED BY <1>3, <1>4

\* A part that has a letter, or none.
LEMMA LetterIs ==
    ASSUME NEW s \in Texts, NEW f \in Field
    PROVE  /\ \A x : LastDay(s, f, x) \/ Negated(s, f, x) => Letter(s, f) = x
           /\ Letter(s, f) # {} => LastDay(s, f, Letter(s, f)) \/ Negated(s, f, Letter(s, f))
<1>1. s = <<Last>> <=> Len(s) = 1 /\ s[1] = Last
  BY IsOne
<1>2. ASSUME NEW x PROVE Marked(s, x, f) <=> Len(s) = 2 /\ s[2] = x /\ s[1] \in Allowed(f)
  <2>1. ASSUME Len(s) = 2 PROVE InRange(<<s[1]>>, f) <=> s[1] \in Allowed(f)
    <3>1. s[1] \in Token
      BY <2>1 DEF Texts
    <3> DEFINE u == <<s[1]>>
    <3>2. u \in Texts /\ Len(u) = 1 /\ u[1] = s[1]
      BY <3>1 DEF Texts
    <3> HIDE DEF u
    <3>3. InRange(u, f) <=> s[1] \in Allowed(f)
      BY <3>2, NumberIs
    <3> QED BY <3>3 DEF u
  <2> QED BY <2>1 DEF Marked
<1>3. Last # Near
  BY SymbolAssumption
<1>4. CASE f = "dayOfMonth" /\ (s = <<Last>> \/ Marked(s, Last, f))
  <2>1. ~Marked(s, Near, f)
    BY <1>1, <1>2, <1>3, <1>4
  <2>2. Letter(s, f) = {0}
    BY <1>4, <2>1 DEF Letter
  <2>3. LastDay(s, f, {0})
    BY <1>1, <1>2, <1>4, Zenon DEF LastDay
  <2>4. \A x : LastDay(s, f, x) \/ Negated(s, f, x) => x = {0}
    BY <1>2, <1>4, <2>1 DEF LastDay, Negated
  <2> QED BY <2>2, <2>3, <2>4, Zenon
<1>5. CASE f = "dayOfWeek" /\ Marked(s, Last, f)
  <2>1. Letter(s, f) = {-s[1]}
    BY <1>5 DEF Letter
  <2>2. Negated(s, f, {-s[1]})
    BY <1>2, <1>5, Zenon DEF Negated
  <2>3. \A x : LastDay(s, f, x) \/ Negated(s, f, x) => x = {-s[1]}
    BY <1>5 DEF LastDay, Negated
  <2> QED BY <2>1, <2>2, <2>3, Zenon
<1>6. CASE f = "dayOfMonth" /\ Marked(s, Near, f)
  <2>1. ~(s = <<Last>> \/ Marked(s, Last, f))
    BY <1>1, <1>2, <1>3, <1>6
  <2>2. Letter(s, f) = {-s[1]}
    BY <1>6, <2>1 DEF Letter
  <2>3. Negated(s, f, {-s[1]})
    <3>1. Len(s) = 2 /\ s[2] = Near /\ s[1] \in Allowed(f)
      BY <1>2, <1>6
    <3> QED BY <1>6, <3>1, Zenon DEF Negated
  <2>4. \A x : LastDay(s, f, x) \/ Negated(s, f, x) => x = {-s[1]}
    BY <1>1, <1>2, <1>6, <2>1 DEF LastDay, Negated
  <2> QED BY <2>2, <2>3, <2>4, Zenon
<1>7. CASE /\ ~(f = "dayOfMonth" /\ (s = <<Last>> \/ Marked(s, Last, f)))
           /\ ~(f = "dayOfWeek" /\ Marked(s, Last, f))
           /\ ~(f = "dayOfMonth" /\ Marked(s, Near, f))
  <2>1. Letter(s, f) = {}
    BY <1>7 DEF Letter
  <2>2. \A x : ~LastDay(s, f, x) /\ ~Negated(s, f, x)
    BY <1>1, <1>2, <1>7 DEF LastDay, Negated
  <2> QED BY <2>1, <2>2, Zenon
<1> QED BY <1>4, <1>5, <1>6, <1>7

\* A part is read as it is written,
LEMMA LegalIsPart ==
    ASSUME NEW s \in Texts, NEW f \in Field, NEW x, Legal(s, f, x)
    PROVE  x = Part(s, f) /\ x # {}
<1>1. DOMAIN s = 1..Len(s) /\ Len(s) \in Nat /\ Allowed(f) \subseteq Nat
  BY AllowedIs DEF Texts
<1>2. ASSUME NEW n \in Allowed(f)
      PROVE  n # Star /\ n # Quest /\ n # Slash /\ n # Dash /\ n # Last /\ n # Near /\ n \in Int
  BY <1>1, Tokens
<1>3. /\ Slash \notin {Star, Quest, Dash, Last, Near} /\ Dash \notin {Star, Quest, Last, Near}
      /\ Last \notin {Star, Quest}
  BY SymbolAssumption
<1>4. CASE Whole(s, f, x)
  <2>1. PICK lo, hi \in Int : /\ IsBase(s, f, lo, hi) /\ lo <= hi /\ x = lo..hi
                              /\ ~(Len(s) = 1 /\ s[1] \in Allowed(f))
    BY <1>4 DEF Whole
  <2>2. x # {}
    <3>1. x = lo..hi /\ lo <= hi
      BY <2>1, Zenon
    <3> QED BY <3>1
  <2>3. ~Contains(s, Slash)
    BY <2>1, BaseIs
  <2>4. CASE IsWildcard(s) /\ lo = Least[f] /\ hi = Greatest[f]
    <3>1. Len(s) = 1 /\ s[1] \in {Star, Quest}
      BY <2>4, WildcardIs
    <3>2. ~Contains(s, Dash)
      BY <1>1, <1>3, <3>1 DEF Contains, Places
    <3> QED BY <2>1, <2>2, <2>3, <2>4, <3>2 DEF Part, Allowed
  <2>5. CASE /\ Len(s) = 3 /\ s[2] = Dash /\ s[1] \in Allowed(f) /\ s[3] \in Allowed(f)
             /\ lo = s[1] /\ hi = s[3]
    <3>1. ~IsWildcard(s)
      BY <2>5, WildcardIs
    <3>2. Contains(s, Dash)
      BY <1>1, <2>5 DEF Contains, Places
    <3>3. Between(s, f) = x
      BY <2>1, <2>5, RangeIs
    <3> QED BY <2>2, <2>3, <3>1, <3>2, <3>3 DEF Part
  <2> QED BY <2>1, <2>4, <2>5 DEF IsBase
<1>5. CASE Single(s, f, x)
  <2>1. Len(s) = 1 /\ s[1] \in Allowed(f) /\ x = {s[1]}
    BY <1>5 DEF Single
  <2>2. ~IsWildcard(s)
    BY <1>2, <2>1, WildcardIs
  <2>3. ~Contains(s, Slash) /\ ~Contains(s, Dash)
    BY <1>1, <1>2, <2>1 DEF Contains, Places
  <2>4. \A y : ~LastDay(s, f, y) /\ ~Negated(s, f, y)
    BY <1>2, <2>1 DEF LastDay, Negated
  <2>5. Letter(s, f) = {}
    BY <2>4, LetterIs
  <2>6. {n \in Allowed(f) : s = <<n>>} = x
    BY <2>1, IsOne
  <2>7. Part(s, f) = Letter(s, f) \cup {n \in Allowed(f) : s = <<n>>}
    BY <2>2, <2>3 DEF Part
  <2> QED BY <2>1, <2>5, <2>6, <2>7
<1>6. CASE Nth(s, f, x)
  <2>1. Step(s, f) = x /\ x # {} /\ Contains(s, Slash) /\ ~IsWildcard(s)
    BY <1>6, StepIs
  <2> QED BY <2>1 DEF Part
<1>7. CASE LastDay(s, f, x) \/ Negated(s, f, x)
  <2>1. x # {} /\ Len(s) \in {1, 2}
    BY <1>7 DEF LastDay, Negated
  <2>2. \A k \in DOMAIN s : s[k] \in {Last, Near} \/ s[k] \in Allowed(f)
    BY <1>1, <1>7 DEF LastDay, Negated
  <2>3. ~Contains(s, Slash) /\ ~Contains(s, Dash)
    BY <1>2, <1>3, <2>2 DEF Contains, Places
  <2>4. ~IsWildcard(s)
    <3>1. Len(s) = 1 => s[1] = Last
      BY <1>7 DEF LastDay, Negated
    <3> QED BY <1>3, <3>1, WildcardIs
  <2>5. {n \in Allowed(f) : s = <<n>>} = {}
    <3>1. Len(s) = 1 => s[1] \notin Allowed(f)
      BY <1>2, <1>7 DEF LastDay, Negated
    <3> QED BY <3>1, IsOne
  <2>6. Letter(s, f) = x
    BY <1>7, LetterIs
  <2>7. Part(s, f) = Letter(s, f) \cup {n \in Allowed(f) : s = <<n>>}
    BY <2>3, <2>4 DEF Part
  <2> QED BY <2>1, <2>5, <2>6, <2>7
<1> QED BY <1>4, <1>5, <1>6, <1>7 DEF Legal

\* and nothing else is read.
LEMMA PartIsLegal ==
    ASSUME NEW s \in Texts, NEW f \in Field, Part(s, f) # {}
    PROVE  Legal(s, f, Part(s, f))
<1>1. DOMAIN s = 1..Len(s) /\ Len(s) \in Nat /\ Allowed(f) \subseteq Nat
  BY AllowedIs DEF Texts
<1>2. Least[f] \in Int /\ Greatest[f] \in Int
  BY LimitsAreNumbers
<1>3. /\ Star # Slash /\ Quest # Slash /\ Star # Dash /\ Quest # Dash
      /\ Star \notin Int /\ Quest \notin Int
  BY Tokens, SymbolAssumption
<1>4. CASE IsWildcard(s)
  <2>1. Len(s) = 1 /\ s[1] \in {Star, Quest}
    BY <1>4, WildcardIs
  <2>2. ~Contains(s, Slash) /\ ~Contains(s, Dash)
    BY <1>1, <1>3, <2>1 DEF Contains, Places
  <2>3. Part(s, f) = Least[f]..Greatest[f]
    BY <1>4, <2>2 DEF Part, Allowed
  <2>4. Least[f] <= Greatest[f]
    BY <1>2, <2>3
  <2>5. IsBase(s, f, Least[f], Greatest[f])
    BY <1>4 DEF IsBase
  <2>6. s[1] \notin Allowed(f)
    BY <1>1, <1>3, <2>1
  <2> QED BY <1>2, <2>3, <2>4, <2>5, <2>6, Zenon DEF Legal, Whole
<1>5. CASE ~IsWildcard(s) /\ Contains(s, Slash)
  <2>1. Part(s, f) = Step(s, f)
    BY <1>5 DEF Part
  <2> QED BY <2>1, StepIs DEF Legal
<1>6. CASE ~IsWildcard(s) /\ ~Contains(s, Slash) /\ Contains(s, Dash)
  <2>1. Part(s, f) = Between(s, f)
    BY <1>6 DEF Part
  <2>2. /\ Len(s) = 3 /\ s[2] = Dash /\ s[1] \in Allowed(f) /\ s[3] \in Allowed(f)
        /\ Between(s, f) = s[1]..s[3]
    BY <2>1, RangeIs
  <2>3. s[1] \in Int /\ s[3] \in Int /\ s[1] <= s[3]
    BY <1>1, <2>1, <2>2
  <2>4. IsBase(s, f, s[1], s[3]) /\ ~(Len(s) = 1 /\ s[1] \in Allowed(f))
    BY <2>2 DEF IsBase
  <2> QED BY <2>1, <2>2, <2>3, <2>4, Zenon DEF Legal, Whole
<1>7. CASE ~IsWildcard(s) /\ ~Contains(s, Slash) /\ ~Contains(s, Dash)
  <2>1. Part(s, f) = Letter(s, f) \cup {n \in Allowed(f) : s = <<n>>}
    BY <1>7 DEF Part
  <2>2. CASE Letter(s, f) # {}
    <3>1. LastDay(s, f, Letter(s, f)) \/ Negated(s, f, Letter(s, f))
      BY <2>2, LetterIs
    <3> QED BY <3>1, LegalIsPart DEF Legal
  <2>3. CASE Letter(s, f) = {}
    <3>1. PICK n \in Allowed(f) : s = <<n>>
      BY <2>1, <2>3
    <3>2. Single(s, f, {n})
      BY <3>1, IsOne DEF Single
    <3> QED BY <3>2, LegalIsPart DEF Legal
  <2> QED BY <2>2, <2>3
<1> QED BY <1>4, <1>5, <1>6, <1>7

-----------------------------------------------------------------------------
(***************************************************************************)
(* The documented meanings are those ways to write a part.                 *)
(***************************************************************************)
LEMMA NumbersAre ==
    ASSUME NEW s \in Texts
    PROVE  /\ Numbers(s) \subseteq Nat
           /\ \A k \in 1..Len(s) : s[k] \in Nat => s[k] \in Numbers(s)
           /\ \A n \in Numbers(s) : \E k \in 1..Len(s) : s[k] = n
<1>1. DOMAIN s = 1..Len(s) /\ \A k \in 1..Len(s) : s[k] \in Token
  BY DEF Texts
<1> QED BY <1>1, Tokens DEF Numbers

LEMMA BasesAre ==
    ASSUME NEW f \in Field, NEW N \in SUBSET Allowed(f)
    PROVE  /\ \A q \in Bases(N, f) : q[1] \in Texts /\ IsBase(q[1], f, q[2], q[3])
           /\ \A t \in Texts : \A lo, hi :
                 /\ IsBase(t, f, lo, hi)
                 /\ \A i \in 1..Len(t) : t[i] \in Allowed(f) => t[i] \in N
                 => <<t, lo, hi>> \in Bases(N, f)
<1>1. N \subseteq Token /\ N \subseteq Allowed(f) /\ {Star, Quest, Dash} \subseteq Token
  BY AllowedIs, Tokens DEF Token
<1> DEFINE B1 == {<<<<w>>, Least[f], Greatest[f]>> : w \in {Star, Quest}}
           B2 == {<<<<n>>, n, Greatest[f]>> : n \in N}
           B3 == {<<<<r[1], Dash, r[2]>>, r[1], r[2]>> : r \in N \X N}
<1>2. Bases(N, f) = B1 \cup B2 \cup B3
  BY DEF Bases
<1>3. ASSUME NEW q \in Bases(N, f) PROVE q[1] \in Texts /\ IsBase(q[1], f, q[2], q[3])
  <2>1. CASE q \in B1
    <3>1. PICK w \in {Star, Quest} : q = <<<<w>>, Least[f], Greatest[f]>>
      BY <2>1
    <3> DEFINE t == <<w>>
    <3>2. t \in Texts /\ Len(t) = 1 /\ t[1] = w
      BY <1>1, <3>1 DEF Texts
    <3>3. q[1] = t /\ q[2] = Least[f] /\ q[3] = Greatest[f]
      BY <3>1
    <3> HIDE DEF t
    <3>4. IsWildcard(t)
      BY <3>1, <3>2, WildcardIs
    <3> QED BY <3>2, <3>3, <3>4, Zenon DEF IsBase
  <2>2. CASE q \in B2
    <3>1. PICK n \in N : q = <<<<n>>, n, Greatest[f]>>
      BY <2>2
    <3> DEFINE t == <<n>>
    <3>2. t \in Texts /\ Len(t) = 1 /\ t[1] = n /\ n \in Allowed(f)
      BY <1>1, <3>1 DEF Texts
    <3>3. q[1] = t /\ q[2] = n /\ q[3] = Greatest[f]
      BY <3>1
    <3> HIDE DEF t
    <3> QED BY <3>2, <3>3, Zenon DEF IsBase
  <2>3. CASE q \in B3
    <3>1. PICK r \in N \X N : q = <<<<r[1], Dash, r[2]>>, r[1], r[2]>>
      BY <2>3
    <3>2. PICK a \in N, b \in N : a = r[1] /\ b = r[2]
      BY <3>1
    <3> DEFINE t == <<a, Dash, b>>
    <3>3. q = <<t, a, b>>
      BY <3>1, <3>2, Zenon
    <3>4. /\ t \in Texts /\ Len(t) = 3 /\ t[1] = a /\ t[2] = Dash /\ t[3] = b
          /\ a \in Allowed(f) /\ b \in Allowed(f)
      BY <1>1, <3>2 DEF Texts
    <3> HIDE DEF t
    <3>5. q[1] = t /\ q[2] = a /\ q[3] = b
      BY <3>3
    <3> QED BY <3>4, <3>5, Zenon DEF IsBase
  <2> HIDE DEF B1, B2, B3
  <2> QED BY <1>2, <2>1, <2>2, <2>3
<1>4. ASSUME NEW t \in Texts, NEW lo, NEW hi, IsBase(t, f, lo, hi),
             \A i \in 1..Len(t) : t[i] \in Allowed(f) => t[i] \in N
      PROVE  <<t, lo, hi>> \in Bases(N, f)
  <2>1. CASE IsWildcard(t) /\ lo = Least[f] /\ hi = Greatest[f]
    <3>1. PICK w \in {Star, Quest} : t = <<w>>
      BY <2>1 DEF IsWildcard
    <3>2. <<t, lo, hi>> = <<<<w>>, Least[f], Greatest[f]>>
      BY <2>1, <3>1, Zenon
    <3>3. <<t, lo, hi>> \in B1
      BY <3>1, <3>2, Zenon
    <3> HIDE DEF B1, B2, B3
    <3> QED BY <1>2, <3>3
  <2>2. CASE Len(t) = 1 /\ t[1] \in Allowed(f) /\ lo = t[1] /\ hi = Greatest[f]
    <3>1. t[1] \in N
      BY <1>4, <2>2
    <3>2. t = <<t[1]>>
      BY <2>2, IsOne
    <3>3. <<t, lo, hi>> = <<<<t[1]>>, t[1], Greatest[f]>>
      BY <2>2, <3>2, Zenon
    <3>4. <<t, lo, hi>> \in B2
      BY <3>1, <3>3, Zenon
    <3> HIDE DEF B1, B2, B3
    <3> QED BY <1>2, <3>4
  <2>3. CASE /\ Len(t) = 3 /\ t[2] = Dash /\ t[1] \in Allowed(f) /\ t[3] \in Allowed(f)
             /\ lo = t[1] /\ hi = t[3]
    <3>1. t[1] \in N /\ t[3] \in N
      BY <1>4, <2>3
    <3> DEFINE r == <<t[1], t[3]>>
    <3>2. r \in N \X N /\ r[1] = lo /\ r[2] = hi
      BY <2>3, <3>1
    <3>3. t = <<lo, Dash, hi>>
      BY <2>3, IsThree
    <3> HIDE DEF r
    <3>4. <<t, lo, hi>> = <<<<r[1], Dash, r[2]>>, r[1], r[2]>>
      BY <3>2, <3>3, Zenon
    <3>5. <<t, lo, hi>> \in B3
      BY <3>2, <3>4, Zenon
    <3> HIDE DEF B1, B2, B3
    <3> QED BY <1>2, <3>5
  <2> QED BY <1>4, <2>1, <2>2, <2>3, Zenon DEF IsBase
<1> QED BY <1>3, <1>4, Zenon

LEMMA MeaningsAre ==
    ASSUME NEW s \in Texts, NEW f \in Field, NEW x
    PROVE  x \in Meanings(s, f) <=> Legal(s, f, x)
<1> DEFINE N == Numbers(s) \cap Allowed(f)
           Ranges == {q \in Bases(N, f) : q[1] = s /\ q[2] <= q[3] /\ s \notin {<<n>> : n \in N}}
           Steps == {q \in Bases(N, f) \X (Numbers(s) \ {0}) :
                       s = q[1][1] \o <<Slash, q[2]>> /\ q[1][2] <= q[1][3]}
           M1 == {b[2]..b[3] : b \in Ranges}
           M2 == {{n} : n \in {m \in N : s = <<m>>}}
           M3 == {{p[1][2] + k * p[2] : k \in 0..(p[1][3] - p[1][2])} \cap p[1][2]..p[1][3] :
                     p \in Steps}
           M4 == {{0} : y \in {z \in {<<Last>>} \cup {<<n, Last>> : n \in N} :
                                  s = z /\ f = "dayOfMonth"}}
           M5 == {{-n} : n \in {m \in N : \/ f = "dayOfMonth" /\ s = <<m, Near>>
                                          \/ f = "dayOfWeek" /\ s = <<m, Last>>}}
<1>1. Meanings(s, f) = M1 \cup M2 \cup M3 \cup M4 \cup M5
  BY DEF Meanings
<1>2. /\ N \subseteq Allowed(f) /\ Allowed(f) \subseteq Nat /\ Numbers(s) \subseteq Nat
      /\ Len(s) \in Nat /\ \A k \in 1..Len(s) : s[k] \in Allowed(f) => s[k] \in N
  BY AllowedIs, NumbersAre DEF Texts
<1>3. \A q \in Bases(N, f) : /\ q[1] \in Texts /\ IsBase(q[1], f, q[2], q[3])
                             /\ q[2] \in Int /\ q[3] \in Int
  <2> HIDE DEF N
  <2>1. \A q \in Bases(N, f) : q[1] \in Texts /\ IsBase(q[1], f, q[2], q[3])
    BY <1>2, BasesAre
  <2> QED BY <2>1, BaseIs
<1>4. \A t \in Texts : \A lo, hi :
          /\ IsBase(t, f, lo, hi)
          /\ \A i \in 1..Len(t) : t[i] \in Allowed(f) => t[i] \in N
          => <<t, lo, hi>> \in Bases(N, f)
  <2> HIDE DEF N
  <2> QED BY <1>2, BasesAre
<1>5. s \in {<<n>> : n \in N} <=> Len(s) = 1 /\ s[1] \in Allowed(f)
  <2> HIDE DEF N
  <2>1. ASSUME Len(s) = 1, s[1] \in Allowed(f) PROVE s \in {<<n>> : n \in N}
    <3>1. s[1] \in N /\ s = <<s[1]>>
      BY <1>2, <2>1, IsOne
    <3> QED BY <3>1
  <2>2. ASSUME NEW n \in N, s = <<n>> PROVE Len(s) = 1 /\ s[1] \in Allowed(f)
    BY <1>2, <2>2, IsOne
  <2> QED BY <2>1, <2>2
<1> HIDE DEF N
<1>6. x \in M1 <=> Whole(s, f, x)
  <2>1. ASSUME x \in M1 PROVE Whole(s, f, x)
    <3>1. PICK b \in Ranges : x = b[2]..b[3]
      BY <2>1
    <3>2. b \in Bases(N, f) /\ b[1] = s /\ b[2] <= b[3] /\ s \notin {<<n>> : n \in N}
      BY <3>1, Zenon
    <3>3. IsBase(s, f, b[2], b[3]) /\ b[2] \in Int /\ b[3] \in Int
      BY <1>3, <3>2, Zenon
    <3> QED BY <1>5, <3>1, <3>2, <3>3, Zenon DEF Whole
  <2>2. ASSUME Whole(s, f, x) PROVE x \in M1
    <3>1. PICK lo, hi \in Int : /\ IsBase(s, f, lo, hi) /\ lo <= hi /\ x = lo..hi
                                /\ ~(Len(s) = 1 /\ s[1] \in Allowed(f))
      BY <2>2, Zenon DEF Whole
    <3>2. <<s, lo, hi>> \in Bases(N, f)
      BY <1>2, <1>4, <3>1, Zenon
    <3> DEFINE b == <<s, lo, hi>>
    <3>3. b[1] = s /\ b[2] = lo /\ b[3] = hi
      OBVIOUS
    <3>4. b \in Bases(N, f)
      BY <3>2
    <3> HIDE DEF b
    <3>5. b \in Ranges
      BY <1>5, <3>1, <3>3, <3>4, Zenon
    <3>6. x = b[2]..b[3]
      BY <3>1, <3>3, Zenon
    <3> QED BY <3>5, <3>6, Zenon
  <2> QED BY <2>1, <2>2, Zenon
<1>7. x \in M2 <=> Single(s, f, x)
  <2>1. ASSUME NEW n \in N, s = <<n>>, x = {n} PROVE Single(s, f, x)
    BY <1>2, <2>1, IsOne DEF Single
  <2>2. ASSUME Single(s, f, x) PROVE s[1] \in N /\ s = <<s[1]>> /\ x = {s[1]}
    BY <1>2, <2>2, IsOne DEF Single
  <2> QED BY <2>1, <2>2
<1>8. x \in M4 <=> LastDay(s, f, x)
  <2>1. x \in M4 <=> f = "dayOfMonth" /\ x = {0} /\ (s = <<Last>> \/ \E n \in N : s = <<n, Last>>)
    BY Zenon
  <2>2. s = <<Last>> <=> Len(s) = 1 /\ s[1] = Last
    BY IsOne
  <2>3. (\E n \in N : s = <<n, Last>>) <=> Len(s) = 2 /\ s[2] = Last /\ s[1] \in Allowed(f)
    <3>1. Len(s) = 2 /\ s[1] \in Allowed(f) => s[1] \in N
      BY <1>2
    <3> QED BY <1>2, <3>1, IsTwo
  <2> QED BY <2>1, <2>2, <2>3, Zenon DEF LastDay
<1>9. x \in M5 <=> Negated(s, f, x)
  <2>1. Len(s) = 2 /\ s[1] \in Allowed(f) => s[1] \in N
    BY <1>2
  <2>2. \A n, y : s = <<n, y>> <=> Len(s) = 2 /\ s[1] = n /\ s[2] = y
    BY IsTwo
  <2> DEFINE Holds(n) == \/ f = "dayOfMonth" /\ s = <<n, Near>>
                         \/ f = "dayOfWeek" /\ s = <<n, Last>>
  <2>3. ASSUME NEW n \in N
        PROVE  Holds(n) => /\ Len(s) = 2 /\ s[1] = n
                           /\ \/ f = "dayOfMonth" /\ s[2] = Near
                              \/ f = "dayOfWeek" /\ s[2] = Last
    BY <2>2
  <2>4. ASSUME Negated(s, f, x) PROVE s[1] \in N /\ Holds(s[1]) /\ x = {-s[1]}
    <3>1. s[1] \in N /\ x = {-s[1]}
      BY <2>1, <2>4 DEF Negated
    <3> QED BY <2>2, <2>4, <3>1 DEF Negated
  <2>5. M5 = {{-n} : n \in {m \in N : Holds(m)}}
    OBVIOUS
  <2> HIDE DEF M5, Holds
  <2>6. ASSUME x \in M5 PROVE Negated(s, f, x)
    <3>1. PICK n \in N : Holds(n) /\ x = {-n}
      BY <2>5, <2>6
    <3> QED BY <1>2, <2>3, <3>1 DEF Negated
  <2>7. ASSUME Negated(s, f, x) PROVE x \in M5
    <3>1. s[1] \in {m \in N : Holds(m)} /\ x = {-s[1]}
      BY <2>4, <2>7
    <3> QED BY <2>5, <3>1
  <2> QED BY <2>6, <2>7
<1>10. x \in M3 <=> Nth(s, f, x)
  <2>1. ASSUME x \in M3 PROVE Nth(s, f, x)
    <3>1. PICK p \in Steps :
             x = {p[1][2] + k * p[2] : k \in 0..(p[1][3] - p[1][2])} \cap p[1][2]..p[1][3]
      BY <2>1, Zenon
    <3>2. /\ p \in Bases(N, f) \X (Numbers(s) \ {0})
          /\ s = p[1][1] \o <<Slash, p[2]>> /\ p[1][2] <= p[1][3]
      BY <3>1, Zenon
    <3>3. p[1] \in Bases(N, f) /\ p[2] \in Numbers(s) \ {0}
      BY <3>2
    <3>4. PICK t, lo, hi, n : t = p[1][1] /\ lo = p[1][2] /\ hi = p[1][3] /\ n = p[2]
      OBVIOUS
    <3>5. t \in Texts /\ IsBase(t, f, lo, hi) /\ lo \in Int /\ hi \in Int /\ n \in Nat \ {0}
      BY <1>2, <1>3, <3>3, <3>4
    <3>6. s = t \o <<Slash, n>> /\ lo <= hi /\ x = {lo + k * n : k \in 0..(hi - lo)} \cap lo..hi
      BY <3>1, <3>2, <3>4, Zenon
    <3>7. x = EveryNth(lo..hi, n)
      BY <3>5, <3>6, NthValues, Zenon
    <3> QED BY <3>5, <3>6, <3>7, Zenon DEF Nth
  <2>2. ASSUME Nth(s, f, x) PROVE x \in M3
    <3>1. PICK t \in Texts, n \in Nat \ {0}, lo, hi \in Int :
             s = t \o <<Slash, n>> /\ IsBase(t, f, lo, hi) /\ lo <= hi /\ x = EveryNth(lo..hi, n)
      BY <2>2, Zenon DEF Nth
    <3>2. /\ Len(s) = Len(t) + 2 /\ s[Len(t) + 2] = n
          /\ \A i \in 1..Len(t) : s[i] = t[i]
      <4>1. n \in Nat
        BY <3>1
      <4>2. StepOf(s, t, n)
        BY <3>1, <4>1, IsStep, Zenon
      <4> QED BY <4>2, Zenon DEF StepOf
    <3>3. Len(t) \in Nat
      BY <3>1 DEF Texts
    <3>4. n \in Numbers(s) \ {0}
      <4>1. Len(t) + 2 \in 1..Len(s)
        BY <3>2, <3>3
      <4>2. n \in Nat \ {0} /\ s[Len(t) + 2] = n
        BY <3>1, <3>2
      <4>3. s[Len(t) + 2] \in Numbers(s)
        BY <4>1, <4>2, NumbersAre
      <4> QED BY <4>2, <4>3
    <3>5. \A i \in 1..Len(t) : t[i] \in Allowed(f) => t[i] \in N
      <4>1. \A i \in 1..Len(t) : i \in 1..Len(s)
        BY <3>2, <3>3
      <4> QED BY <1>2, <3>2, <4>1, Zenon
    <3>6. <<t, lo, hi>> \in Bases(N, f)
      BY <1>4, <3>1, <3>5, Zenon
    <3> DEFINE b == <<t, lo, hi>>  p == <<b, n>>
    <3>7. b[1] = t /\ b[2] = lo /\ b[3] = hi /\ b \in Bases(N, f)
      BY <3>6
    <3> HIDE DEF b
    <3>8. p[1] = b /\ p[2] = n /\ p \in Bases(N, f) \X (Numbers(s) \ {0})
      BY <3>4, <3>7
    <3> HIDE DEF p
    <3>9. p \in Steps
      BY <3>1, <3>7, <3>8, Zenon
    <3>10. EveryNth(lo..hi, n) = {lo + k * n : k \in 0..(hi - lo)} \cap lo..hi
      BY <3>1, NthValues
    <3>11. x = {p[1][2] + k * p[2] : k \in 0..(p[1][3] - p[1][2])} \cap p[1][2]..p[1][3]
      BY <3>1, <3>7, <3>8, <3>10, Zenon
    <3> HIDE DEF Steps
    <3> QED BY <3>9, <3>11, Zenon
  <2> QED BY <2>1, <2>2, Zenon
<1> HIDE DEF M1, M2, M3, M4, M5
<1> QED BY <1>1, <1>6, <1>7, <1>8, <1>9, <1>10 DEF Legal

\* A field means what the documentation says (docs/getting-started.md, Special
\* Characters), whatever it holds: a part is read as it is meant and refused
\* if it is not legal, and a list needs both what is before a comma and what is
\* behind it (parseField, cron_parser.go:185).
THEOREM FieldIsRead == ASSUME NEW s \in Texts, NEW f \in Field PROVE Reads(s, f)
<1>1. CASE Contains(s, Comma)
  BY <1>1, ListIsRead, Zenon DEF Reads
<1>2. CASE ~Contains(s, Comma)
  <2>1. parseField(s, f) = Part(s, f)
    BY <1>2, FieldWithoutList DEF Texts
  <2>2. \A x : x \in Meanings(s, f) <=> x = Part(s, f) /\ x # {}
    <3>1. \A x : x \in Meanings(s, f) <=> Legal(s, f, x)
      BY MeaningsAre, Zenon
    <3>2. \A x : Legal(s, f, x) => x = Part(s, f) /\ x # {}
      BY LegalIsPart, Zenon
    <3>3. Part(s, f) # {} => Legal(s, f, Part(s, f))
      BY PartIsLegal, Zenon
    <3> QED BY <3>1, <3>2, <3>3, Zenon
  <2>3. Meanings(s, f) = {Part(s, f)} \ {{}}
    BY <2>2
  <2> QED BY <1>2, <2>1, <2>3, Zenon DEF Reads
<1> QED BY <1>1, <1>2

-----------------------------------------------------------------------------
(***************************************************************************)
(* Which expressions are refused.                                          *)
(***************************************************************************)
LEMMA RulesTyped == ASSUME NEW opts PROVE Rules(opts) \in Seq(Field)
<1> DEFINE five == <<"minutes", "hours", "dayOfMonth", "months", "dayOfWeek">>
           sec == IF opts.enableSeconds THEN <<"seconds">> ELSE <<>>
           year == IF opts.enableYears THEN <<"years">> ELSE <<>>
<1>1. five \in Seq(Field)
  <2>1. /\ "minutes" \in Field /\ "hours" \in Field /\ "dayOfMonth" \in Field
        /\ "months" \in Field /\ "dayOfWeek" \in Field
    BY FieldNames
  <2> QED BY <2>1
<1>2. sec \in Seq(Field) /\ year \in Seq(Field)
  <2>1. "seconds" \in Field /\ "years" \in Field
    BY FieldNames
  <2>2. <<"seconds">> \in Seq(Field) /\ <<"years">> \in Seq(Field) /\ <<>> \in Seq(Field)
    BY <2>1
  <2> QED BY <2>2, Zenon
<1>3. Rules(opts) = (sec \o five) \o year
  BY DEF Rules
<1> HIDE DEF five, sec, year
<1> QED BY <1>1, <1>2, <1>3, ConcatProperties

LEMMA ExpandTyped == ASSUME NEW text, text.fields \in Seq(Texts) PROVE Expand(text) \in Seq(Texts)
<1> DEFINE zero == <<0>>  one == <<1>>
<1>1. zero \in Texts /\ one \in Texts /\ Any \in Texts
  BY Tokens DEF Texts, Token, Any
<1> HIDE DEF zero, one
<1>2. /\ <<zero, zero, one, one, Any>> \in Seq(Texts) /\ <<zero, zero, one, Any, Any>> \in Seq(Texts)
      /\ <<zero, zero, Any, Any, zero>> \in Seq(Texts) /\ <<zero, zero, Any, Any, Any>> \in Seq(Texts)
      /\ <<zero, Any, Any, Any, Any>> \in Seq(Texts) /\ <<Any, Any, Any, Any, Any>> \in Seq(Texts)
  BY <1>1, Five, Zenon
<1>3. Expand(text) \in {<<zero, zero, one, one, Any>>, <<zero, zero, one, Any, Any>>,
                       <<zero, zero, Any, Any, zero>>, <<zero, zero, Any, Any, Any>>,
                       <<zero, Any, Any, Any, Any>>, <<Any, Any, Any, Any, Any>>, text.fields}
  BY DEF Expand, zero, one
<1> QED BY <1>2, <1>3

\* What newCronParser returns is a parser, unless it refuses the expression,
\* for its length or for one of its fields.
Fails(text, opts) ==
    \/ Len(Expand(text)) # Len(Rules(opts))
    \/ \E k \in DOMAIN Rules(opts) : parseField(Expand(text)[k], Rules(opts)[k]) = {}

Flagged(opts) == opts.enableSeconds \in BOOLEAN /\ opts.enableYears \in BOOLEAN

LEMMA ParserTyped ==
    ASSUME NEW text, NEW opts, Flagged(opts)
    PROVE  newCronParser(text, opts) = Refused <=> Fails(text, opts)
<1> DEFINE parts == Expand(text)
           rules == Rules(opts)
           place(f) == {k \in DOMAIN rules : rules[k] = f}
           values(f) == UNION {parseField(parts[k], f) : k \in place(f)}
           wildcard(f) == \A k \in place(f) : IsWildcard(parts[k])
           p == [seconds |-> values("seconds"), minutes |-> values("minutes"),
                 hours |-> values("hours"), dayOfMonth |-> values("dayOfMonth"),
                 months |-> values("months"), dayOfWeek |-> values("dayOfWeek"),
                 years |-> values("years"),
                 enableSeconds |-> opts.enableSeconds, enableYears |-> opts.enableYears,
                 dayOfMonthWildcard |-> wildcard("dayOfMonth"),
                 dayOfWeekWildcard |-> wildcard("dayOfWeek")]
           fails == \/ Len(parts) # Len(rules)
                    \/ \E k \in DOMAIN rules : parseField(parts[k], rules[k]) = {}
<1>1. newCronParser(text, opts) = IF fails THEN Refused ELSE p
  BY DEF newCronParser
<1>2. ASSUME NEW f \in Field PROVE values(f) \in SUBSET Int
  <2>1. Extended(f) \subseteq Int
    BY AllowedIs DEF Extended
  <2>2. \A k : parseField(parts[k], f) \subseteq Int
    BY <2>1, FieldExtended
  <2> QED BY <2>2
<1>3. \A f : wildcard(f) \in BOOLEAN
  OBVIOUS
<1> HIDE DEF parts, rules, values, wildcard
<1>4. p \in CronParser
  <2>1. /\ values("seconds") \in SUBSET Int /\ values("minutes") \in SUBSET Int
        /\ values("hours") \in SUBSET Int /\ values("dayOfMonth") \in SUBSET Int
        /\ values("months") \in SUBSET Int /\ values("dayOfWeek") \in SUBSET Int
        /\ values("years") \in SUBSET Int
    BY <1>2, FieldNames
  <2> QED BY <1>3, <2>1 DEF CronParser, Flagged
<1> HIDE DEF p
<1>5. p # Refused
  BY <1>4, ParserAssumption
<1>6. newCronParser(text, opts) = Refused <=> fails
  BY <1>1, <1>5, Zenon
<1> QED BY <1>6 DEF parts, rules, Fails

-----------------------------------------------------------------------------
(***************************************************************************)
(* Fields as the macros and the schedule builder write them.               *)
(***************************************************************************)
LEMMA AnyIsRead ==
    ASSUME NEW f \in Field
    PROVE  parseField(Any, f) = Allowed(f) /\ Allowed(f) # {} /\ IsWildcard(Any)
<1>1. Any \in Texts /\ IsWildcard(Any) /\ Len(Any) = 1 /\ Any[1] = Star
  BY Tokens DEF Any, Texts, IsWildcard
<1>2. Least[f] \in Int /\ Greatest[f] \in Int /\ Least[f] <= Greatest[f]
  BY FieldNames, ClockAssumption DEF Least, Greatest
<1>3. DOMAIN Any = {1}
  BY DEF Any
<1>4. ~Contains(Any, Comma) /\ ~Contains(Any, Slash) /\ ~Contains(Any, Dash)
  BY <1>1, <1>3, SymbolAssumption DEF Contains, Places
<1> HIDE DEF Any
<1>5. parseField(Any, f) = Part(Any, f)
  BY <1>1, <1>4, FieldWithoutList DEF Texts
<1>6. Part(Any, f) = Allowed(f)
  BY <1>1, <1>4 DEF Part
<1>7. Allowed(f) # {}
  BY <1>2 DEF Allowed
<1> QED BY <1>1, <1>5, <1>6, <1>7

LEMMA NumberIsRead ==
    ASSUME NEW f \in Field, NEW n \in Allowed(f)
    PROVE  parseField(<<n>>, f) = {n} /\ ~IsWildcard(<<n>>)
<1> DEFINE s == <<n>>
<1>1. n \in Nat /\ n # Comma /\ n # Star /\ n # Quest
  BY AllowedIs, Tokens
<1>2. s \in Texts /\ Len(s) = 1 /\ s[1] = n /\ DOMAIN s = {1}
  BY <1>1 DEF Texts, Token
<1> HIDE DEF s
<1>3. ~Contains(s, Comma)
  BY <1>1, <1>2 DEF Contains, Places
<1>4. parseField(s, f) = Part(s, f)
  BY <1>2, <1>3, FieldWithoutList DEF Texts
<1>5. Single(s, f, {n})
  BY <1>2 DEF Single
<1>6. {n} = Part(s, f)
  BY <1>2, <1>5, LegalIsPart, Zenon DEF Legal
<1>7. ~IsWildcard(s)
  BY <1>1, <1>2, WildcardIs
<1> QED BY <1>4, <1>6, <1>7 DEF s

\* */n has the multiples of n, for the fields that begin at zero,
LEMMA MultiplesAreRead ==
    ASSUME NEW f \in Field, Least[f] = 0, NEW n \in Nat \ {0}
    PROVE  /\ parseField(<<Star, Slash, n>>, f) = {v \in Allowed(f) : v % n = 0}
           /\ parseField(<<Star, Slash, n>>, f) # {}
<1> DEFINE s == <<Star, Slash, n>>
<1>1. /\ n \in Nat /\ n # Comma /\ Star # Comma /\ Slash # Comma
      /\ Star \in Token /\ Slash \in Token /\ n \in Token
  BY Tokens, SymbolAssumption DEF Token
<1>2. /\ s \in Texts /\ Len(s) = 3 /\ s[1] = Star /\ s[2] = Slash /\ s[3] = n
      /\ DOMAIN s = {1, 2, 3}
  BY <1>1 DEF Texts
<1> HIDE DEF s
<1>3. ~Contains(s, Comma)
  BY <1>1, <1>2 DEF Contains, Places
<1>4. parseField(s, f) = Part(s, f)
  BY <1>2, <1>3, FieldWithoutList DEF Texts
<1>5. Any \in Texts /\ IsWildcard(Any) /\ Len(Any) = 1 /\ Any[1] = Star
  BY Tokens DEF Any, Texts, IsWildcard
<1> DEFINE hi == Greatest[f]
<1>6. hi \in Int /\ 0 <= hi /\ Allowed(f) = 0..hi
  BY FieldNames, ClockAssumption DEF Least, Greatest, Allowed
<1>7. IsBase(Any, f, 0, hi)
  BY <1>5, Zenon DEF IsBase
<1>8. s = Any \o <<Slash, n>>
  <2> HIDE DEF Any
  <2>1. Len(s) = Len(Any) + 2 /\ s[Len(Any) + 1] = Slash /\ s[Len(Any) + 2] = n
    BY <1>2, <1>5
  <2>2. \A i \in 1..Len(Any) : s[i] = Any[i]
    BY <1>2, <1>5
  <2>3. StepOf(s, Any, n)
    BY <2>1, <2>2, Zenon DEF StepOf
  <2>4. n \in Nat
    OBVIOUS
  <2> QED BY <1>2, <1>5, <2>3, <2>4, IsStep, Zenon
<1> HIDE DEF hi
<1>9. Nth(s, f, EveryNth(0..hi, n))
  <2>1. 0 \in Int /\ n \in Nat \ {0}
    OBVIOUS
  <2> QED BY <1>5, <1>6, <1>7, <1>8, <2>1, Zenon DEF Nth
<1>10. EveryNth(0..hi, n) = Part(s, f) /\ EveryNth(0..hi, n) # {}
  BY <1>2, <1>9, LegalIsPart, Zenon DEF Legal
<1>11. EveryNth(0..hi, n) = {v \in 0..hi : v % n = 0}
  <2> DEFINE S == 0..hi
  <2>1. 0 \in S /\ \A u \in S : 0 <= u
    BY <1>6
  <2>2. \A start \in S : (\A u \in S : start <= u) <=> start = 0
    BY <2>1
  <2>3. \A v \in S : v - 0 = v
    BY <1>6
  <2> HIDE DEF S
  <2>4. EveryNth(S, n) = {v \in S : v % n = 0}
    BY <2>1, <2>2, <2>3 DEF EveryNth
  <2> QED BY <2>4 DEF S
<1> QED BY <1>4, <1>6, <1>10, <1>11 DEF s

\* and is refused unless n is positive.
LEMMA NoMultiples ==
    ASSUME NEW f, NEW n \in Int, n <= 0 PROVE parseField(<<Star, Slash, n>>, f) = {}
<1> DEFINE s == <<Star, Slash, n>>  X == Int \cup Symbol
<1>1. n # Comma /\ n # Slash /\ {Star, Slash} \subseteq Symbol
  BY Tokens
<1>2. Star # Comma /\ Slash # Comma /\ Star # Slash
  BY SymbolAssumption
<1>3. /\ s \in Seq(X) /\ Len(s) = 3 /\ s[1] = Star /\ s[2] = Slash /\ s[3] = n
      /\ DOMAIN s = {1, 2, 3}
  BY <1>1
<1>4. ~IsWildcard(s)
  BY DEF IsWildcard
<1> HIDE DEF s
<1>5. ~Contains(s, Comma) /\ Places(s, Slash) = {2}
  BY <1>1, <1>2, <1>3 DEF Contains, Places
<1>6. parseField(s, f) = Part(s, f)
  BY <1>3, <1>5, FieldWithoutList
<1>7. Contains(s, Slash) /\ Place(s, Slash) = 2
  BY <1>3, <1>5 DEF Contains, Place, Places
<1>8. Part(s, f) = Step(s, f)
  BY <1>4, <1>7 DEF Part
<1>9. Behind(s, Slash)[1] = n
  <2>1. Behind(s, Slash) = SubSeq(s, 3, 3)
    BY <1>3, <1>7 DEF Behind
  <2>2. SubSeq(s, 3, 3)[1] = s[3]
    <3>1. \A i \in 3..3 : s[i] \in X
      BY <1>1, <1>3
    <3> HIDE DEF X
    <3>2. \A i \in 1..(3 - 3 + 1) : SubSeq(s, 3, 3)[i] = s[3 + i - 1]
      BY <3>1, SubSeqProperties
    <3> QED BY <3>2
  <2> QED BY <1>3, <2>1, <2>2
<1>10. Step(s, f) = {}
  BY <1>9 DEF Step
<1> QED BY <1>6, <1>8, <1>10 DEF s

=============================================================================
