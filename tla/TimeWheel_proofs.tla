--------------------------- MODULE TimeWheel_proofs ---------------------------
(***************************************************************************)
(* Proofs about TimeWheel, for any number of slots and levels, any tasks   *)
(* and any times.                                                          *)
(***************************************************************************)
EXTENDS TimeWheel, WellFoundedInduction, TLAPS

-----------------------------------------------------------------------------
(***************************************************************************)
(* Arithmetic.                                                             *)
(***************************************************************************)
LEMMA Division ==
    ASSUME NEW a \in Nat, NEW b \in Nat \ {0}
    PROVE  /\ a \div b \in Nat /\ (a % b) \in 0..(b - 1)
           /\ a = b * (a \div b) + (a % b)
           /\ b * (a \div b) <= a
  OBVIOUS

LEMMA AheadType ==
    ASSUME NEW s \in SlotIndex, NEW n \in Nat
    PROVE  Ahead(s, n) \in SlotIndex
  <1>1. Size \in Nat \ {0} /\ s + n \in Nat
    BY WheelAssumption DEF SlotIndex
  <1> HIDE DEF SlotIndex
  <1>2. (s + n) % Size \in 0..(Size - 1)
    BY <1>1, Division
  <1> QED
    BY <1>2 DEF Ahead, SlotIndex

LEMMA TicksForType ==
    ASSUME NEW l \in Level, NEW d \in Int
    PROVE  TicksFor(l, d) \in Nat
  <1>1. tickDuration[l] \in Nat \ {0}
    BY WheelAssumption
  <1>2. AtLeastZero(d) + tickDuration[l] - 1 \in Nat
    BY <1>1 DEF AtLeastZero
  <1> QED
    BY <1>1, <1>2, Division DEF TicksFor

\* The ticks that Tick sees are whole, and end no later than its argument.
LEMMA TicksType ==
    ASSUME TypeOK, NEW l \in Level
    PROVE  /\ Ticks(l) \in Nat
           /\ NewTickTime(l) \in 0..MaxTime
  <1>1. tickDuration[l] \in Nat \ {0} /\ lastTick[l] \in 0..MaxTime /\ tickNow \in 0..MaxTime
        /\ MaxTime \in Nat
    BY WheelAssumption DEF TypeOK
  <1> DEFINE e == AtLeastZero(tickNow - lastTick[l])
  <1>2. e \in Nat /\ (e = 0 \/ e = tickNow - lastTick[l])
    BY <1>1 DEF AtLeastZero
  <1>3. Ticks(l) \in Nat /\ tickDuration[l] * Ticks(l) <= e
    BY <1>1, <1>2, Division DEF Ticks
  <1>4. Ticks(l) * tickDuration[l] = tickDuration[l] * Ticks(l)
        /\ tickDuration[l] * Ticks(l) \in Nat
    BY <1>1, <1>3
  <1> QED
    BY <1>1, <1>2, <1>3, <1>4 DEF NewTickTime

LEMMA AddMultiple ==
    ASSUME NEW q \in Int, NEW a \in Int, NEW b \in Nat \ {0}
    PROVE  (q * b + a) % b = a % b
  <1>1. (q * b + a) \div b = q + (a \div b)
    OBVIOUS
  <1>2. (q * b + a) % b = (q * b + a) - b * ((q * b + a) \div b)
    OBVIOUS
  <1>3. a % b = a - b * (a \div b) /\ a \div b \in Int
    OBVIOUS
  <1>4. b * (q + (a \div b)) = q * b + b * (a \div b) /\ q * b \in Int /\ b * (a \div b) \in Int
    BY <1>3
  <1> QED
    BY <1>1, <1>2, <1>3, <1>4

\* Reducing a term first makes no difference to a sum's remainder.
LEMMA RemainderOfSum ==
    ASSUME NEW a \in Nat, NEW c \in Int, NEW b \in Nat \ {0}
    PROVE  ((a % b) + c) % b = (a + c) % b
  <1>1. a \div b \in Int /\ a % b \in Int /\ a = (a \div b) * b + (a % b)
    OBVIOUS
  <1>2. (a % b) + c \in Int /\ (a \div b) * b \in Int
    BY <1>1
  <1>3. ((a \div b) * b + ((a % b) + c)) % b = ((a % b) + c) % b
    BY <1>1, <1>2, AddMultiple
  <1>4. (a \div b) * b + ((a % b) + c) = a + c
    BY <1>1, <1>2
  <1> QED
    BY <1>3, <1>4

\* Rounding up: k ticks are enough for a wait of d, and after n < k of them
\* k - n remain.
LEMMA TicksRemain ==
    ASSUME NEW l \in Level, NEW d \in Int, NEW n \in Nat
    PROVE  /\ d <= TicksFor(l, d) * tickDuration[l]
           /\ n < TicksFor(l, d) =>
                 /\ n * tickDuration[l] < d
                 /\ TicksFor(l, d - n * tickDuration[l]) = TicksFor(l, d) - n
  <1> DEFINE T == tickDuration[l]
             a == AtLeastZero(d) + T - 1
             k == TicksFor(l, d)
  <1>1. T \in Nat \ {0}
    BY WheelAssumption
  <1> HIDE DEF T
  <1>2. a \in Nat /\ k = a \div T
    BY <1>1 DEF AtLeastZero, TicksFor, T
  <1> HIDE DEF a, k
  <1>3. /\ k \in Nat /\ n * T \in Nat /\ k * T \in Nat
        /\ k * T <= a /\ a < k * T + T
    <2>1. k \in Nat /\ (a % T) \in 0..(T - 1) /\ a = T * k + (a % T)
      BY <1>1, <1>2, Division
    <2>2. T * k = k * T /\ k * T \in Nat /\ n * T \in Nat
      BY <1>1, <2>1
    <2> QED
      BY <1>1, <1>2, <2>1, <2>2
  <1>4. d <= k * T
    BY <1>1, <1>2, <1>3 DEF AtLeastZero, a
  <1>5. ASSUME n < k PROVE n * T < d /\ TicksFor(l, d - n * T) = k - n
    <2>1. n * T + T <= k * T
      <3>1. n + 1 <= k
        BY <1>3, <1>5
      <3>2. (n + 1) * T <= k * T
        BY <1>1, <1>3, <3>1
      <3>3. (n + 1) * T = n * T + T
        BY <1>1
      <3> QED
        BY <3>2, <3>3
    <2>2. d >= n * T + 1 /\ d - n * T \in Int
      BY <1>1, <1>2, <1>3, <2>1 DEF AtLeastZero, a
    <2>3. AtLeastZero(d - n * T) + T - 1 = a - n * T
      BY <1>1, <1>2, <1>3, <2>2 DEF AtLeastZero, a
    <2>4. (a - n * T) \div T = (a \div T) - n
      BY <1>1, <1>2
    <2> QED
      BY <1>1, <1>2, <1>3, <2>2, <2>3, <2>4 DEF TicksFor, T
  <1> QED
    BY <1>4, <1>5 DEF T, k

-----------------------------------------------------------------------------
(***************************************************************************)
(* The inductive invariant.                                                *)
(***************************************************************************)
Control ==
    /\ tick \in {"idle", "call", "level"} => hand = {}
    /\ tick \in {"idle", "call"} => ready = {}
    /\ tick # "idle" => tickNow <= clock
    /\ tick \notin {"idle", "call"} => lvl < depth
    /\ tick = "place" /\ hand # {} => tickNow <= placeNow
    /\ op = "add" => /\ arg \in Task /\ arg \notin Everywhere
                     /\ sweep <= depth /\ duration <= maxCoverage[Levels]
    /\ op = "remove" => arg \in ID /\ sweep < depth
    /\ \A l \in Level, s \in SlotIndex : l >= depth => slots[l][s] = {}

Inv == TypeOK /\ Control /\ MapMatchesSlots /\ SingleCopy /\ SlotMatchesTime

LEMMA InWheelDef ==
    /\ \A t : t \in InWheel <=> \E l \in Level, s \in SlotIndex : t \in slots[l][s]
    /\ \A t : t \in InWheel' <=> \E l \in Level, s \in SlotIndex : t \in slots'[l][s]
  BY DEF InWheel, InLevel

\* The slot of a task on a level.
SlotFor(l, t, last) == Ahead(current[l], TicksFor(l, t.next - last))

LEMMA SlotForType ==
    ASSUME TypeOK, NEW l \in Level, NEW t \in Task, NEW last \in Int
    PROVE  SlotFor(l, t, last) \in SlotIndex
  <1>1. t.next - last \in Int /\ current[l] \in SlotIndex
    BY WheelAssumption DEF TypeOK
  <1> QED
    BY <1>1, TicksForType, AheadType DEF SlotFor

\* Put puts its task in one slot and moves no other; only a task of the
\* same ID may go.
LEMMA PutFacts ==
    ASSUME TypeOK, MapMatchesSlots, NEW l \in Level, NEW t \in Task, NEW last \in Int,
           Put(l, t, last)
    PROVE  /\ slots' \in [Level -> [SlotIndex -> SUBSET Task]]
           /\ tasks' \in [Level -> [ID -> Entry \cup {Null}]]
           /\ MapMatchesSlots'
           /\ \A m \in Level \ {l} : slots'[m] = slots[m]
           /\ \A s \in SlotIndex : t \in slots'[l][s] <=> s = SlotFor(l, t, last)
           /\ \A s \in SlotIndex : slots'[l][s] \subseteq slots[l][s] \cup {t}
           /\ \A s \in SlotIndex : \A u \in slots[l][s] : u.id # t.id => u \in slots'[l][s]
  <1> DEFINE p == SlotFor(l, t, last)
             old == IF tasks[l][t.id] = Null THEN {} ELSE {tasks[l][t.id].task}
  <1>1. /\ slots' = [slots EXCEPT ![l] =
              [r \in SlotIndex |-> IF r = p THEN (slots[l][r] \ old) \cup {t}
                                            ELSE slots[l][r] \ old]]
        /\ tasks' = [tasks EXCEPT ![l] = [tasks[l] EXCEPT ![t.id] = [slot |-> p, task |-> t]]]
    BY DEF Put, SlotFor
  <1>2. p \in SlotIndex
    BY SlotForType
  <1> HIDE DEF p
  <1>3. /\ slots \in [Level -> [SlotIndex -> SUBSET Task]]
        /\ tasks \in [Level -> [ID -> Entry \cup {Null}]]
        /\ \A u \in Task : u.id \in ID
        /\ Null \notin Entry
    BY WheelAssumption DEF TypeOK, Entry, SlotIndex
  <1>4. /\ \A u \in Task, s \in SlotIndex :
              u \in slots[l][s] <=> tasks[l][u.id] = [slot |-> s, task |-> u]
        /\ \A i \in ID : tasks[l][i] # Null => tasks[l][i].task.id = i
    BY DEF MapMatchesSlots
  <1>5. \A s \in SlotIndex : /\ slots'[l][s] = IF s = p THEN (slots[l][s] \ old) \cup {t}
                                                        ELSE slots[l][s] \ old
                             /\ slots[l][s] \subseteq Task
    BY <1>1, <1>3
  <1>6. /\ \A m \in Level \ {l} : slots'[m] = slots[m] /\ tasks'[m] = tasks[m]
        /\ tasks'[l] = [tasks[l] EXCEPT ![t.id] = [slot |-> p, task |-> t]]
    BY <1>1, <1>3
  <1>7. slots' \in [Level -> [SlotIndex -> SUBSET Task]]
    <2>1. [r \in SlotIndex |-> IF r = p THEN (slots[l][r] \ old) \cup {t}
                                        ELSE slots[l][r] \ old] \in [SlotIndex -> SUBSET Task]
      BY <1>5
    <2> QED
      BY <1>1, <1>3, <2>1
  <1>8. tasks' \in [Level -> [ID -> Entry \cup {Null}]]
    <2>1. [slot |-> p, task |-> t] \in Entry
      BY <1>2 DEF Entry
    <2> QED
      BY <1>1, <1>3, <2>1
  <1>9. \A s \in SlotIndex : \A u \in slots[l][s] :
           /\ u.id = t.id => u \in old
           /\ u \in old => u.id = t.id
    <2> SUFFICES ASSUME NEW s \in SlotIndex, NEW u \in slots[l][s]
                 PROVE  (u.id = t.id => u \in old) /\ (u \in old => u.id = t.id)
      OBVIOUS
    <2>1. u \in Task /\ tasks[l][u.id] = [slot |-> s, task |-> u] /\ tasks[l][u.id] # Null
      <3>1. u \in Task
        BY <1>5
      <3>2. tasks[l][u.id] = [slot |-> s, task |-> u]
        BY <1>4, <3>1
      <3>3. [slot |-> s, task |-> u] \in Entry
        BY <3>1 DEF Entry
      <3> QED
        BY <1>3, <3>1, <3>2, <3>3
    <2>2. u.id = t.id => u \in old
      BY <2>1
    <2>3. u \in old => u.id = t.id
      BY <1>3, <1>4
    <2> QED
      BY <2>2, <2>3
  <1>10. \A s \in SlotIndex : t \in slots'[l][s] <=> s = p
    BY <1>5, <1>9
  <1> HIDE DEF old
  <1>11. MapMatchesSlots'
    <2>1. ASSUME NEW m \in Level \ {l}
          PROVE  /\ \A u \in Task, s \in SlotIndex :
                       u \in slots'[m][s] <=> tasks'[m][u.id] = [slot |-> s, task |-> u]
                 /\ \A i \in ID : tasks'[m][i] # Null => tasks'[m][i].task.id = i
      BY <1>6 DEF MapMatchesSlots
    <2>2. ASSUME NEW u \in Task, NEW s \in SlotIndex
          PROVE  u \in slots'[l][s] <=> tasks'[l][u.id] = [slot |-> s, task |-> u]
      <3>0. tasks[l] \in [ID -> Entry \cup {Null}] /\ u.id \in ID /\ t.id \in ID
        BY <1>3
      <3>1. CASE u.id = t.id
        <4>1. tasks'[l][u.id] = [slot |-> p, task |-> t]
          BY <1>6, <3>0, <3>1
        <4>2. u \in slots'[l][s] <=> u = t /\ s = p
          BY <1>5, <1>9, <1>10, <3>1
        <4>3. [slot |-> p, task |-> t] = [slot |-> s, task |-> u] <=> u = t /\ s = p
          OBVIOUS
        <4> QED
          BY <4>1, <4>2, <4>3
      <3>2. CASE u.id # t.id
        <4>1. tasks'[l][u.id] = tasks[l][u.id]
          BY <1>6, <3>0, <3>2
        <4>2. u \in slots'[l][s] <=> u \in slots[l][s]
          BY <1>5, <1>9, <3>2
        <4> QED
          BY <1>4, <4>1, <4>2
      <3> QED
        BY <3>1, <3>2
    <2>3. ASSUME NEW i \in ID, tasks'[l][i] # Null
          PROVE  tasks'[l][i].task.id = i
      <3>0. tasks[l] \in [ID -> Entry \cup {Null}] /\ t.id \in ID
        BY <1>3
      <3>1. CASE i = t.id
        BY <1>6, <3>0, <3>1
      <3>2. CASE i # t.id
        BY <1>4, <1>6, <2>3, <3>0, <3>2
      <3> QED
        BY <3>1, <3>2
    <2> QED
      BY <2>1, <2>2, <2>3 DEF MapMatchesSlots
  <1>12. \A s \in SlotIndex : \A u \in slots[l][s] : u.id # t.id => u \in slots'[l][s]
    BY <1>5, <1>9
  <1>13. \A s \in SlotIndex : slots'[l][s] \subseteq slots[l][s] \cup {t}
    BY <1>5
  <1> QED
    BY <1>6, <1>7, <1>8, <1>10, <1>11, <1>12, <1>13 DEF p

\* Without takes out the task of one ID and moves no other.
LEMMA WithoutFacts ==
    ASSUME TypeOK, MapMatchesSlots, NEW l \in Level, NEW i \in ID, Without(l, i)
    PROVE  /\ slots' \in [Level -> [SlotIndex -> SUBSET Task]]
           /\ tasks' \in [Level -> [ID -> Entry \cup {Null}]]
           /\ MapMatchesSlots'
           /\ \A m \in Level, s \in SlotIndex : slots'[m][s] \subseteq slots[m][s]
           /\ \A m \in Level, s \in SlotIndex : \A u \in slots[m][s] :
                 u.id # i => u \in slots'[m][s]
  <1>1. /\ slots \in [Level -> [SlotIndex -> SUBSET Task]]
        /\ tasks \in [Level -> [ID -> Entry \cup {Null}]]
        /\ \A u \in Task : u.id \in ID
        /\ Null \notin Entry
    BY WheelAssumption DEF TypeOK, Entry, SlotIndex
  <1>2. /\ \A u \in Task, s \in SlotIndex :
              u \in slots[l][s] <=> tasks[l][u.id] = [slot |-> s, task |-> u]
        /\ \A x \in ID : tasks[l][x] # Null => tasks[l][x].task.id = x
    BY DEF MapMatchesSlots
  <1>3. tasks' = [tasks EXCEPT ![l] = [tasks[l] EXCEPT ![i] = Null]]
    BY DEF Without
  <1>4. tasks' \in [Level -> [ID -> Entry \cup {Null}]]
    BY <1>1, <1>3
  <1>5. /\ \A m \in Level \ {l} : slots'[m] = slots[m] /\ tasks'[m] = tasks[m]
        /\ tasks'[l] = [tasks[l] EXCEPT ![i] = Null]
    BY <1>1, <1>3 DEF Without
  <1>6. ASSUME NEW u \in Task, NEW s \in SlotIndex
        PROVE  u \in slots[l][s] => u # Null /\ tasks[l][u.id] # Null
    <2>1. [slot |-> s, task |-> u] \in Entry
      BY DEF Entry
    <2> QED
      BY <1>1, <1>2, <2>1, WheelAssumption
  <1>7. /\ slots'[l] \in [SlotIndex -> SUBSET Task]
        /\ \A s \in SlotIndex : slots'[l][s] = {u \in slots[l][s] : u.id # i}
    <2>1. CASE tasks[l][i] = Null
      <3>1. slots'[l] = slots[l]
        BY <1>1, <2>1 DEF Without
      <3>2. \A s \in SlotIndex : \A u \in slots[l][s] : u \in Task /\ u.id # i
        BY <1>1, <1>6, <2>1
      <3> QED
        BY <1>1, <3>1, <3>2
    <2>2. CASE tasks[l][i] # Null
      <3>1. PICK r \in SlotIndex, v \in Task : tasks[l][i] = [slot |-> r, task |-> v]
        BY <1>1, <2>2 DEF Entry
      <3>2. slots'[l] = [s \in SlotIndex |-> IF s = r THEN slots[l][s] \ {v} ELSE slots[l][s]]
        BY <1>1, <2>2, <3>1 DEF Without
      <3>3. v.id = i
        BY <1>2, <2>2, <3>1
      <3>4. ASSUME NEW s \in SlotIndex, NEW u \in slots[l][s], u.id = i
            PROVE  s = r /\ u = v
        <4>1. u \in Task
          BY <1>1
        <4>2. [slot |-> s, task |-> u] = [slot |-> r, task |-> v]
          BY <1>2, <3>1, <3>4, <4>1
        <4> QED
          BY <4>2
      <3> QED
        BY <1>1, <3>2, <3>3, <3>4
    <2> QED
      BY <2>1, <2>2
  <1>8. slots' \in [Level -> [SlotIndex -> SUBSET Task]]
    <2>1. CASE tasks[l][i] = Null
      BY <1>1, <2>1 DEF Without
    <2>2. CASE tasks[l][i] # Null
      <3>1. slots' = [slots EXCEPT ![l] = slots'[l]]
        BY <1>1, <2>2 DEF Without
      <3> QED
        BY <1>1, <1>7, <3>1
    <2> QED
      BY <2>1, <2>2
  <1>9. MapMatchesSlots'
    <2>1. ASSUME NEW m \in Level \ {l}
          PROVE  /\ \A u \in Task, s \in SlotIndex :
                       u \in slots'[m][s] <=> tasks'[m][u.id] = [slot |-> s, task |-> u]
                 /\ \A x \in ID : tasks'[m][x] # Null => tasks'[m][x].task.id = x
      BY <1>5 DEF MapMatchesSlots
    <2>2. ASSUME NEW u \in Task, NEW s \in SlotIndex
          PROVE  u \in slots'[l][s] <=> tasks'[l][u.id] = [slot |-> s, task |-> u]
      <3>1. CASE u.id = i
        <4>1. [slot |-> s, task |-> u] \in Entry
          BY DEF Entry
        <4> QED
          BY <1>1, <1>5, <1>7, <3>1, <4>1
      <3>2. CASE u.id # i
        BY <1>1, <1>2, <1>5, <1>7, <3>2
      <3> QED
        BY <3>1, <3>2
    <2>3. \A x \in ID : tasks'[l][x] # Null => tasks'[l][x].task.id = x
      BY <1>1, <1>2, <1>5
    <2> QED
      BY <2>1, <2>2, <2>3 DEF MapMatchesSlots
  <1> QED
    BY <1>4, <1>5, <1>7, <1>8, <1>9

\* A step that takes tasks out of slots and moves nothing.
LEMMA Shrinking ==
    ASSUME SingleCopy, SlotMatchesTime,
           \A l \in Level, s \in SlotIndex : slots'[l][s] \subseteq slots[l][s],
           UNCHANGED <<current, lastTick, hand, ready>>
    PROVE  SingleCopy' /\ SlotMatchesTime' /\ Everywhere' \subseteq Everywhere
  <1>1. InWheel' \subseteq InWheel
    BY InWheelDef
  <1>2. SingleCopy'
    BY <1>1, Zenon DEF SingleCopy
  <1>3. SlotMatchesTime'
    BY DEF SlotMatchesTime, TicksFor
  <1> QED
    BY <1>1, <1>2, <1>3 DEF Everywhere

\* A step that puts one task, in no slot before, into one.
LEMMA Putting ==
    ASSUME TypeOK, MapMatchesSlots, SingleCopy, SlotMatchesTime,
           NEW l \in Level, NEW t \in Task, Put(l, t, lastTick'[l]),
           lastTick' \in [Level -> 0..MaxTime], UNCHANGED current,
           \A m \in Level : lastTick'[m] = lastTick[m] \/ \A s \in SlotIndex : slots[m][s] = {},
           t \notin InWheel, t \notin hand', t \notin ready',
           hand' \subseteq hand, ready' \subseteq ready
    PROVE  SingleCopy' /\ SlotMatchesTime' /\ InWheel' \subseteq InWheel \cup {t}
  <1> DEFINE p == SlotFor(l, t, lastTick'[l])
  <1>1. lastTick'[l] \in Int
    BY WheelAssumption
  <1>2. /\ \A m \in Level \ {l} : slots'[m] = slots[m]
        /\ \A s \in SlotIndex : t \in slots'[l][s] <=> s = p
        /\ \A s \in SlotIndex : slots'[l][s] \subseteq slots[l][s] \cup {t}
    BY <1>1, PutFacts
  <1>3. \A m \in Level, s \in SlotIndex : t \notin slots[m][s]
    BY InWheelDef
  <1>4. \A m \in Level, s \in SlotIndex : \A u \in slots'[m][s] :
           \/ u \in slots[m][s] /\ u # t
           \/ u = t /\ m = l /\ s = p
    BY <1>2, <1>3
  <1>5. InWheel' \subseteq InWheel \cup {t}
    BY <1>4, InWheelDef
  <1>6. SingleCopy'
    <2> SUFFICES ASSUME NEW u \in Task
                 PROVE  /\ \A k, m \in Level : \A r, s \in SlotIndex :
                              u \in slots'[k][r] /\ u \in slots'[m][s] => k = m /\ r = s
                        /\ u \in InWheel' => u \notin hand' /\ u \notin ready'
                        /\ u \notin hand' \/ u \notin ready'
      BY DEF SingleCopy
    <2>1. /\ \A k, m \in Level : \A r, s \in SlotIndex :
                u \in slots[k][r] /\ u \in slots[m][s] => k = m /\ r = s
          /\ u \in InWheel => u \notin hand /\ u \notin ready
          /\ u \notin hand \/ u \notin ready
      BY DEF SingleCopy
    <2> QED
      BY <1>4, <1>5, <2>1
  <1>7. SlotMatchesTime'
    <2> SUFFICES ASSUME NEW m \in Level, NEW s \in SlotIndex, NEW u \in slots'[m][s]
                 PROVE  s = (current[m] + TicksFor(m, u.next - lastTick'[m])) % Size
      BY DEF SlotMatchesTime, TicksFor
    <2>1. CASE u = t /\ m = l /\ s = p
      BY <2>1 DEF SlotFor, Ahead
    <2>2. CASE u \in slots[m][s]
      BY <2>2 DEF SlotMatchesTime
    <2> QED
      BY <1>4, <2>1, <2>2
  <1> QED
    BY <1>5, <1>6, <1>7

-----------------------------------------------------------------------------
LEMMA TimePassesStep == Inv /\ TimePasses => Inv'
  <1> SUFFICES ASSUME Inv, TimePasses PROVE Inv'
    OBVIOUS
  <1>1. TypeOK /\ Control /\ MapMatchesSlots /\ SingleCopy /\ SlotMatchesTime
    BY DEF Inv
  <1>2. clock' \in 0..MaxTime /\ UNCHANGED <<wheelVars, tickVars, clientVars, fresh>>
    BY <1>1, WheelAssumption DEF TimePasses, TypeOK
  <1>3. TypeOK'
    BY <1>1, <1>2 DEF TypeOK, wheelVars, tickVars, clientVars
  <1>4. Control' /\ MapMatchesSlots'
    <2>1. tickNow <= clock => tickNow' <= clock'
      BY <1>1, <1>2, WheelAssumption DEF TimePasses, TypeOK, tickVars
    <2>2. Everywhere' = Everywhere
      BY <1>2 DEF Everywhere, InWheel, InLevel, wheelVars, tickVars
    <2> QED
      BY <1>1, <1>2, <2>1, <2>2 DEF Control, MapMatchesSlots, wheelVars, tickVars, clientVars
  <1>5. SingleCopy' /\ SlotMatchesTime'
    BY <1>1, <1>2, Shrinking DEF wheelVars, tickVars
  <1> QED
    BY <1>3, <1>4, <1>5 DEF Inv

LEMMA TickCallStep == Inv /\ TickCall => Inv'
  <1> SUFFICES ASSUME Inv, TickCall PROVE Inv'
    OBVIOUS
  <1>1. TypeOK /\ Control /\ MapMatchesSlots /\ SingleCopy /\ SlotMatchesTime
    BY DEF Inv
  <1>2. /\ tick = "idle" /\ tick' = "call" /\ tickNow' = clock
        /\ UNCHANGED <<clock, depth, current, lastTick, slots, tasks, lvl, hand, placeNow, ready,
                       op, arg, duration, sweep, fresh>>
    BY DEF TickCall, wheelVars, clientVars
  <1>3. TypeOK'
    BY <1>1, <1>2 DEF TypeOK
  <1>4. Control' /\ MapMatchesSlots'
    <2>1. tickNow' <= clock'
      BY <1>1, <1>2, WheelAssumption DEF TypeOK
    <2>2. Everywhere' = Everywhere
      BY <1>2 DEF Everywhere, InWheel, InLevel
    <2> QED
      BY <1>1, <1>2, <2>1, <2>2 DEF Control, MapMatchesSlots
  <1>5. SingleCopy' /\ SlotMatchesTime'
    BY <1>1, <1>2, Shrinking
  <1> QED
    BY <1>3, <1>4, <1>5 DEF Inv

LEMMA TickReadStep == Inv /\ TickRead => Inv'
  <1> SUFFICES ASSUME Inv, TickRead PROVE Inv'
    OBVIOUS
  <1>1. TypeOK /\ Control /\ MapMatchesSlots /\ SingleCopy /\ SlotMatchesTime
    BY DEF Inv
  <1>2. /\ tick = "read" /\ tick' = "place" /\ placeNow' = clock
        /\ UNCHANGED <<clock, depth, current, lastTick, slots, tasks, tickNow, lvl, hand, ready,
                       op, arg, duration, sweep, fresh>>
    BY DEF TickRead, wheelVars, clientVars
  <1>3. TypeOK'
    BY <1>1, <1>2 DEF TypeOK
  <1>4. Control' /\ MapMatchesSlots'
    <2>1. tickNow' <= placeNow'
      BY <1>1, <1>2 DEF Control
    <2>2. Everywhere' = Everywhere
      BY <1>2 DEF Everywhere, InWheel, InLevel
    <2> QED
      BY <1>1, <1>2, <2>1, <2>2 DEF Control, MapMatchesSlots
  <1>5. SingleCopy' /\ SlotMatchesTime'
    BY <1>1, <1>2, Shrinking
  <1> QED
    BY <1>3, <1>4, <1>5 DEF Inv

LEMMA TickBeginStep == Inv /\ TickBegin => Inv'
  <1> SUFFICES ASSUME Inv, TickBegin PROVE Inv'
    OBVIOUS
  <1>1. TypeOK /\ Control /\ MapMatchesSlots /\ SingleCopy /\ SlotMatchesTime
    BY DEF Inv
  <1>2. /\ tick = "call" /\ tick' = "level" /\ lvl' = depth - 1
        /\ UNCHANGED <<clock, depth, current, lastTick, slots, tasks, tickNow, hand, placeNow,
                       ready, op, arg, duration, sweep, fresh>>
    BY DEF TickBegin, wheelVars, clientVars
  <1>3. lvl' \in Level /\ lvl' < depth'
    BY <1>1, <1>2, WheelAssumption DEF TypeOK, Level
  <1>4. TypeOK'
    BY <1>1, <1>2, <1>3 DEF TypeOK
  <1>5. Control' /\ MapMatchesSlots'
    <2>1. tickNow' <= clock'
      BY <1>1, <1>2 DEF Control
    <2>2. Everywhere' = Everywhere
      BY <1>2 DEF Everywhere, InWheel, InLevel
    <2> QED
      BY <1>1, <1>2, <1>3, <2>1, <2>2 DEF Control, MapMatchesSlots
  <1>6. SingleCopy' /\ SlotMatchesTime'
    BY <1>1, <1>2, Shrinking
  <1> QED
    BY <1>4, <1>5, <1>6 DEF Inv

LEMMA TickDownStep == Inv /\ TickDown => Inv'
  <1> SUFFICES ASSUME Inv, TickDown PROVE Inv'
    OBVIOUS
  <1>1. TypeOK /\ Control /\ MapMatchesSlots /\ SingleCopy /\ SlotMatchesTime
    BY DEF Inv
  <1>2. /\ tick = "place" /\ tick' = "level" /\ lvl > 0 /\ lvl' = lvl - 1 /\ hand = {}
        /\ placeNow' = 0
        /\ UNCHANGED <<clock, depth, current, lastTick, slots, tasks, tickNow, hand, ready,
                       op, arg, duration, sweep, fresh>>
    BY DEF TickDown, wheelVars, clientVars
  <1>3. lvl' \in Level /\ lvl' < depth' /\ 0 \in 0..MaxTime
    BY <1>1, <1>2, WheelAssumption DEF TypeOK, Level, Control
  <1>4. TypeOK'
    BY <1>1, <1>2, <1>3 DEF TypeOK
  <1>5. Control' /\ MapMatchesSlots'
    BY <1>1, <1>2, <1>3 DEF Control, MapMatchesSlots, Everywhere, InWheel, InLevel
  <1>6. SingleCopy' /\ SlotMatchesTime'
    BY <1>1, <1>2, Shrinking
  <1> QED
    BY <1>4, <1>5, <1>6 DEF Inv

LEMMA TickReturnStep == Inv /\ TickReturn => Inv'
  <1> SUFFICES ASSUME Inv, TickReturn PROVE Inv'
    OBVIOUS
  <1>1. TypeOK /\ Control /\ MapMatchesSlots /\ SingleCopy /\ SlotMatchesTime
    BY DEF Inv
  <1>2. /\ tick' = "idle" /\ hand = {} /\ placeNow' = 0 /\ tickNow' = 0 /\ ready' = {}
        /\ fresh' = {}
        /\ UNCHANGED <<clock, depth, current, lastTick, slots, tasks, lvl, hand,
                       op, arg, duration, sweep>>
    BY DEF TickReturn, wheelVars, clientVars
  <1>3. 0 \in 0..MaxTime
    BY WheelAssumption
  <1>4. TypeOK'
    BY <1>1, <1>2, <1>3 DEF TypeOK
  <1>5. Control' /\ MapMatchesSlots'
    BY <1>1, <1>2 DEF Control, MapMatchesSlots, Everywhere, InWheel, InLevel
  <1>6. SlotMatchesTime'
    BY <1>1, <1>2 DEF SlotMatchesTime, TicksFor
  <1>7. SingleCopy'
    <2>1. InWheel' = InWheel
      BY <1>2 DEF InWheel, InLevel
    <2> QED
      BY <1>1, <1>2, <2>1 DEF SingleCopy
  <1> QED
    BY <1>4, <1>5, <1>6, <1>7 DEF Inv

LEMMA AddBeginStep == ASSUME Inv, NEW t \in Task, AddBegin(t) PROVE Inv'
  <1>1. TypeOK /\ Control /\ MapMatchesSlots /\ SingleCopy /\ SlotMatchesTime
    BY DEF Inv
  <1>2. /\ op' = "add" /\ arg' = t /\ t \notin Everywhere /\ sweep' = 0
        /\ duration' = AtLeastZero(t.next - clock) /\ duration' <= maxCoverage[Levels]
        /\ UNCHANGED <<clock, depth, current, lastTick, slots, tasks, tick, tickNow, lvl,
                       hand, placeNow, ready, fresh>>
    BY DEF AddBegin, wheelVars, tickVars
  <1>3. duration' \in Nat /\ 0 \in 0..Levels /\ 0 <= depth
    BY <1>1, <1>2, WheelAssumption DEF TypeOK, AtLeastZero
  <1>4. TypeOK'
    BY <1>1, <1>2, <1>3 DEF TypeOK
  <1>5. Control' /\ MapMatchesSlots'
    BY <1>1, <1>2, <1>3 DEF Control, MapMatchesSlots, Everywhere, InWheel, InLevel
  <1>6. SingleCopy' /\ SlotMatchesTime'
    BY <1>1, <1>2, Shrinking
  <1> QED
    BY <1>4, <1>5, <1>6 DEF Inv

LEMMA RemoveBeginStep == ASSUME Inv, NEW i \in ID, RemoveBegin(i) PROVE Inv'
  <1>1. TypeOK /\ Control /\ MapMatchesSlots /\ SingleCopy /\ SlotMatchesTime
    BY DEF Inv
  <1>2. /\ op' = "remove" /\ arg' = i /\ sweep' = 0
        /\ UNCHANGED <<clock, depth, current, lastTick, slots, tasks, tick, tickNow, lvl,
                       hand, placeNow, ready, duration, fresh>>
    BY DEF RemoveBegin, wheelVars, tickVars
  <1>3. 0 \in 0..Levels /\ 0 < depth
    BY <1>1, WheelAssumption DEF TypeOK
  <1>4. TypeOK'
    BY <1>1, <1>2, <1>3 DEF TypeOK
  <1>5. Control' /\ MapMatchesSlots'
    BY <1>1, <1>2, <1>3 DEF Control, MapMatchesSlots, Everywhere, InWheel, InLevel
  <1>6. SingleCopy' /\ SlotMatchesTime'
    BY <1>1, <1>2, Shrinking
  <1> QED
    BY <1>4, <1>5, <1>6 DEF Inv

LEMMA AddSweepStep == Inv /\ AddSweep => Inv'
  <1> SUFFICES ASSUME Inv, AddSweep PROVE Inv'
    OBVIOUS
  <1>1. TypeOK /\ Control /\ MapMatchesSlots /\ SingleCopy /\ SlotMatchesTime
    BY DEF Inv
  <1>2. /\ op = "add" /\ sweep < depth /\ Without(sweep, arg.id) /\ sweep' = sweep + 1
        /\ UNCHANGED <<clock, depth, current, lastTick, tick, tickNow, lvl, hand, placeNow,
                       ready, op, arg, duration, fresh>>
    BY DEF AddSweep, tickVars
  <1>3. /\ arg \in Task /\ arg.id \in ID /\ sweep \in Level
        /\ sweep' \in 0..Levels /\ sweep' <= depth'
    BY <1>1, <1>2, WheelAssumption DEF TypeOK, Level, Control
  <1>4. /\ slots' \in [Level -> [SlotIndex -> SUBSET Task]]
        /\ tasks' \in [Level -> [ID -> Entry \cup {Null}]]
        /\ MapMatchesSlots'
        /\ \A m \in Level, s \in SlotIndex : slots'[m][s] \subseteq slots[m][s]
    BY <1>1, <1>2, <1>3, WithoutFacts
  <1>5. TypeOK'
    BY <1>1, <1>2, <1>3, <1>4 DEF TypeOK
  <1>6. SingleCopy' /\ SlotMatchesTime' /\ Everywhere' \subseteq Everywhere
    BY <1>1, <1>2, <1>4, Shrinking
  <1>7. Control'
    BY <1>1, <1>2, <1>3, <1>4, <1>6 DEF Control
  <1> QED
    BY <1>4, <1>5, <1>6, <1>7 DEF Inv

LEMMA RemoveSweepStep == Inv /\ RemoveSweep => Inv'
  <1> SUFFICES ASSUME Inv, RemoveSweep PROVE Inv'
    OBVIOUS
  <1>1. TypeOK /\ Control /\ MapMatchesSlots /\ SingleCopy /\ SlotMatchesTime
    BY DEF Inv
  <1>2. /\ op = "remove" /\ Without(sweep, arg)
        /\ UNCHANGED <<clock, depth, current, lastTick, tick, tickNow, lvl, hand, placeNow,
                       ready, fresh>>
        /\ \/ op' = "idle" /\ arg' = Null /\ duration' = 0 /\ sweep' = 0
           \/ sweep + 1 # depth /\ sweep' = sweep + 1 /\ UNCHANGED <<op, arg, duration>>
    BY DEF RemoveSweep, ClientDone, tickVars
  <1>3. /\ arg \in ID /\ sweep \in Level /\ sweep < depth /\ depth \in 1..Levels /\ Levels \in Nat
    BY <1>1, <1>2, WheelAssumption DEF TypeOK, Level, Control
  <1>4. sweep' \in 0..Levels /\ (op' = "remove" => sweep' < depth)
    BY <1>2, <1>3 DEF Level
  <1>5. /\ slots' \in [Level -> [SlotIndex -> SUBSET Task]]
        /\ tasks' \in [Level -> [ID -> Entry \cup {Null}]]
        /\ MapMatchesSlots'
        /\ \A m \in Level, s \in SlotIndex : slots'[m][s] \subseteq slots[m][s]
    BY <1>1, <1>2, <1>3, WithoutFacts
  <1>6. TypeOK'
    BY <1>1, <1>2, <1>4, <1>5 DEF TypeOK
  <1>7. SingleCopy' /\ SlotMatchesTime'
    BY <1>1, <1>2, <1>5, Shrinking
  <1>8. Control'
    BY <1>1, <1>2, <1>3, <1>4, <1>5 DEF Control
  <1> QED
    BY <1>5, <1>6, <1>7, <1>8 DEF Inv

LEMMA RedistributeStep == ASSUME Inv, NEW t \in hand, Redistribute(t) PROVE Inv'
  <1>1. TypeOK /\ Control /\ MapMatchesSlots /\ SingleCopy /\ SlotMatchesTime
    BY DEF Inv
  <1>2. /\ tick = "place" /\ hand' = hand \ {t}
        /\ UNCHANGED <<clock, depth, current, lastTick, tick, tickNow, lvl, placeNow,
                       op, arg, duration, sweep, fresh>>
    BY DEF Redistribute, clientVars
  <1>3. t \in Task /\ lvl \in Level /\ lvl < depth /\ depth \in 1..Levels /\ Levels \in Nat
    BY <1>1, <1>2, WheelAssumption DEF TypeOK, Control
  <1>4. t \notin InWheel /\ t \notin ready
    BY <1>1, <1>3 DEF SingleCopy
  <1>5. CASE lvl = 0 /\ t.next <= placeNow
    <2>1. ready' = ready \cup {t} /\ UNCHANGED <<slots, tasks>>
      BY <1>5 DEF Redistribute
    <2>2. InWheel' = InWheel
      BY <2>1 DEF InWheel, InLevel
    <2>3. Everywhere' = Everywhere
      BY <1>2, <2>1, <2>2 DEF Everywhere
    <2>4. TypeOK'
      BY <1>1, <1>2, <1>3, <2>1 DEF TypeOK
    <2>5. Control' /\ MapMatchesSlots' /\ SlotMatchesTime'
      BY <1>1, <1>2, <2>1, <2>3 DEF Control, MapMatchesSlots, SlotMatchesTime, TicksFor
    <2>6. SingleCopy'
      BY <1>1, <1>2, <1>4, <2>1, <2>2 DEF SingleCopy
    <2> QED
      BY <2>4, <2>5, <2>6 DEF Inv
  <1>6. CASE ~(lvl = 0 /\ t.next <= placeNow)
    <2> DEFINE l == IF lvl = 0 THEN 0 ELSE lvl - 1
    <2>1. l \in Level /\ l < depth
      BY <1>3 DEF Level
    <2>2. Put(l, t, lastTick[l]) /\ UNCHANGED ready
      BY <1>6 DEF Redistribute
    <2> HIDE DEF l
    <2>3. lastTick[l] \in Int /\ lastTick' \in [Level -> 0..MaxTime]
      BY <1>1, <1>2, <2>1, WheelAssumption DEF TypeOK
    <2>4. /\ slots' \in [Level -> [SlotIndex -> SUBSET Task]]
          /\ tasks' \in [Level -> [ID -> Entry \cup {Null}]]
          /\ MapMatchesSlots'
          /\ \A m \in Level \ {l} : slots'[m] = slots[m]
      BY <1>1, <1>3, <2>1, <2>2, <2>3, PutFacts
    <2>5. Put(l, t, lastTick'[l])
      BY <1>2, <2>2
    <2>6. t \notin hand' /\ t \notin ready' /\ hand' \subseteq hand /\ ready' \subseteq ready
      BY <1>2, <1>4, <2>2
    <2>7. SingleCopy' /\ SlotMatchesTime' /\ InWheel' \subseteq InWheel \cup {t}
      BY <1>1, <1>2, <1>3, <1>4, <2>1, <2>3, <2>5, <2>6, Putting
    <2>8. Everywhere' \subseteq Everywhere
      BY <2>6, <2>7 DEF Everywhere
    <2>9. TypeOK'
      BY <1>1, <1>2, <2>2, <2>4 DEF TypeOK
    <2>10. Control'
      <3>1. ASSUME NEW m \in Level, NEW s \in SlotIndex, m >= depth'
            PROVE  slots'[m][s] = {}
        <4>1. m # l /\ m >= depth
          BY <1>2, <1>3, <2>1, <3>1 DEF Level
        <4> QED
          BY <1>1, <2>4, <4>1 DEF Control
      <3> QED
        BY <1>1, <1>2, <2>2, <2>8, <3>1 DEF Control
    <2> QED
      BY <2>4, <2>7, <2>9, <2>10 DEF Inv
  <1> QED
    BY <1>5, <1>6

\* A set of numbers has a smallest one.
LEMMA Smallest ==
    ASSUME NEW T, T \subseteq Nat, T # {}
    PROVE  \E x \in T : \A y \in T : x <= y
  <1> DEFINE R == OpToRel(<, Nat)
  <1>1. IsWellFoundedOn(R, Nat)
    BY NatLessThanWellFounded
  <1>2. \A x, y \in Nat : x < y => <<x, y>> \in R
    BY DEF OpToRel
  <1> HIDE DEF R
  <1>3. \E x \in T : \A y \in T : ~ (<<y, x>> \in R)
    BY <1>1, WFMin
  <1>4. PICK x \in T : \A y \in T : ~ (<<y, x>> \in R)
    BY <1>3
  <1>5. ASSUME NEW y \in T PROVE x <= y
    <2>1. x \in Nat /\ y \in Nat
      OBVIOUS
    <2>2. ~(y < x)
      BY <1>2, <1>4, <2>1, Zenon
    <2> QED
      BY <2>1, <2>2
  <1> QED
    BY <1>5

\* The expansion ends before the bound, and never takes a level away.
LEMMA ExpandedType ==
    ASSUME TypeOK, NEW d, d <= maxCoverage[Levels]
    PROVE  Expanded(d) \in depth..Levels
  <1> DEFINE Enough == {n \in depth..Levels : d <= maxCoverage[n]}
  <1>1. depth \in 1..Levels /\ Levels \in Nat
    BY WheelAssumption DEF TypeOK
  <1>2. Levels \in Enough /\ Enough \subseteq Nat
    BY <1>1
  <1> HIDE DEF Enough
  <1>3. PICK n \in Enough : \A m \in Enough : n <= m
    BY <1>2, Smallest
  <1> USE DEF Enough
  <1>4. n \in depth..Levels /\ d <= maxCoverage[n]
    BY <1>3
  <1>5. ASSUME NEW m \in depth..(n - 1), d <= maxCoverage[m] PROVE FALSE
    <2>1. m \in Enough /\ m < n
      BY <1>1, <1>4, <1>5
    <2> QED
      BY <1>1, <1>3, <1>4, <2>1
  <1>6. \E x \in depth..Levels : /\ d <= maxCoverage[x]
                                 /\ \A m \in depth..(x - 1) : ~(d <= maxCoverage[m])
    BY <1>4, <1>5
  <1> QED
    BY <1>6 DEF Expanded

LEMMA AddPlaceStep == Inv /\ AddPlace => Inv'
  <1> SUFFICES ASSUME Inv, AddPlace PROVE Inv'
    OBVIOUS
  <1>1. TypeOK /\ Control /\ MapMatchesSlots /\ SingleCopy /\ SlotMatchesTime
    BY DEF Inv
  <1>2. /\ op = "add" /\ depth' = Expanded(duration)
        /\ lastTick' = [l \in Level |-> IF l \in depth..(depth' - 1) THEN clock ELSE lastTick[l]]
        /\ op' = "idle" /\ arg' = Null /\ duration' = 0 /\ sweep' = 0
        /\ UNCHANGED <<clock, current, tick, tickNow, lvl, hand, placeNow, ready>>
    BY DEF AddPlace, ClientDone, tickVars
  <1>3. /\ arg \in Task /\ arg \notin Everywhere /\ depth' \in depth..Levels
        /\ depth \in 1..Levels /\ Levels \in Nat
    BY <1>1, <1>2, ExpandedType, WheelAssumption DEF Control, TypeOK
  <1>4. /\ lastTick' \in [Level -> 0..MaxTime]
        /\ \A m \in Level : lastTick'[m] = lastTick[m] \/ \A s \in SlotIndex : slots[m][s] = {}
    <2>1. \A m \in Level : m \in depth..(depth' - 1) => \A s \in SlotIndex : slots[m][s] = {}
      BY <1>1, <1>3 DEF Control
    <2> QED
      BY <1>1, <1>2, <2>1 DEF TypeOK
  <1>5. depth' \in 1..Levels /\ 0 \in 0..Levels /\ 0 \in Nat
    BY <1>3
  <1>6. CASE /\ \E l \in 0..(depth' - 1) : Put(l, arg, lastTick'[l])
             /\ fresh' \subseteq fresh \cup {arg}
    <2> PICK n \in 1..Levels : depth' = n
      BY <1>5
    <2>1. PICK l \in 0..(n - 1) : Put(l, arg, lastTick'[l])
      BY <1>6
    <2>2. l \in Level /\ l < depth'
      BY <1>3 DEF Level
    <2>3. lastTick'[l] \in Int
      BY <1>4, <2>2, WheelAssumption
    <2>4. /\ slots' \in [Level -> [SlotIndex -> SUBSET Task]]
          /\ tasks' \in [Level -> [ID -> Entry \cup {Null}]]
          /\ MapMatchesSlots'
          /\ \A m \in Level \ {l} : slots'[m] = slots[m]
      BY <1>1, <1>3, <2>1, <2>2, <2>3, PutFacts
    <2>5. /\ arg \notin InWheel /\ arg \notin hand' /\ arg \notin ready'
          /\ hand' \subseteq hand /\ ready' \subseteq ready
      BY <1>2, <1>3 DEF Everywhere
    <2>6. SingleCopy' /\ SlotMatchesTime'
      BY <1>1, <1>2, <1>3, <1>4, <2>1, <2>2, <2>5, Putting
    <2>7. TypeOK'
      BY <1>1, <1>2, <1>3, <1>4, <1>5, <1>6, <2>4 DEF TypeOK
    <2>8. Control'
      <3>1. ASSUME NEW m \in Level, NEW s \in SlotIndex, m >= depth'
            PROVE  slots'[m][s] = {}
        <4>1. m # l /\ m >= depth
          BY <1>3, <2>2, <3>1 DEF Level
        <4>2. slots[m][s] = {}
          BY <1>1, <4>1 DEF Control
        <4> QED
          BY <2>4, <4>1, <4>2
      <3>2. /\ tick' # "idle" => tickNow' <= clock'
            /\ tick' \notin {"idle", "call"} => lvl' < depth'
        BY <1>1, <1>2, <1>3 DEF Control, TypeOK, Level
      <3>3. op' # "add" /\ op' # "remove"
        BY <1>2
      <3> QED
        BY <1>1, <1>2, <3>1, <3>2, <3>3 DEF Control
    <2> QED
      BY <2>4, <2>6, <2>7, <2>8 DEF Inv
  <1>7. CASE UNCHANGED <<slots, tasks, fresh>>
    <2>1. TypeOK'
      BY <1>1, <1>2, <1>4, <1>5, <1>7 DEF TypeOK
    <2>2. MapMatchesSlots'
      BY <1>1, <1>7 DEF MapMatchesSlots
    <2>3. SingleCopy'
      <3>1. InWheel' = InWheel
        BY <1>7 DEF InWheel, InLevel
      <3> QED
        BY <1>1, <1>2, <1>7, <3>1 DEF SingleCopy
    <2>4. SlotMatchesTime'
      BY <1>1, <1>2, <1>4, <1>7 DEF SlotMatchesTime, TicksFor
    <2>5. Control'
      BY <1>1, <1>2, <1>3, <1>7 DEF Control, TypeOK, Level
    <2> QED
      BY <2>1, <2>2, <2>3, <2>4, <2>5 DEF Inv
  <1> QED
    BY <1>6, <1>7 DEF AddPlace

\* A task that Tick leaves in its slot is not due by whole ticks: its turn
\* comes after the ticks that have elapsed, or it is in the current slot
\* and its time has not come.
LEMMA Staying ==
    ASSUME TypeOK, SlotMatchesTime, NEW l \in Level, NEW s \in SlotIndex,
           NEW t \in slots[l][s], t \notin Taken(l)
    PROVE  \/ Ticks(l) < TicksFor(l, t.next - lastTick[l])
           \/ Ticks(l) = 0 /\ t.next > tickNow
  <1> DEFINE n == Ticks(l)
             L == lastTick[l]
             T == tickDuration[l]
             c == current[l]
             k == TicksFor(l, t.next - L)
  <1>1. /\ T \in Nat \ {0} /\ L \in Nat /\ tickNow \in Nat /\ c \in SlotIndex
        /\ t.next \in Nat /\ Size \in Nat \ {0}
    BY WheelAssumption DEF TypeOK
  <1>2. n \in Nat /\ T * n <= AtLeastZero(tickNow - L)
    <2>1. AtLeastZero(tickNow - L) \in Nat
      BY <1>1 DEF AtLeastZero
    <2> QED
      BY <1>1, <2>1, Division DEF Ticks
  <1>3. k \in Nat
    BY <1>1, TicksForType
  <1>4. s = Ahead(c, k)
    BY DEF SlotMatchesTime, Ahead
  <1>5. t.next - L <= k * T
    BY <1>1, TicksRemain
  <1>6. s = c => t.next > tickNow
    BY <1>1 DEF Taken, Expired
  <1>7. s \notin Turned(l)
    BY DEF Taken
  <1>8. n # 0 => Turned(l) = {Ahead(c, j) : j \in {m \in 1..(Size - 1) : m < n}}
                              \cup {Ahead(c, n)}
    BY DEF Turned
  <1>9. Ahead(c, 0) = c
    BY <1>1 DEF Ahead, SlotIndex
  <1> HIDE DEF n, L, T, c, k
  <1>10. CASE n = 0
    BY <1>2, <1>3, <1>4, <1>6, <1>9, <1>10 DEF n, k, L
  <1>11. CASE n # 0
    <2> SUFFICES ASSUME ~(n < k) PROVE FALSE
      BY DEF n, k, L
    <2>1. n \in Nat \ {0} /\ k \in 0..n
      BY <1>2, <1>3, <1>11
    <2>2. T * n \in Nat /\ T * n > 0 /\ k * T <= T * n
      <3>1. k * T <= n * T /\ n * T = T * n
        BY <1>1, <1>3, <2>1
      <3>2. T * n \in Nat /\ T * n > 0
        BY <1>1, <2>1
      <3> QED
        BY <3>1, <3>2
    <2>3. L + T * n <= tickNow
      BY <1>1, <1>2, <2>2 DEF AtLeastZero
    <2>4. k * T \in Nat /\ t.next <= L + k * T
      BY <1>1, <1>3, <1>5
    <2>5. t.next <= tickNow
      BY <1>1, <2>2, <2>3, <2>4
    <2>6. s # c
      BY <1>1, <1>6, <2>5
    <2>7. k # n
      BY <1>4, <1>7, <1>8, <1>11
    <2>8. k < n /\ k % Size \in 0..(Size - 1)
      BY <1>1, <1>3, <2>1, <2>7
    <2>9. Ahead(c, k % Size) = s
      <3>1. ((k % Size) + c) % Size = (k + c) % Size
        <4>1. c \in Int
          BY <1>1 DEF SlotIndex
        <4> QED
          BY <1>1, <1>3, <4>1, RemainderOfSum
      <3>2. (k % Size) + c = c + (k % Size) /\ k + c = c + k
        BY <1>1, <1>3, <2>8 DEF SlotIndex
      <3> QED
        BY <1>4, <3>1, <3>2 DEF Ahead
    <2>10. k % Size # 0
      BY <1>9, <2>6, <2>9
    <2>11. k % Size <= k
      <3>1. k \div Size \in Nat /\ k = Size * (k \div Size) + (k % Size)
        BY <1>1, <1>3, Division
      <3>2. Size * (k \div Size) \in Nat
        BY <1>1, <3>1
      <3> QED
        BY <1>1, <1>3, <2>8, <3>1, <3>2
    <2>12. k % Size \in {m \in 1..(Size - 1) : m < n}
      BY <1>1, <1>3, <2>1, <2>8, <2>10, <2>11
    <2>13. Ahead(c, k % Size) \in Turned(l)
      BY <1>8, <1>11, <2>12
    <2> QED
      BY <1>7, <2>9, <2>13
  <1> QED
    BY <1>10, <1>11

\* A level turns: the tasks that stay keep the slots their times ask for.
LEMMA TickLevelStep == Inv /\ TickLevel => Inv'
  <1> SUFFICES ASSUME Inv, TickLevel PROVE Inv'
    OBVIOUS
  <1>1. TypeOK /\ Control /\ MapMatchesSlots /\ SingleCopy /\ SlotMatchesTime
    BY DEF Inv
  <1> DEFINE S == Taken(lvl)
             n == Ticks(lvl)
             L == lastTick[lvl]
             T == tickDuration[lvl]
             c == current[lvl]
  <1>2. /\ tick = "level" /\ hand' = S /\ tick' = IF S = {} THEN "place" ELSE "read"
        /\ slots' = [slots EXCEPT ![lvl] = [s \in SlotIndex |-> slots[lvl][s] \ S]]
        /\ tasks' = [tasks EXCEPT ![lvl] = [i \in ID |->
              IF \E t \in S : t.id = i THEN Null ELSE tasks[lvl][i]]]
        /\ lastTick' = [lastTick EXCEPT ![lvl] = L + n * T]
        /\ current' = [current EXCEPT ![lvl] = Ahead(c, n)]
        /\ UNCHANGED <<clock, depth, tickNow, lvl, placeNow, ready, op, arg, duration, sweep,
                       fresh>>
    BY DEF TickLevel, Emptied, NewTickTime, clientVars
  <1>3. /\ lvl \in Level /\ c \in SlotIndex /\ hand = {} /\ Size \in Nat \ {0}
        /\ slots \in [Level -> [SlotIndex -> SUBSET Task]]
        /\ tasks \in [Level -> [ID -> Entry \cup {Null}]]
        /\ \A u \in Task : u.id \in ID /\ u.next \in Nat
    BY <1>1, <1>2, WheelAssumption DEF TypeOK, Control
  <1>4. n \in Nat /\ L + n * T \in 0..MaxTime /\ L \in Nat /\ T \in Nat \ {0}
    BY <1>1, <1>3, TicksType, WheelAssumption DEF NewTickTime, TypeOK
  <1>5. Ahead(c, n) \in SlotIndex
    BY <1>3, <1>4, AheadType
  <1>6. \A t \in S : t \in Task /\ \E s \in SlotIndex : t \in slots[lvl][s]
    <2>1. Turned(lvl) \subseteq SlotIndex
      <3>1. \A j \in Nat : Ahead(c, j) \in SlotIndex
        BY <1>3, AheadType
      <3>2. Ahead(c, n) \in SlotIndex /\ \A j \in 1..(Size - 1) : Ahead(c, j) \in SlotIndex
        BY <1>3, <1>4, <3>1
      <3> QED
        BY <3>2, Zenon DEF Turned
    <2> QED
      BY <1>3, <2>1 DEF Taken, Expired
  <1> HIDE DEF S
  <1>7. /\ \A m \in Level \ {lvl} : /\ slots'[m] = slots[m] /\ tasks'[m] = tasks[m]
                                    /\ lastTick'[m] = lastTick[m] /\ current'[m] = current[m]
        /\ \A s \in SlotIndex : slots'[lvl][s] = slots[lvl][s] \ S
        /\ \A i \in ID : tasks'[lvl][i] = IF \E t \in S : t.id = i THEN Null ELSE tasks[lvl][i]
        /\ lastTick'[lvl] = L + n * T /\ current'[lvl] = Ahead(c, n)
    BY <1>1, <1>2, <1>3 DEF TypeOK
  <1>8. TypeOK'
    <2>1. slots' \in [Level -> [SlotIndex -> SUBSET Task]]
      BY <1>2, <1>3
    <2>2. tasks' \in [Level -> [ID -> Entry \cup {Null}]]
      BY <1>2, <1>3
    <2>3. lastTick' \in [Level -> 0..MaxTime] /\ current' \in [Level -> SlotIndex]
      BY <1>1, <1>2, <1>4, <1>5 DEF TypeOK
    <2> QED
      BY <1>1, <1>2, <1>6, <2>1, <2>2, <2>3 DEF TypeOK
  <1>9. MapMatchesSlots'
    <2>1. ASSUME NEW m \in Level \ {lvl}
          PROVE  /\ \A u \in Task, s \in SlotIndex :
                       u \in slots'[m][s] <=> tasks'[m][u.id] = [slot |-> s, task |-> u]
                 /\ \A x \in ID : tasks'[m][x] # Null => tasks'[m][x].task.id = x
      BY <1>1, <1>7 DEF MapMatchesSlots
    <2>2. ASSUME NEW u \in Task, NEW s \in SlotIndex
          PROVE  u \in slots'[lvl][s] <=> tasks'[lvl][u.id] = [slot |-> s, task |-> u]
      <3>1. \A v \in Task, r \in SlotIndex :
               v \in slots[lvl][r] <=> tasks[lvl][v.id] = [slot |-> r, task |-> v]
        BY <1>1, <1>3 DEF MapMatchesSlots
      <3>2. Null # [slot |-> s, task |-> u]
        BY WheelAssumption DEF SlotIndex
      <3>3. CASE \E t \in S : t.id = u.id
        <4>1. PICK t \in S : t.id = u.id
          BY <3>3
        <4>2. PICK r \in SlotIndex : t \in slots[lvl][r]
          BY <1>6
        <4>3. tasks[lvl][u.id] = [slot |-> r, task |-> t]
          BY <1>6, <3>1, <4>1, <4>2
        <4>4. u \in slots[lvl][s] => u = t
          <5>1. u \in slots[lvl][s] => [slot |-> s, task |-> u] = [slot |-> r, task |-> t]
            BY <3>1, <4>3
          <5> QED
            BY <5>1
        <4>5. u \notin slots'[lvl][s]
          BY <1>7, <4>4
        <4> QED
          BY <1>3, <1>7, <3>2, <3>3, <4>5
      <3>4. CASE ~ \E t \in S : t.id = u.id
        BY <1>3, <1>7, <3>1, <3>4
      <3> QED
        BY <3>3, <3>4
    <2>3. \A x \in ID : tasks'[lvl][x] # Null => tasks'[lvl][x].task.id = x
      BY <1>1, <1>3, <1>7 DEF MapMatchesSlots
    <2> QED
      BY <2>1, <2>2, <2>3 DEF MapMatchesSlots
  <1>10. \A m \in Level, s \in SlotIndex : \A t \in slots'[m][s] : t \in slots[m][s] /\ t \notin S
    <2> SUFFICES ASSUME NEW m \in Level, NEW s \in SlotIndex, NEW t \in slots'[m][s]
                 PROVE  t \in slots[m][s] /\ t \notin S
      OBVIOUS
    <2>1. CASE m = lvl
      BY <1>7, <2>1
    <2>2. CASE m # lvl
      <3>1. t \in slots[m][s] /\ t \in Task
        BY <1>3, <1>7, <2>2
      <3>2. ASSUME t \in S PROVE FALSE
        <4>1. PICK r \in SlotIndex : t \in slots[lvl][r]
          BY <1>6, <3>2
        <4> QED
          BY <1>1, <1>3, <2>2, <3>1, <4>1 DEF SingleCopy
      <3> QED
        BY <3>1, <3>2
    <2> QED
      BY <2>1, <2>2
  <1>11. S \subseteq InWheel /\ InWheel' \subseteq InWheel
    BY <1>3, <1>6, <1>10, InWheelDef
  <1>12. Everywhere' \subseteq Everywhere
    BY <1>2, <1>11 DEF Everywhere
  <1>13. SingleCopy'
    <2> SUFFICES ASSUME NEW u \in Task
                 PROVE  /\ \A k, m \in Level : \A r, s \in SlotIndex :
                              u \in slots'[k][r] /\ u \in slots'[m][s] => k = m /\ r = s
                        /\ u \in InWheel' => u \notin S /\ u \notin ready
                        /\ u \notin S \/ u \notin ready
      BY <1>2 DEF SingleCopy
    <2>1. /\ \A k, m \in Level : \A r, s \in SlotIndex :
                u \in slots[k][r] /\ u \in slots[m][s] => k = m /\ r = s
          /\ u \in InWheel => u \notin ready
      BY <1>1 DEF SingleCopy
    <2>2. u \in InWheel' => u \notin S
      BY <1>10, InWheelDef
    <2> QED
      BY <1>10, <1>11, <2>1, <2>2
  <1>14. SlotMatchesTime'
    <2> SUFFICES ASSUME NEW m \in Level, NEW s \in SlotIndex, NEW t \in slots'[m][s]
                 PROVE  s = (current'[m] + TicksFor(m, t.next - lastTick'[m])) % Size
      BY DEF SlotMatchesTime, TicksFor
    <2>1. t \in slots[m][s] /\ t \notin S
      BY <1>10
    <2>2. s = (current[m] + TicksFor(m, t.next - lastTick[m])) % Size
      BY <1>1, <2>1 DEF SlotMatchesTime
    <2>3. CASE m # lvl
      BY <1>7, <2>2, <2>3
    <2>4. CASE m = lvl
      <3> DEFINE k == TicksFor(lvl, t.next - L)
      <3>1. t \in Task /\ t.next - L \in Int
        BY <1>3, <1>4, <2>1
      <3>2. k \in Nat /\ s = (c + k) % Size
        BY <1>3, <2>2, <2>4, <3>1, TicksForType
      <3>3. n < k \/ n = 0
        BY <1>1, <1>3, <2>1, <2>4, Staying DEF S
      <3>4. CASE n = 0
        <4>1. Ahead(c, n) = c /\ L + n * T = L
          <5>1. Ahead(c, 0) = c
            <6>1. c \in 0..(Size - 1) /\ Size \in Nat \ {0}
              BY <1>3 DEF SlotIndex
            <6> HIDE DEF c
            <6> QED
              BY <6>1 DEF Ahead
          <5>2. 0 * T = 0 /\ L + 0 = L
            BY <1>4
          <5> QED
            BY <3>4, <5>1, <5>2
        <4> QED
          BY <1>7, <2>4, <3>2, <4>1
      <3>5. CASE n < k
        <4>1. TicksFor(lvl, (t.next - L) - n * T) = k - n
          BY <1>3, <1>4, <3>1, <3>5, TicksRemain
        <4>2. (t.next - L) - n * T = t.next - (L + n * T)
          <5>1. n * T \in Int /\ t.next \in Int /\ L \in Int
            BY <1>3, <1>4, <3>1
          <5> HIDE DEF n, L, T
          <5> QED
            BY <5>1
        <4>3. (((c + n) % Size) + (k - n)) % Size = ((c + n) + (k - n)) % Size
          <5>1. c + n \in Nat /\ k - n \in Int
            BY <1>3, <1>4, <3>2 DEF SlotIndex
          <5> HIDE DEF n, c, k
          <5> QED
            BY <1>3, <5>1, RemainderOfSum
        <4>4. (c + n) + (k - n) = c + k
          <5>1. c \in Int /\ n \in Int /\ k \in Int
            BY <1>3, <1>4, <3>2 DEF SlotIndex
          <5> HIDE DEF n, c, k
          <5> QED
            BY <5>1
        <4> QED
          BY <1>7, <2>4, <3>2, <4>1, <4>2, <4>3, <4>4 DEF Ahead
      <3> QED
        BY <3>3, <3>4, <3>5
    <2> QED
      BY <2>3, <2>4
  <1>15. Control'
    <2>1. \A m \in Level, s \in SlotIndex : m >= depth' => slots'[m][s] = {}
      BY <1>1, <1>2, <1>10 DEF Control
    <2> QED
      BY <1>1, <1>2, <1>12, <2>1 DEF Control
  <1> QED
    BY <1>8, <1>9, <1>13, <1>14, <1>15 DEF Inv

-----------------------------------------------------------------------------
LEMMA InvInit == Init => Inv
  <1> SUFFICES ASSUME Init PROVE Inv
    OBVIOUS
  <1>1. /\ clock = 0 /\ depth = 1 /\ current = [l \in Level |-> 0]
        /\ lastTick = [l \in Level |-> 0]
        /\ slots = [l \in Level |-> [s \in SlotIndex |-> {}]]
        /\ tasks = [l \in Level |-> [i \in ID |-> Null]]
        /\ tick = "idle" /\ tickNow = 0 /\ lvl = 0 /\ hand = {} /\ placeNow = 0 /\ ready = {}
        /\ op = "idle" /\ arg = Null /\ duration = 0 /\ sweep = 0 /\ fresh = {}
    BY DEF Init
  <1>2. 0 \in SlotIndex /\ 0 \in Level /\ 0 \in 0..MaxTime /\ 1 \in 1..Levels /\ 0 \in 0..Levels
    BY WheelAssumption DEF SlotIndex, Level
  <1>3. \A l \in Level, s \in SlotIndex : slots[l][s] = {}
    BY <1>1
  <1>4. TypeOK
    <2>1. current \in [Level -> SlotIndex] /\ lastTick \in [Level -> 0..MaxTime]
      BY <1>1, <1>2
    <2>2. /\ slots \in [Level -> [SlotIndex -> SUBSET Task]]
          /\ tasks \in [Level -> [ID -> Entry \cup {Null}]]
      BY <1>1
    <2> QED
      BY <1>1, <1>2, <2>1, <2>2 DEF TypeOK
  <1>5. Control
    BY <1>1, <1>3 DEF Control
  <1>6. MapMatchesSlots
    <2>1. \A s \in SlotIndex, t \in Task : Null # [slot |-> s, task |-> t]
      BY WheelAssumption DEF SlotIndex
    <2>2. \A l \in Level, i \in ID : tasks[l][i] = Null
      BY <1>1
    <2> QED
      BY <1>3, <2>1, <2>2, WheelAssumption DEF MapMatchesSlots
  <1>7. SingleCopy
    BY <1>1, <1>3, InWheelDef DEF SingleCopy
  <1>8. SlotMatchesTime
    BY <1>3 DEF SlotMatchesTime
  <1> QED
    BY <1>4, <1>5, <1>6, <1>7, <1>8 DEF Inv

LEMMA InvStutter == Inv /\ UNCHANGED vars => Inv'
  <1> SUFFICES ASSUME Inv, UNCHANGED vars PROVE Inv'
    OBVIOUS
  <1>1. UNCHANGED <<clock, depth, current, lastTick, slots, tasks, tick, tickNow, lvl, hand,
                    placeNow, ready, op, arg, duration, sweep, fresh>>
    BY DEF vars, wheelVars, tickVars, clientVars
  <1>2. Everywhere' = Everywhere /\ InWheel' = InWheel
    BY <1>1 DEF Everywhere, InWheel, InLevel
  <1>3. TypeOK' /\ Control' /\ MapMatchesSlots'
    BY <1>1, <1>2 DEF Inv, TypeOK, Control, MapMatchesSlots
  <1>4. SingleCopy' /\ SlotMatchesTime'
    BY <1>1, <1>2 DEF Inv, SingleCopy, SlotMatchesTime, TicksFor
  <1> QED
    BY <1>3, <1>4 DEF Inv

LEMMA InvNext == Inv /\ [Next]_vars => Inv'
  BY TimePassesStep, TickCallStep, TickBeginStep, TickLevelStep, TickReadStep, TickDownStep,
     TickReturnStep,
     RedistributeStep, AddBeginStep, AddSweepStep, AddPlaceStep, RemoveBeginStep,
     RemoveSweepStep, InvStutter DEF Next

THEOREM Invariant == Spec => []Inv
  BY InvInit, InvNext, PTL DEF Spec

-----------------------------------------------------------------------------
(***************************************************************************)
(* What follows from it.                                                   *)
(***************************************************************************)
\* Every variable keeps its type: no level, slot or clock outside its range
\* is ever reached.
THEOREM TypeCorrect == Spec => []TypeOK
  BY Invariant, PTL DEF Inv

\* TaskExist and RemoveTask, which ask the maps, and Tick, which walks the
\* lists, never disagree.
THEOREM MapsAndListsAgree == Spec => []MapMatchesSlots
  BY Invariant, PTL DEF Inv

\* No cascade, and no operation that interleaves with one, duplicates a task.
THEOREM OneCopy == Spec => []SingleCopy
  BY Invariant, PTL DEF Inv

\* The slot arithmetic survives any number of ticks at once, wraps included.
THEOREM SlotsAreRight == Spec => []SlotMatchesTime
  BY Invariant, PTL DEF Inv

\* A task only leaves the wheel to run, or for an operation on its ID.
THEOREM TasksAreKept == Spec => NothingIsLost
  <1> DEFINE Leaves(t) ==
        \/ t \in Everywhere'
        \/ t \in ready /\ tick' = "idle"
        \/ op = "add" /\ arg.id = t.id
        \/ op = "remove" /\ arg = t.id
        \/ \E u \in hand : u # t /\ u.id = t.id
  <1>1. ASSUME Inv, Next, NEW t \in Everywhere PROVE Leaves(t)
    <2>0. TypeOK /\ Control /\ MapMatchesSlots
      BY <1>1 DEF Inv
    <2>1. t \in Task /\ (t \in hand \/ t \in ready \/
                         \E l \in Level, s \in SlotIndex : t \in slots[l][s])
      <3>1. t \in hand \/ t \in ready \/ t \in InWheel
        BY DEF Everywhere
      <3> QED
        BY <2>0, <3>1, InWheelDef DEF TypeOK
    <2>2. CASE UNCHANGED <<slots, hand, ready>>
      BY <2>2 DEF Everywhere, InWheel, InLevel
    <2>3. CASE TickReturn
      BY <2>3 DEF TickReturn, wheelVars, Everywhere, InWheel, InLevel
    <2>4. CASE TickLevel
      <3>1. /\ hand' = Taken(lvl) /\ UNCHANGED ready /\ hand = {}
            /\ slots' = [slots EXCEPT ![lvl] = [s \in SlotIndex |-> slots[lvl][s] \ Taken(lvl)]]
        BY <2>0, <2>4 DEF TickLevel, Emptied, Control
      <3>2. CASE t \in ready
        BY <3>1, <3>2 DEF Everywhere
      <3>3. CASE t \notin ready
        <4>1. PICK l \in Level, s \in SlotIndex : t \in slots[l][s]
          BY <2>1, <3>1, <3>3
        <4>2. slots \in [Level -> [SlotIndex -> SUBSET Task]]
          BY <2>0 DEF TypeOK
        <4>3. t \in hand' \/ t \in slots'[l][s]
          BY <3>1, <4>1, <4>2
        <4> QED
          BY <4>1, <4>3, InWheelDef DEF Everywhere
      <3> QED
        BY <3>2, <3>3
    <2>5. CASE \E u \in hand : Redistribute(u)
      <3>1. PICK u \in hand : Redistribute(u)
        BY <2>5
      <3>2. hand' = hand \ {u} /\ u \in Task /\ lvl \in Level /\ lvl < depth
        BY <2>0, <3>1 DEF Redistribute, TypeOK, Control
      <3>3. CASE lvl = 0 /\ u.next <= placeNow
        BY <3>1, <3>2, <3>3 DEF Redistribute, Everywhere, InWheel, InLevel
      <3>4. CASE ~(lvl = 0 /\ u.next <= placeNow)
        <4> PICK l \in Level : Put(l, u, lastTick[l]) /\ UNCHANGED ready
          <5>1. (IF lvl = 0 THEN 0 ELSE lvl - 1) \in Level
            BY <3>2, WheelAssumption DEF Level
          <5> QED
            BY <3>1, <3>4, <5>1 DEF Redistribute
        <4>1. lastTick[l] \in Int
          BY <2>0, WheelAssumption DEF TypeOK
        <4>2. /\ \A m \in Level \ {l} : slots'[m] = slots[m]
              /\ \A s \in SlotIndex : u \in slots'[l][s] <=> s = SlotFor(l, u, lastTick[l])
              /\ \A s \in SlotIndex : \A v \in slots[l][s] : v.id # u.id => v \in slots'[l][s]
          BY <2>0, <3>2, <4>1, PutFacts
        <4>3. u \in InWheel'
          BY <2>0, <3>2, <4>1, <4>2, SlotForType, InWheelDef
        <4>4. CASE t = u \/ t \in hand \/ t \in ready
          BY <3>2, <4>3, <4>4 DEF Everywhere
        <4>5. CASE t # u /\ \E m \in Level, s \in SlotIndex : t \in slots[m][s]
          <5>1. t.id # u.id => t \in InWheel'
            BY <4>2, <4>5, InWheelDef
          <5> QED
            BY <4>5, <5>1 DEF Everywhere
        <4> QED
          BY <2>1, <4>4, <4>5
      <3> QED
        BY <3>3, <3>4
    <2>6. CASE AddSweep
      <3>1. /\ op = "add" /\ UNCHANGED <<hand, ready>> /\ Without(sweep, arg.id)
            /\ sweep \in Level /\ arg.id \in ID
        BY <2>0, <2>6, WheelAssumption DEF AddSweep, tickVars, Control, TypeOK, Level
      <3>2. \A m \in Level, s \in SlotIndex : \A v \in slots[m][s] :
               v.id # arg.id => v \in slots'[m][s]
        BY <2>0, <3>1, WithoutFacts
      <3> QED
        BY <2>1, <3>1, <3>2, InWheelDef DEF Everywhere
    <2>7. CASE RemoveSweep
      <3>1. /\ op = "remove" /\ UNCHANGED <<hand, ready>> /\ Without(sweep, arg)
            /\ sweep \in Level /\ arg \in ID
        BY <2>0, <2>7, WheelAssumption DEF RemoveSweep, tickVars, Control, TypeOK, Level
      <3>2. \A m \in Level, s \in SlotIndex : \A v \in slots[m][s] :
               v.id # arg => v \in slots'[m][s]
        BY <2>0, <3>1, WithoutFacts
      <3> QED
        BY <2>1, <3>1, <3>2, InWheelDef DEF Everywhere
    <2>8. CASE AddPlace
      <3>1. /\ op = "add" /\ UNCHANGED <<hand, ready>> /\ arg \in Task
            /\ depth' \in 1..Levels
            /\ lastTick' = [l \in Level |->
                  IF l \in depth..(depth' - 1) THEN clock ELSE lastTick[l]]
        <4>1. TypeOK'
          BY <1>1, <2>8, AddPlaceStep DEF Inv
        <4> QED
          BY <2>0, <2>8, <4>1 DEF AddPlace, tickVars, Control, TypeOK
      <3> PICK n \in 1..Levels : depth' = n
        BY <3>1
      <3>2. CASE UNCHANGED slots
        BY <3>1, <3>2 DEF Everywhere, InWheel, InLevel
      <3>3. CASE \E l \in 0..(n - 1) : Put(l, arg, lastTick'[l])
        <4>1. PICK l \in 0..(n - 1) : Put(l, arg, lastTick'[l])
          BY <3>3
        <4>2. l \in Level /\ lastTick'[l] \in Int
          <5>1. l \in Level
            BY WheelAssumption DEF Level
          <5> QED
            BY <2>0, <3>1, <5>1, WheelAssumption DEF TypeOK
        <4>3. /\ \A m \in Level \ {l} : slots'[m] = slots[m]
              /\ \A s \in SlotIndex : \A v \in slots[l][s] : v.id # arg.id => v \in slots'[l][s]
          BY <2>0, <3>1, <4>1, <4>2, PutFacts
        <4>4. (\E m \in Level, s \in SlotIndex : t \in slots[m][s]) /\ t.id # arg.id
                 => t \in InWheel'
          BY <4>3, InWheelDef
        <4> QED
          BY <2>1, <3>1, <4>4 DEF Everywhere
      <3> QED
        BY <2>8, <3>2, <3>3 DEF AddPlace
    <2> QED
      BY <1>1, <2>2, <2>3, <2>4, <2>5, <2>6, <2>7, <2>8
         DEF Next, TimePasses, TickCall, TickBegin, TickRead, TickDown, AddBegin, RemoveBegin,
             wheelVars, tickVars
  <1>2. Inv /\ [Next]_vars => [\A t \in Everywhere : Leaves(t)]_vars
    BY <1>1
  <1> QED
    BY <1>2, Invariant, PTL DEF Spec, NothingIsLost

-----------------------------------------------------------------------------
(***************************************************************************)
(* How late a task can be when Tick returns.                               *)
(***************************************************************************)
\* The levels that the Tick under way has turned.
Passed(l) == l > lvl \/ (l = lvl /\ tick \in {"read", "place"})

InTime(l, t) == t.next > tickNow - tickDuration[l]

\* What a level that was turned still holds is in time, or was put there by an
\* AddTask that ran beside Tick.
LateInv == tick \notin {"idle", "call"} =>
    \A l \in Level : Passed(l) => \A s \in SlotIndex : \A t \in slots[l][s] :
        t \in fresh \/ InTime(l, t)

\* Turning a level leaves no task in it that is late by a tick or more.
LEMMA StayingIsInTime ==
    ASSUME TypeOK, SlotMatchesTime, NEW l \in Level, NEW s \in SlotIndex,
           NEW t \in slots[l][s], t \notin Taken(l)
    PROVE  InTime(l, t)
  <1> DEFINE n == Ticks(l)
             L == lastTick[l]
             T == tickDuration[l]
             e == AtLeastZero(tickNow - L)
  <1>1. /\ T \in Nat \ {0} /\ L \in Nat /\ tickNow \in Nat /\ t.next \in Nat
    BY WheelAssumption DEF TypeOK
  <1>2. e \in Nat /\ tickNow - L <= e /\ (e = 0 \/ e = tickNow - L)
    BY <1>1 DEF AtLeastZero
  <1>3. n \in Nat /\ n * T \in Nat /\ e < n * T + T
    <2>1. n = e \div T
      BY DEF Ticks
    <2> HIDE DEF n, e, T
    <2>2. n \in Nat /\ (e % T) \in 0..(T - 1) /\ e = T * n + (e % T)
      BY <1>1, <1>2, <2>1, Division
    <2>3. T * n = n * T /\ n * T \in Nat
      BY <1>1, <2>2
    <2> QED
      BY <1>1, <1>2, <2>2, <2>3
  <1>4. CASE n = 0 /\ t.next > tickNow
    BY <1>1, <1>4 DEF InTime
  <1>5. CASE n < TicksFor(l, t.next - L)
    <2>1. t.next - L \in Int
      BY <1>1
    <2>2. n * T < t.next - L
      BY <1>3, <1>5, <2>1, TicksRemain
    <2> HIDE DEF n, L, T, e
    <2>3. tickNow - T < t.next
      BY <1>1, <1>2, <1>3, <2>2
    <2> QED
      BY <1>1, <2>3 DEF InTime, T
  <1> QED
    BY <1>4, <1>5, Staying

\* A step that puts nothing into a slot and leaves Tick where it is.
LEMMA LateShrinking ==
    ASSUME LateInv, UNCHANGED <<tick, tickNow, lvl, fresh>>,
           \A l \in Level, s \in SlotIndex : slots'[l][s] \subseteq slots[l][s]
    PROVE  LateInv'
  BY DEF LateInv, Passed, InTime

LEMMA LateTickLevel == Inv /\ LateInv /\ TickLevel => LateInv'
  <1> SUFFICES ASSUME Inv, LateInv, TickLevel,
                      NEW l \in Level, l >= lvl,
                      NEW s \in SlotIndex, NEW t \in slots'[l][s]
               PROVE  t \in fresh \/ InTime(l, t)
    BY DEF TickLevel, LateInv, Passed, InTime, Level, Inv, TypeOK
  <1>1. TypeOK /\ SlotMatchesTime /\ tick = "level" /\ lvl \in Level
    BY DEF Inv, TickLevel, TypeOK
  <1>2. slots' = [slots EXCEPT ![lvl] = [r \in SlotIndex |-> slots[lvl][r] \ Taken(lvl)]]
    BY DEF TickLevel, Emptied
  <1>3. CASE l = lvl
    <2>1. t \in slots[l][s] /\ t \notin Taken(l)
      BY <1>1, <1>2, <1>3 DEF TypeOK
    <2> QED
      BY <1>1, <2>1, StayingIsInTime
  <1>4. CASE l # lvl
    <2>1. t \in slots[l][s] /\ l > lvl
      BY <1>1, <1>2, <1>4 DEF TypeOK, Level
    <2> QED
      BY <1>1, <2>1 DEF LateInv, Passed
  <1> QED
    BY <1>3, <1>4

\* What level 0 gets back from Tick is not due; what goes down a level is put
\* where Tick has yet to come.
LEMMA LateRedistribute ==
    ASSUME Inv, LateInv, NEW u \in hand, Redistribute(u) PROVE LateInv'
  <1>1. /\ TypeOK /\ Control /\ MapMatchesSlots /\ tick = "place"
        /\ lvl \in Level /\ u \in Task /\ tickNow <= placeNow
        /\ UNCHANGED <<tick, tickNow, lvl, fresh, lastTick>>
    BY DEF Inv, Redistribute, TypeOK, Control
  <1>2. CASE lvl = 0 /\ u.next <= placeNow
    <2>1. UNCHANGED slots
      BY <1>2 DEF Redistribute
    <2> QED
      BY <1>1, <2>1, LateShrinking
  <1>3. CASE ~(lvl = 0 /\ u.next <= placeNow)
    <2> DEFINE m == IF lvl = 0 THEN 0 ELSE lvl - 1
    <2>1. m \in Level /\ m <= lvl /\ (m = lvl => lvl = 0)
      BY <1>1, WheelAssumption DEF Level
    <2>2. Put(m, u, lastTick[m])
      BY <1>3 DEF Redistribute
    <2> HIDE DEF m
    <2>3. lastTick[m] \in Int
      BY <1>1, <2>1, WheelAssumption DEF TypeOK
    <2>4. /\ \A k \in Level \ {m} : slots'[k] = slots[k]
          /\ \A s \in SlotIndex : slots'[m][s] \subseteq slots[m][s] \cup {u}
      BY <1>1, <2>1, <2>2, <2>3, PutFacts
    <2> SUFFICES ASSUME NEW l \in Level, Passed(l),
                        NEW s \in SlotIndex, NEW t \in slots'[l][s]
                 PROVE  t \in fresh \/ InTime(l, t)
      BY <1>1 DEF LateInv, Passed, InTime
    <2>5. CASE t \in slots[l][s]
      BY <1>1, <2>5 DEF LateInv
    <2>6. CASE t \notin slots[l][s]
      <3>1. l = m /\ t = u
        BY <2>4, <2>6
      <3>2. lvl = 0 /\ u.next > placeNow
        <4>1. l >= lvl
          BY <1>1 DEF Passed, Level
        <4>2. lvl = 0
          BY <1>1, <2>1, <3>1, <4>1 DEF Level
        <4> QED
          BY <1>1, <1>3, <4>2, WheelAssumption DEF TypeOK
      <3>3. tickDuration[l] \in Nat /\ u.next \in Nat /\ placeNow \in Nat /\ tickNow \in Nat
        BY <1>1, WheelAssumption DEF TypeOK
      <3> QED
        BY <1>1, <3>1, <3>2, <3>3 DEF InTime
    <2> QED
      BY <2>5, <2>6
  <1> QED
    BY <1>2, <1>3

LEMMA LateAddPlace == Inv /\ LateInv /\ AddPlace => LateInv'
  <1> SUFFICES ASSUME Inv, LateInv, AddPlace, tick \notin {"idle", "call"},
                      NEW l \in Level, Passed(l),
                      NEW s \in SlotIndex, NEW t \in slots'[l][s]
               PROVE  t \in fresh' \/ InTime(l, t)
    BY DEF AddPlace, tickVars, LateInv, Passed, InTime
  <1>1. CASE UNCHANGED <<slots, fresh>>
    BY <1>1 DEF LateInv
  <1>2. CASE \E k \in 0..(depth' - 1) :
               Put(k, arg, lastTick'[k]) /\ fresh' = fresh \cup {arg}
    <2>1. TypeOK /\ TypeOK' /\ MapMatchesSlots /\ arg \in Task
      BY AddPlaceStep DEF Inv, Control, AddPlace
    <2> PICK k \in 0..(depth' - 1) : Put(k, arg, lastTick'[k]) /\ fresh' = fresh \cup {arg}
      BY <1>2
    <2>2. k \in Level /\ lastTick'[k] \in Int
      <3>1. depth' \in 1..Levels
        BY <2>1 DEF TypeOK
      <3>2. k \in Level
        BY <3>1, WheelAssumption DEF Level
      <3> QED
        BY <2>1, <3>2, WheelAssumption DEF TypeOK
    <2>3. slots'[l][s] \subseteq slots[l][s] \cup {arg}
      BY <2>1, <2>2, PutFacts
    <2> QED
      BY <2>3 DEF LateInv
  <1> QED
    BY <1>1, <1>2 DEF AddPlace

LEMMA LateInvNext == Inv /\ LateInv /\ [Next]_vars => LateInv'
  <1> SUFFICES ASSUME Inv, LateInv, [Next]_vars PROVE LateInv'
    OBVIOUS
  <1>1. TypeOK /\ Control /\ MapMatchesSlots
    BY DEF Inv
  <1>2. CASE UNCHANGED vars
    BY <1>2, LateShrinking DEF vars, wheelVars, tickVars
  <1>3. CASE TimePasses \/ (\E t \in Task : AddBegin(t)) \/ (\E i \in ID : RemoveBegin(i))
    <2>1. UNCHANGED <<slots, tick, tickNow, lvl, fresh>>
      BY <1>3 DEF TimePasses, AddBegin, RemoveBegin, wheelVars, tickVars
    <2> QED
      BY <2>1, LateShrinking
  <1>4. CASE TickBegin
    <2>1. /\ lvl' = depth - 1 /\ tick' = "level" /\ UNCHANGED slots
          /\ depth \in 1..Levels /\ Levels \in Nat
      BY <1>1, <1>4, WheelAssumption DEF TickBegin, wheelVars, TypeOK
    <2>2. \A l \in Level : l > lvl' => \A s \in SlotIndex : slots[l][s] = {}
      BY <1>1, <2>1 DEF Control, Level
    <2> QED
      BY <2>1, <2>2 DEF LateInv, Passed
  <1>5. CASE TickDown
    <2>1. /\ tick = "place" /\ tick' = "level" /\ lvl' = lvl - 1 /\ lvl \in Level
          /\ UNCHANGED <<slots, tickNow, fresh>>
      BY <1>1, <1>5 DEF TickDown, wheelVars, TypeOK
    <2>2. \A l \in Level : l > lvl' => l > lvl \/ l = lvl
      BY <2>1 DEF Level
    <2> QED
      BY <2>1, <2>2 DEF LateInv, Passed, InTime
  <1>6. CASE TickReturn
    BY <1>6 DEF TickReturn, LateInv
  <1>7. CASE AddSweep
    <2>1. Without(sweep, arg.id) /\ sweep \in Level /\ arg.id \in ID
          /\ UNCHANGED <<tick, tickNow, lvl, fresh>>
      BY <1>1, <1>7, WheelAssumption DEF AddSweep, tickVars, Control, TypeOK, Level
    <2> QED
      BY <1>1, <2>1, WithoutFacts, LateShrinking
  <1>8. CASE RemoveSweep
    <2>1. Without(sweep, arg) /\ sweep \in Level /\ arg \in ID
          /\ UNCHANGED <<tick, tickNow, lvl, fresh>>
      BY <1>1, <1>8, WheelAssumption DEF RemoveSweep, tickVars, Control, TypeOK, Level
    <2> QED
      BY <1>1, <2>1, WithoutFacts, LateShrinking
  <1>9. CASE TickCall
    BY <1>9 DEF TickCall, LateInv
  <1>10. CASE TickRead
    <2>1. /\ tick = "read" /\ tick' = "place" /\ UNCHANGED <<slots, tickNow, lvl, fresh>>
      BY <1>10 DEF TickRead, wheelVars
    <2> QED
      BY <2>1 DEF LateInv, Passed, InTime
  <1> QED
    BY <1>2, <1>3, <1>4, <1>5, <1>6, <1>7, <1>8, <1>9, <1>10, LateTickLevel,
       LateRedistribute, LateAddPlace DEF Next

\* A Tick that returns leaves no task behind that is overdue by a tick of the
\* level it is in, however late Tick itself came, unless AddTask put it there
\* while Tick ran (task_timewheel.go:184-238).
THEOREM TasksAreLateByLessThanATick == Spec => LateByLessThanATick
  <1> DEFINE Good == tick # "idle" /\ tick' = "idle" =>
                \A l \in Level : \A t \in InLevel(l) \ fresh : t.next > tickNow - tickDuration[l]
  <1>1. ASSUME Inv, LateInv, Next, tick # "idle", tick' = "idle",
               NEW l \in Level, NEW t \in InLevel(l), t \notin fresh
        PROVE  t.next > tickNow - tickDuration[l]
    <2>1. lvl = 0 /\ tick = "place"
      BY <1>1 DEF Next, TimePasses, TickCall, TickBegin, TickLevel, TickRead, TickDown,
         TickReturn, Redistribute, AddBegin, AddSweep, AddPlace, RemoveBegin, RemoveSweep, tickVars
    <2>2. Passed(l)
      BY <2>1 DEF Passed, Level
    <2> QED
      BY <1>1, <2>1, <2>2 DEF LateInv, InLevel, InTime
  <1>2. Inv /\ LateInv /\ [Next]_vars => [Good]_vars
    BY <1>1
  <1>3. Init => LateInv
    BY DEF Init, LateInv
  <1>4. Spec => [](Inv /\ LateInv)
    BY <1>3, Invariant, LateInvNext, PTL DEF Spec
  <1> QED
    BY <1>2, <1>4, PTL DEF Spec, LateByLessThanATick
=============================================================================
