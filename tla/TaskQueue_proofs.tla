--------------------------- MODULE TaskQueue_proofs ---------------------------
(***************************************************************************)
(* Proofs about TaskQueue, for any tasks and times and a slice of any      *)
(* capacity, whatever operations are called and whether IDs are shared.    *)
(***************************************************************************)
EXTENDS TaskQueue, WellFoundedInduction, TLAPS

-----------------------------------------------------------------------------
(***************************************************************************)
(* The inductive invariant.  While an element is sifted the heap order has *)
(* a hole at pos, and the slots on both sides of the hole are in order.    *)
(***************************************************************************)
\* The slots of the heap proper: without the one that is about to be popped.
Size == IF at \in {"down", "pop"} \/ (at = "up" /\ kind = "remove")
        THEN len - 1
        ELSE len

Ordered(j) == tasks[j \div 2].next <= tasks[j].next

ShapeInv ==
    /\ \A j \in 1..len : tasks[j] \in Task
    /\ at = "up" => kind \in {"add", "remove"} /\ pos \in 1..Size
    /\ at = "down" => /\ kind \in {"remove", "tick"} /\ len >= 1
                      /\ pos \in 1..Size \/ (pos = 1 /\ kind = "tick")
                      /\ kind = "tick" => moved \/ pos = 1
    /\ at = "pop" => kind \in {"remove", "tick"} /\ len >= 1
    /\ at = "next" => kind = "tick"
    /\ at = "idle" => ~moved /\ out = {}

OrderInv ==
    /\ at \in {"idle", "next", "pop"} => \A j \in 2..Size : Ordered(j)
    /\ at = "up" =>
         /\ \A j \in 2..Size : j # pos => Ordered(j)
         /\ \A j \in 2..Size : j \div 2 = pos /\ pos >= 2
                                => tasks[pos \div 2].next <= tasks[j].next
    /\ at = "down" =>
         /\ \A j \in 2..Size : j \div 2 # pos /\ (moved \/ j # pos) => Ordered(j)
         /\ \A j \in 2..Size : j \div 2 = pos /\ pos >= 2
                                => tasks[pos \div 2].next <= tasks[j].next

\* The map, at every step of an operation.
EntryInv ==
    /\ \A i \in ID : taskIdx[i] # 0 => /\ taskIdx[i] <= len
                                       /\ tasks[taskIdx[i]].id = i
    /\ \A j \in 1..len : tasks[j].id \notin twinned => taskIdx[tasks[j].id] = j

\* What Tick has popped, and is about to pop, is due.
PoppedInv ==
    kind = "tick" => /\ \A t \in out : t.next <= now
                     /\ at \in {"down", "pop"} => tasks[len].next <= now

Inv == TypeOK /\ ShapeInv /\ OrderInv /\ EntryInv /\ PoppedInv

\* What the provers need to know of a slot.
LEMMA SlotFacts ==
    ASSUME TypeOK, ShapeInv, NEW j \in 1..len
    PROVE  j \in Slot /\ tasks[j] \in Task /\ tasks[j].id \in ID /\ tasks[j].next \in Int
  BY QueueAssumption DEF TypeOK, ShapeInv, Slot

\* The smaller child is no later than either.
LEMMA ChildFacts ==
    ASSUME TypeOK, ShapeInv, NEW i \in Nat \ {0}, 2 * i <= Last
    PROVE  /\ Child(i) \in {2 * i, 2 * i + 1}
           /\ Child(i) <= Last
           /\ Child(i) \div 2 = i
           /\ \A j \in 1..Last : j \div 2 = i => tasks[Child(i)].next <= tasks[j].next
  <1>1. \A j \in 1..len : tasks[j].next \in Int
    BY SlotFacts
  <1>2. len \in Nat
    BY QueueAssumption DEF TypeOK
  <1>3. \A j \in 1..Last : j \div 2 = i => j \in {2 * i, 2 * i + 1}
    BY <1>2 DEF Last
  <1>4. Child(i) \in {2 * i, 2 * i + 1} /\ Child(i) <= Last /\ Child(i) \div 2 = i
    BY <1>2 DEF Child, Last
  <1> QED
    BY <1>1, <1>2, <1>3, <1>4 DEF Child, Less, Last

\* Swap exchanges two slots and tells the map of both.
LEMMA SwapFacts ==
    ASSUME TypeOK, ShapeInv, EntryInv, NEW i \in 1..len, NEW j \in 1..len,
           Swap(i, j), twinned' = twinned
    PROVE  /\ tasks' \in [Slot -> Task \cup {Null}]
           /\ taskIdx' \in [ID -> 0..Cap]
           /\ len' = len
           /\ tasks'[i] = tasks[j] /\ tasks'[j] = tasks[i]
           /\ \A k \in Slot \ {i, j} : tasks'[k] = tasks[k]
           /\ \A k \in 1..len : tasks'[k] \in Task
           /\ EntryInv'
  <1>1. /\ len \in Nat /\ 1..len \subseteq Slot
        /\ tasks \in [Slot -> Task \cup {Null}]
        /\ taskIdx \in [ID -> 0..Cap]
    BY QueueAssumption DEF TypeOK, Slot
  <1>2. \A k \in 1..len : tasks[k] \in Task /\ tasks[k].id \in ID
    BY SlotFacts
  <1>3. i \in 0..Cap /\ j \in 0..Cap
    BY <1>1 DEF Slot
  <1>4. /\ tasks' = [tasks EXCEPT ![i] = tasks[j], ![j] = tasks[i]]
        /\ taskIdx' = [taskIdx EXCEPT ![tasks[j].id] = i, ![tasks[i].id] = j]
        /\ len' = len
    BY DEF Swap
  <1>5. tasks' \in [Slot -> Task \cup {Null}]
    BY <1>1, <1>4
  <1>6. taskIdx' \in [ID -> 0..Cap]
    BY <1>1, <1>2, <1>3, <1>4
  <1>7. /\ tasks'[i] = tasks[j] /\ tasks'[j] = tasks[i]
        /\ \A k \in Slot \ {i, j} : tasks'[k] = tasks[k]
    BY <1>1, <1>4
  <1>8. \A k \in 1..len : tasks'[k] \in Task
    BY <1>1, <1>2, <1>7
  <1>9. ASSUME NEW x \in ID, taskIdx'[x] # 0
        PROVE  taskIdx'[x] <= len' /\ tasks'[taskIdx'[x]].id = x
    <2>1. CASE x = tasks[i].id
      BY <1>1, <1>2, <1>4, <1>7, <2>1
    <2>2. CASE x = tasks[j].id /\ x # tasks[i].id
      BY <1>1, <1>2, <1>4, <1>7, <2>2
    <2>3. CASE x # tasks[j].id /\ x # tasks[i].id
      <3>1. taskIdx'[x] = taskIdx[x]
        BY <1>1, <1>2, <1>4, <2>3
      <3>2. taskIdx[x] <= len /\ tasks[taskIdx[x]].id = x
        BY <1>9, <3>1 DEF EntryInv
      <3>3. taskIdx[x] \in Slot \ {i, j}
        BY <1>1, <1>9, <2>3, <3>1, <3>2 DEF Slot
      <3> QED
        BY <1>4, <1>7, <3>1, <3>2, <3>3
    <2> QED
      BY <2>1, <2>2, <2>3
  <1>10. ASSUME NEW k \in 1..len', tasks'[k].id \notin twinned'
         PROVE  taskIdx'[tasks'[k].id] = k
    <2>0. \A m \in 1..len : tasks[m].id \notin twinned => taskIdx[tasks[m].id] = m
      BY DEF EntryInv
    <2>1. CASE k = i
      BY <1>1, <1>2, <1>4, <1>7, <1>10, <2>0, <2>1
    <2>2. CASE k = j
      BY <1>1, <1>2, <1>4, <1>7, <1>10, <2>0, <2>2
    <2>3. CASE k \notin {i, j}
      <3>1. tasks'[k] = tasks[k] /\ tasks[k].id \in ID /\ taskIdx[tasks[k].id] = k
        BY <1>1, <1>2, <1>4, <1>7, <1>10, <2>0, <2>3
      <3>2. tasks[k].id # tasks[i].id /\ tasks[k].id # tasks[j].id
        BY <1>10, <2>0, <2>3, <3>1
      <3> QED
        BY <1>1, <1>4, <3>1, <3>2
    <2> QED
      BY <2>1, <2>2, <2>3
  <1> QED
    BY <1>4, <1>5, <1>6, <1>7, <1>8, <1>9, <1>10 DEF EntryInv

\* The fields of the types that a step which only sifts leaves alone.
LEMMA TypeByParts ==
    ASSUME TypeOK,
           tasks' \in [Slot -> Task \cup {Null}], len' \in 0..Cap,
           taskIdx' \in [ID -> 0..Cap], at' \in {"idle", "up", "down", "pop", "next"},
           pos' \in 1..(Cap + 1), moved' \in BOOLEAN, out' \subseteq Task,
           \/ UNCHANGED <<kind, arg, now, was>>
           \/ kind' = "add" /\ arg' = Null /\ now' = 0 /\ was' = Nothing,
           UNCHANGED twinned
    PROVE  TypeOK'
  BY DEF TypeOK, Nothing, Slot

-----------------------------------------------------------------------------
\* The child goes up, and the hole takes its place.
LEMMA DownSwapStep == Inv /\ DownSwap => Inv'
  <1> SUFFICES ASSUME Inv, DownSwap PROVE Inv'
    OBVIOUS
  <1>0. TypeOK /\ ShapeInv /\ OrderInv /\ EntryInv /\ PoppedInv
    BY DEF Inv
  <1>1. /\ at = "down" /\ len \in Nat /\ len <= Cap /\ Cap \in Nat
        /\ pos \in Nat \ {0} /\ 2 * pos <= Last
    BY <1>0, QueueAssumption DEF DownSwap, Sinks, TypeOK
  <1> DEFINE c == Child(pos)
  <1>2. /\ c \in {2 * pos, 2 * pos + 1} /\ c <= Last /\ c \div 2 = pos
        /\ \A j \in 1..Last : j \div 2 = pos => tasks[c].next <= tasks[j].next
    BY <1>0, <1>1, ChildFacts
  <1>3. tasks[c].next < tasks[pos].next
    BY DEF DownSwap, Sinks, Less
  <1> HIDE DEF c
  <1>4. /\ Swap(pos, c) /\ pos' = c /\ moved' = TRUE
        /\ UNCHANGED <<at, kind, arg, now, out, was, twinned>>
    BY DEF DownSwap, c
  <1>5. pos \in 1..len /\ c \in 1..len /\ len - 1 = Last /\ pos # c
    BY <1>1, <1>2 DEF Last
  <1>6. /\ tasks' \in [Slot -> Task \cup {Null}] /\ taskIdx' \in [ID -> 0..Cap]
        /\ len' = len /\ tasks'[pos] = tasks[c] /\ tasks'[c] = tasks[pos]
        /\ \A k \in Slot \ {pos, c} : tasks'[k] = tasks[k]
        /\ \A k \in 1..len : tasks'[k] \in Task
        /\ EntryInv'
    BY <1>0, <1>4, <1>5, SwapFacts
  <1>7. TypeOK'
    BY <1>0, <1>1, <1>2, <1>4, <1>5, <1>6, TypeByParts DEF TypeOK
  <1>8. ShapeInv'
    BY <1>0, <1>1, <1>2, <1>4, <1>5, <1>6 DEF ShapeInv, Size
  <1>9. OrderInv'
    <2>1. Size = Last /\ Size' = Last
      BY <1>1, <1>4, <1>6 DEF Size, Last
    <2>2. \A j \in 2..Last : j \div 2 # pos /\ (moved \/ j # pos)
                              => tasks[j \div 2].next <= tasks[j].next
      BY <1>0, <1>1, <2>1 DEF OrderInv, Ordered
    <2>3. \A j \in 2..Last : j \div 2 = pos /\ pos >= 2
                              => tasks[pos \div 2].next <= tasks[j].next
      BY <1>0, <1>1, <2>1 DEF OrderInv
    <2>4. \A j \in 1..len : tasks[j].next \in Int /\ j \in Slot
      BY <1>0, SlotFacts
    <2>5. ASSUME NEW j \in 2..Last, j \div 2 # c
          PROVE  tasks'[j \div 2].next <= tasks'[j].next
      <3>1. j \in 1..len /\ j \div 2 \in 1..len /\ j \div 2 < j
        BY <1>1, <1>5
      <3>2. CASE j = c
        BY <1>2, <1>3, <1>5, <1>6, <2>4, <3>2
      <3>3. CASE j = pos
        <4>1. pos >= 2 /\ pos \div 2 \in 1..len /\ pos \div 2 \notin {pos, c}
          BY <1>1, <1>2, <1>5, <3>1, <3>3
        <4>2. tasks[pos \div 2].next <= tasks[c].next
          BY <1>1, <1>2, <1>5, <2>3, <4>1
        <4> QED
          BY <1>6, <2>4, <3>3, <4>1, <4>2
      <3>4. CASE j \notin {c, pos} /\ j \div 2 = pos
        BY <1>2, <1>5, <1>6, <2>4, <3>1, <3>4
      <3>5. CASE j \notin {c, pos} /\ j \div 2 # pos
        BY <1>6, <2>2, <2>4, <2>5, <3>1, <3>5
      <3> QED
        BY <3>2, <3>3, <3>4, <3>5
    <2>6. ASSUME NEW j \in 2..Last, j \div 2 = c
          PROVE  tasks'[c \div 2].next <= tasks'[j].next
      <3>1. j \in 1..len /\ j \notin {pos, c} /\ j \div 2 # pos
        BY <1>1, <1>2, <1>5, <2>6
      <3>2. tasks[c].next <= tasks[j].next
        BY <2>2, <2>6, <3>1
      <3> QED
        BY <1>2, <1>6, <2>4, <3>1, <3>2
    <2> QED
      BY <1>1, <1>4, <2>1, <2>5, <2>6 DEF OrderInv, Ordered
  <1>10. PoppedInv'
    <2>1. len \in Slot \ {pos, c}
      BY <1>0, <1>1, <1>2, <1>5, SlotFacts DEF Slot, Last
    <2> QED
      BY <1>0, <1>1, <1>4, <1>6, <2>1 DEF PoppedInv
  <1> QED
    BY <1>6, <1>7, <1>8, <1>9, <1>10 DEF Inv

\* The element has sunk as far as it goes: the heap proper is in order, but
\* for the hole above it that only heap.Remove can have left.
LEMMA DownDoneStep == Inv /\ DownDone => Inv'
  <1> SUFFICES ASSUME Inv, DownDone PROVE Inv'
    OBVIOUS
  <1>0. TypeOK /\ ShapeInv /\ OrderInv /\ EntryInv /\ PoppedInv
    BY DEF Inv
  <1>1. /\ at = "down" /\ ~Sinks(pos) /\ len \in Nat /\ len >= 1 /\ pos \in Nat \ {0}
        /\ pos \in 1..Size \/ (pos = 1 /\ kind = "tick")
        /\ kind \in {"remove", "tick"} /\ (kind = "tick" => moved \/ pos = 1)
    BY <1>0, QueueAssumption DEF DownDone, TypeOK, ShapeInv
  <1>2. /\ at' = IF kind = "remove" /\ ~moved THEN "up" ELSE "pop"
        /\ UNCHANGED <<heapVars, kind, arg, pos, moved, now, out, was, twinned>>
    BY DEF DownDone
  <1>3. /\ UNCHANGED <<tasks, len, taskIdx, kind, arg, pos, moved, now, out, was, twinned>>
        /\ at' \in {"up", "pop"} /\ (at' = "up" => kind = "remove" /\ ~moved)
        /\ (at' = "pop" => moved \/ pos = 1)
    BY <1>1, <1>2 DEF heapVars
  <1>4. TypeOK' /\ EntryInv'
    BY <1>0, <1>3 DEF TypeOK, EntryInv
  <1>5. Size = Last /\ Size' = Last
    BY <1>1, <1>3 DEF Size, Last
  <1>6. ShapeInv'
    <2>1. at' = "up" => pos' \in 1..Size'
      BY <1>1, <1>3, <1>5
    <2>2. \A j \in 1..len' : tasks'[j] \in Task
      BY <1>0, <1>3 DEF ShapeInv
    <2> QED
      BY <1>1, <1>3, <2>1, <2>2 DEF ShapeInv
  <1>7. ASSUME NEW j \in 2..Last, j \div 2 = pos
        PROVE  Ordered(j)
    <2>1. 2 * pos <= Last /\ j \in 1..Last /\ j \in 1..len
      BY <1>1, <1>7 DEF Last
    <2>2. tasks[Child(pos)].next <= tasks[j].next /\ Child(pos) \in 1..len
      <3>1. pos \in Nat \ {0} /\ len \in Nat
        BY <1>1
      <3>2. /\ Child(pos) \in {2 * pos, 2 * pos + 1} /\ Child(pos) <= Last
            /\ \A k \in 1..Last : k \div 2 = pos => tasks[Child(pos)].next <= tasks[k].next
        BY <1>0, <2>1, <3>1, ChildFacts
      <3>3. Child(pos) \in 1..len
        BY <3>1, <3>2 DEF Last
      <3> QED
        BY <1>7, <2>1, <3>2, <3>3
    <2>3. ~Less(Child(pos), pos)
      BY <1>1, <2>1 DEF Sinks
    <2>4. tasks[pos].next \in Int /\ tasks[j].next \in Int /\ tasks[Child(pos)].next \in Int
      BY <1>0, <1>1, <1>7, <2>1, <2>2, SlotFacts
    <2> QED
      BY <1>7, <2>2, <2>3, <2>4 DEF Less, Ordered
  <1>8. \A j \in 2..Last : moved \/ j # pos => Ordered(j)
    BY <1>0, <1>1, <1>5, <1>7 DEF OrderInv
  <1>9. OrderInv'
    <2>1. at' = "pop" => \A j \in 2..Size' : Ordered(j)
      BY <1>1, <1>3, <1>5, <1>8
    <2>2. \A j \in 2..Size' : j \div 2 = pos /\ pos >= 2 => tasks[pos \div 2].next <= tasks[j].next
      BY <1>0, <1>1, <1>5 DEF OrderInv
    <2> QED
      BY <1>3, <1>5, <1>8, <2>1, <2>2 DEF OrderInv, Ordered
  <1>10. PoppedInv'
    BY <1>0, <1>1, <1>3 DEF PoppedInv
  <1> QED
    BY <1>4, <1>6, <1>9, <1>10 DEF Inv

\* The element goes up past its parent.
LEMMA UpSwapStep == Inv /\ UpSwap => Inv'
  <1> SUFFICES ASSUME Inv, UpSwap PROVE Inv'
    OBVIOUS
  <1>0. TypeOK /\ ShapeInv /\ OrderInv /\ EntryInv /\ PoppedInv
    BY DEF Inv
  <1> DEFINE p == pos \div 2
  <1>1. /\ at = "up" /\ len \in Nat /\ len <= Cap /\ Cap \in Nat
        /\ kind \in {"add", "remove"} /\ pos \in 1..Size
        /\ pos # 1 /\ tasks[pos].next < tasks[p].next
    BY <1>0, QueueAssumption DEF UpSwap, Rises, Less, TypeOK, ShapeInv
  <1>2. /\ Swap(p, pos) /\ pos' = p
        /\ UNCHANGED <<at, kind, arg, moved, now, out, was, twinned>>
    BY DEF UpSwap
  <1>3. /\ Size \in Nat /\ Size <= len /\ pos \in 1..len /\ p \in 1..len /\ p < pos
        /\ p \in 1..Size
    BY <1>1 DEF Size
  <1>4. /\ tasks' \in [Slot -> Task \cup {Null}] /\ taskIdx' \in [ID -> 0..Cap]
        /\ len' = len /\ tasks'[p] = tasks[pos] /\ tasks'[pos] = tasks[p]
        /\ \A k \in Slot \ {p, pos} : tasks'[k] = tasks[k]
        /\ \A k \in 1..len : tasks'[k] \in Task
        /\ EntryInv'
    BY <1>0, <1>2, <1>3, SwapFacts
  <1>5. TypeOK'
    BY <1>0, <1>1, <1>2, <1>3, <1>4, TypeByParts DEF TypeOK
  <1>6. Size' = Size
    BY <1>2, <1>4 DEF Size
  <1>7. ShapeInv'
    BY <1>0, <1>1, <1>2, <1>3, <1>4, <1>6 DEF ShapeInv
  <1>8. OrderInv'
    <2>1. \A j \in 2..Size : j # pos => tasks[j \div 2].next <= tasks[j].next
      BY <1>0, <1>1 DEF OrderInv, Ordered
    <2>2. \A j \in 2..Size : j \div 2 = pos => tasks[p].next <= tasks[j].next
      BY <1>0, <1>1, <1>3 DEF OrderInv
    <2>3. \A j \in 1..len : tasks[j].next \in Int /\ j \in Slot
      BY <1>0, SlotFacts
    <2>4. ASSUME NEW j \in 2..Size, j # p
          PROVE  tasks'[j \div 2].next <= tasks'[j].next
      <3>1. j \in 1..len /\ j \div 2 \in 1..len /\ j \div 2 < j
        BY <1>1, <1>3
      <3>2. CASE j = pos
        BY <1>1, <1>3, <1>4, <2>3, <3>2
      <3>3. CASE j # pos /\ j \div 2 = pos
        BY <1>4, <2>2, <2>3, <2>4, <3>1, <3>3
      <3>4. CASE j # pos /\ j \div 2 = p
        <4>1. tasks[p].next <= tasks[j].next
          BY <2>1, <3>4
        <4> QED
          BY <1>1, <1>3, <1>4, <2>3, <2>4, <3>1, <3>4, <4>1
      <3>5. CASE j # pos /\ j \div 2 \notin {p, pos}
        BY <1>4, <2>1, <2>3, <2>4, <3>1, <3>5
      <3> QED
        BY <3>2, <3>3, <3>4, <3>5
    <2>5. ASSUME NEW j \in 2..Size, j \div 2 = p, p >= 2
          PROVE  tasks'[p \div 2].next <= tasks'[j].next
      <3>1. p \div 2 \in 1..len /\ p \div 2 \notin {p, pos} /\ p \in 2..Size /\ p # pos
        BY <1>1, <1>3, <2>5
      <3>2. tasks[p \div 2].next <= tasks[p].next
        BY <2>1, <3>1
      <3>3. j \in 1..len /\ j # p
        BY <1>1, <1>3, <2>5
      <3>4. CASE j = pos
        BY <1>3, <1>4, <2>3, <3>1, <3>2, <3>4
      <3>5. CASE j # pos
        <4>1. tasks[p].next <= tasks[j].next
          BY <2>1, <2>5, <3>5
        <4> QED
          BY <1>3, <1>4, <2>3, <3>1, <3>2, <3>3, <3>5, <4>1
      <3> QED
        BY <3>4, <3>5
    <2> QED
      BY <1>1, <1>2, <1>6, <2>4, <2>5 DEF OrderInv, Ordered
  <1>9. PoppedInv'
    BY <1>1, <1>2 DEF PoppedInv
  <1> QED
    BY <1>4, <1>5, <1>7, <1>8, <1>9 DEF Inv

\* What Unlock leaves of the invariant to show.
LEMMA UnlockFacts ==
    ASSUME Inv, Unlock, UNCHANGED twinned,
           tasks' \in [Slot -> Task \cup {Null}], len' \in 0..Cap, taskIdx' \in [ID -> 0..Cap],
           \A j \in 1..len' : tasks'[j] \in Task,
           \A j \in 2..len' : tasks'[j \div 2].next <= tasks'[j].next,
           EntryInv'
    PROVE  Inv'
  <1>1. TypeOK /\ Cap \in Nat
    BY QueueAssumption DEF Inv
  <1>2. /\ at' = "idle" /\ kind' = "add" /\ arg' = Null /\ pos' = 1 /\ moved' = FALSE
        /\ now' = 0 /\ out' = {} /\ was' = Nothing
    BY DEF Unlock
  <1>3. TypeOK'
    <2>1. pos' \in 1..(Cap + 1) /\ at' = "idle"
      BY <1>1, <1>2
    <2>3. moved' \in BOOLEAN /\ out' \subseteq Task
      BY <1>2, Zenon
    <2>2. kind' = "add" /\ arg' = Null /\ now' = 0 /\ was' = Nothing
      BY <1>2
    <2> QED
      BY <1>1, <2>1, <2>2, <2>3, TypeByParts
  <1>4. ShapeInv' /\ OrderInv' /\ PoppedInv'
    BY <1>2 DEF ShapeInv, OrderInv, PoppedInv, Size, Ordered
  <1> QED
    BY <1>3, <1>4 DEF Inv

\* The risen element is not before its parent: nothing is out of order.
LEMMA UpDoneStep == Inv /\ UpDone => Inv'
  <1> SUFFICES ASSUME Inv, UpDone PROVE Inv'
    OBVIOUS
  <1>0. TypeOK /\ ShapeInv /\ OrderInv /\ EntryInv /\ PoppedInv
    BY DEF Inv
  <1>1. /\ at = "up" /\ len \in 0..Cap /\ kind \in {"add", "remove"} /\ pos \in 1..Size
        /\ ~Rises(pos) /\ UNCHANGED <<tasks, len, taskIdx, twinned>>
    BY <1>0 DEF UpDone, TypeOK, ShapeInv, heapVars
  <1>2. Size \in Int /\ Size <= len /\ len \in Nat
    BY <1>1, QueueAssumption DEF Size
  <1>3. \A j \in 1..len : tasks[j].next \in Int
    BY <1>0, SlotFacts
  <1>4. \A j \in 2..Size : tasks[j \div 2].next <= tasks[j].next
    <2> SUFFICES ASSUME NEW j \in 2..Size PROVE tasks[j \div 2].next <= tasks[j].next
      OBVIOUS
    <2>1. j \in 1..len /\ j \div 2 \in 1..len
      BY <1>1, <1>2
    <2>2. CASE j # pos
      BY <1>0, <1>1, <2>2 DEF OrderInv, Ordered
    <2>3. CASE j = pos
      BY <1>1, <1>3, <2>1, <2>3 DEF Rises, Less
    <2> QED
      BY <2>2, <2>3
  <1>5. EntryInv'
    BY <1>0, <1>1 DEF EntryInv
  <1>6. CASE kind = "remove"
    <2>1. at' = "pop" /\ UNCHANGED <<kind, arg, pos, moved, now, out, was>>
      BY <1>6 DEF UpDone
    <2>2. Size = len - 1 /\ Size' = len - 1 /\ len >= 1
      BY <1>1, <1>2, <1>6, <2>1 DEF Size
    <2>3. TypeOK'
      BY <1>0, <1>1, <2>1 DEF TypeOK
    <2>4. ShapeInv' /\ OrderInv' /\ PoppedInv'
      BY <1>0, <1>1, <1>4, <1>6, <2>1, <2>2 DEF ShapeInv, OrderInv, PoppedInv, Ordered
    <2> QED
      BY <1>5, <2>3, <2>4 DEF Inv
  <1>7. CASE kind = "add"
    <2>1. Unlock /\ Size = len
      BY <1>1, <1>7 DEF UpDone, Size
    <2> QED
      BY <1>0, <1>1, <1>4, <1>5, <2>1, UnlockFacts DEF TypeOK, ShapeInv
  <1> QED
    BY <1>1, <1>6, <1>7

\* The slot behind the heap proper goes, and with it the entry of its task.
LEMMA PopLastStep == Inv /\ PopLast => Inv'
  <1> SUFFICES ASSUME Inv, PopLast PROVE Inv'
    OBVIOUS
  <1>0. TypeOK /\ ShapeInv /\ OrderInv /\ EntryInv /\ PoppedInv
    BY DEF Inv
  <1>1. /\ at = "pop" /\ kind \in {"remove", "tick"} /\ len >= 1 /\ len \in 0..Cap /\ Cap \in Nat
        /\ tasks \in [Slot -> Task \cup {Null}] /\ taskIdx \in [ID -> 0..Cap]
    BY <1>0, QueueAssumption DEF PopLast, TypeOK, ShapeInv
  <1>2. /\ tasks' = [tasks EXCEPT ![len] = Null] /\ len' = len - 1
        /\ taskIdx' = [taskIdx EXCEPT ![tasks[len].id] = 0] /\ UNCHANGED twinned
    BY DEF PopLast, Pop
  <1>3. \A j \in 1..len : /\ j \in Slot /\ tasks[j] \in Task
                          /\ tasks[j].id \in ID /\ tasks[j].next \in Int
    BY <1>0, SlotFacts
  <1>4. \A j \in 1..len' : j \in 1..len /\ j # len /\ tasks'[j] = tasks[j]
    BY <1>1, <1>2, <1>3
  <1>5. /\ tasks' \in [Slot -> Task \cup {Null}] /\ len' \in 0..Cap
        /\ taskIdx' \in [ID -> 0..Cap] /\ \A j \in 1..len' : tasks'[j] \in Task
    BY <1>1, <1>2, <1>3, <1>4
  <1>6. \A j \in 2..len' : tasks'[j \div 2].next <= tasks'[j].next
    <2>1. Size = len'
      BY <1>1, <1>2 DEF Size
    <2>2. \A j \in 2..len' : tasks[j \div 2].next <= tasks[j].next
      BY <1>0, <1>1, <2>1 DEF OrderInv, Ordered
    <2>3. \A j \in 2..len' : j \in 1..len' /\ j \div 2 \in 1..len'
      BY <1>1, <1>2
    <2> QED
      BY <1>4, <2>2, <2>3
  <1>7. EntryInv'
    <2>1. ASSUME NEW x \in ID, taskIdx'[x] # 0
          PROVE  taskIdx'[x] <= len' /\ tasks'[taskIdx'[x]].id = x
      <3>1. x # tasks[len].id /\ taskIdx'[x] = taskIdx[x]
        BY <1>1, <1>2, <1>3, <2>1
      <3>2. taskIdx[x] <= len /\ tasks[taskIdx[x]].id = x /\ taskIdx[x] \in 1..Cap
        BY <1>0, <1>1, <2>1, <3>1 DEF EntryInv
      <3>3. taskIdx[x] \in 1..len'
        BY <1>1, <1>2, <3>1, <3>2
      <3> QED
        BY <1>4, <3>1, <3>2, <3>3
    <2>2. ASSUME NEW k \in 1..len', tasks'[k].id \notin twinned'
          PROVE  taskIdx'[tasks'[k].id] = k
      <3>1. k \in 1..len /\ k # len /\ tasks'[k] = tasks[k] /\ tasks[k].id \notin twinned
        BY <1>2, <1>4, <2>2
      <3>2. taskIdx[tasks[k].id] = k
        BY <1>0, <3>1 DEF EntryInv
      <3>3. tasks[k].id # tasks[len].id
        BY <1>0, <1>1, <3>1, <3>2 DEF EntryInv
      <3> QED
        BY <1>1, <1>2, <1>3, <3>1, <3>2, <3>3
    <2> QED
      BY <2>1, <2>2 DEF EntryInv
  <1>8. CASE kind = "tick"
    <2>1. /\ at' = "next" /\ out' = out \cup {tasks[len]}
          /\ UNCHANGED <<kind, arg, pos, moved, now, was>>
      BY <1>8 DEF PopLast
    <2>2. TypeOK'
      <3>1. pos' \in 1..(Cap + 1) /\ moved' \in BOOLEAN /\ out' \subseteq Task
        BY <1>0, <1>1, <1>3, <2>1 DEF TypeOK
      <3> QED
        BY <1>0, <1>2, <1>5, <2>1, <3>1, TypeByParts
    <2>3. ShapeInv' /\ OrderInv'
      BY <1>5, <1>6, <1>8, <2>1 DEF ShapeInv, OrderInv, Size, Ordered
    <2>4. PoppedInv'
      BY <1>0, <1>1, <1>8, <2>1 DEF PoppedInv
    <2> QED
      BY <1>7, <2>2, <2>3, <2>4 DEF Inv
  <1>9. CASE kind = "remove"
    <2>1. Unlock
      BY <1>9 DEF PopLast
    <2> QED
      BY <1>2, <1>5, <1>6, <1>7, <2>1, UnlockFacts
  <1> QED
    BY <1>1, <1>8, <1>9

\* A task is pushed behind the others; only the new slot may be out of order.
LEMMA AddTaskStep == ASSUME Inv, NEW t \in Task, AddTask(t) PROVE Inv'
  <1>0. TypeOK /\ ShapeInv /\ OrderInv /\ EntryInv
    BY DEF Inv
  <1>1. /\ at = "idle" /\ len \in 0..Cap /\ len < Cap /\ Cap \in Nat /\ t.id \in ID
        /\ tasks \in [Slot -> Task \cup {Null}] /\ taskIdx \in [ID -> 0..Cap] /\ twinned \subseteq ID
    BY <1>0, QueueAssumption DEF AddTask, Lock, TypeOK
  <1>2. /\ kind' = "add" /\ arg' = t /\ was' = [stored |-> Held, index |-> Named]
        /\ twinned' = twinned \cup {u.id : u \in {v \in Held : v.id = t.id}}
        /\ tasks' = [tasks EXCEPT ![len + 1] = t] /\ len' = len + 1
        /\ taskIdx' = [taskIdx EXCEPT ![t.id] = len + 1]
        /\ at' = "up" /\ pos' = len + 1 /\ UNCHANGED <<moved, now, out>>
    BY DEF AddTask, Lock, Push
  <1>3. \A j \in 1..len : /\ j \in Slot /\ tasks[j] \in Task
                          /\ tasks[j].id \in ID /\ tasks[j].next \in Int
    BY <1>0, SlotFacts
  <1>4. /\ \A j \in 1..len : tasks'[j] = tasks[j]
        /\ tasks'[len + 1] = t /\ len + 1 \in Slot
    BY <1>1, <1>2, <1>3 DEF Slot
  <1>5. Held \subseteq Task /\ Named \in [ID -> Task \cup {Null}]
    <2>1. Held \subseteq Task
      BY <1>3 DEF Held
    <2>2. \A i \in ID : taskIdx[i] # 0 => tasks[taskIdx[i]] \in Task \cup {Null}
      BY <1>1 DEF Slot
    <2> QED
      BY <2>1, <2>2 DEF Named
  <1>6. TypeOK'
    <2>1. /\ tasks' \in [Slot -> Task \cup {Null}] /\ len' \in 0..Cap
          /\ taskIdx' \in [ID -> 0..Cap] /\ pos' \in 1..(Cap + 1)
      BY <1>1, <1>2, <1>4 DEF Slot
    <2>2. was' \in [stored : SUBSET Task, index : [ID -> Task \cup {Null}]]
      BY <1>2, <1>5
    <2>3. twinned' \subseteq ID
      BY <1>1, <1>2
    <2> QED
      BY <1>0, <1>2, <2>1, <2>2, <2>3 DEF TypeOK
  <1>7. Size = len /\ Size' = len + 1
    BY <1>1, <1>2 DEF Size
  <1>8. ShapeInv'
    <2>1. \A j \in 1..len' : tasks'[j] \in Task
      BY <1>1, <1>2, <1>3, <1>4
    <2> QED
      BY <1>1, <1>2, <1>7, <2>1 DEF ShapeInv
  <1>9. OrderInv'
    <2>1. \A j \in 2..len : tasks[j \div 2].next <= tasks[j].next
      BY <1>0, <1>1, <1>7 DEF OrderInv, Ordered
    <2>2. ASSUME NEW j \in 2..(len + 1), j # len + 1
          PROVE  tasks'[j \div 2].next <= tasks'[j].next
      <3>1. j \in 2..len /\ j \in 1..len /\ j \div 2 \in 1..len
        BY <1>1, <2>2
      <3> QED
        BY <1>4, <2>1, <3>1
    <2>3. ASSUME NEW j \in 2..(len + 1) PROVE j \div 2 # len + 1
      BY <1>1
    <2> QED
      BY <1>2, <1>7, <2>2, <2>3 DEF OrderInv, Ordered
  <1>10. EntryInv'
    <2>1. ASSUME NEW x \in ID, taskIdx'[x] # 0
          PROVE  taskIdx'[x] <= len' /\ tasks'[taskIdx'[x]].id = x
      <3>1. CASE x = t.id
        BY <1>1, <1>2, <1>4, <3>1
      <3>2. CASE x # t.id
        <4>1. taskIdx'[x] = taskIdx[x] /\ taskIdx[x] \in 1..len /\ tasks[taskIdx[x]].id = x
          BY <1>0, <1>1, <1>2, <2>1, <3>2 DEF EntryInv
        <4> QED
          BY <1>1, <1>2, <1>4, <4>1
      <3> QED
        BY <3>1, <3>2
    <2>2. ASSUME NEW k \in 1..len', tasks'[k].id \notin twinned'
          PROVE  taskIdx'[tasks'[k].id] = k
      <3>1. CASE k = len + 1
        BY <1>1, <1>2, <1>4, <3>1
      <3>2. CASE k \in 1..len
        <4>1. tasks'[k] = tasks[k] /\ tasks[k].id \notin twinned /\ tasks[k] \in Held
          BY <1>2, <1>4, <2>2, <3>2 DEF Held
        <4>2. tasks[k].id # t.id
          BY <1>2, <2>2, <4>1
        <4> QED
          BY <1>0, <1>1, <1>2, <1>3, <3>2, <4>1, <4>2 DEF EntryInv
      <3> QED
        BY <1>1, <1>2, <3>1, <3>2
    <2> QED
      BY <2>1, <2>2 DEF EntryInv
  <1> QED
    BY <1>2, <1>6, <1>8, <1>9, <1>10 DEF Inv, PoppedInv

\* The last task takes the slot of the one to go, which may be too early or
\* too late for it.
LEMMA RemoveTaskStep == ASSUME Inv, NEW i \in ID, RemoveTask(i) PROVE Inv'
  <1>0. TypeOK /\ ShapeInv /\ OrderInv /\ EntryInv
    BY DEF Inv
  <1> DEFINE k == taskIdx[i]
  <1>1. /\ at = "idle" /\ len \in 0..Cap /\ Cap \in Nat /\ k # 0 /\ ~moved
        /\ tasks \in [Slot -> Task \cup {Null}] /\ taskIdx \in [ID -> 0..Cap]
    BY <1>0, QueueAssumption DEF RemoveTask, Lock, TypeOK, ShapeInv
  <1>2. k \in 1..len /\ len \in 1..len /\ k \in 1..(Cap + 1) /\ len \in Nat
    BY <1>0, <1>1 DEF EntryInv
  <1>3. /\ kind' = "remove" /\ arg' = i /\ was' = [stored |-> Held, index |-> Named]
        /\ pos' = k /\ UNCHANGED <<moved, now, out, twinned>>
        /\ \/ k = len /\ at' = "pop" /\ UNCHANGED <<tasks, len, taskIdx>>
           \/ k # len /\ at' = "down" /\ Swap(k, len)
    BY DEF RemoveTask, Lock, heapVars
  <1>4. \A j \in 1..len : /\ j \in Slot /\ tasks[j] \in Task /\ tasks[j].next \in Int
    BY <1>0, SlotFacts
  <1>5. was' \in [stored : SUBSET Task, index : [ID -> Task \cup {Null}]]
    <2>1. Held \subseteq Task
      BY <1>4 DEF Held
    <2>2. \A x \in ID : taskIdx[x] # 0 => tasks[taskIdx[x]] \in Task \cup {Null}
      BY <1>1 DEF Slot
    <2> QED
      BY <1>3, <2>1, <2>2 DEF Named
  <1>6. \A j \in 2..len : tasks[j \div 2].next <= tasks[j].next
    BY <1>0, <1>1 DEF OrderInv, Ordered, Size
  <1>7. PoppedInv'
    BY <1>3 DEF PoppedInv
  <1>8. len' = len /\ Size' = len - 1
    BY <1>3 DEF Size, Swap
  <1> HIDE DEF k
  <1>9. CASE k = len
    <2>1. at' = "pop" /\ UNCHANGED <<tasks, len, taskIdx>>
      BY <1>3, <1>9
    <2>2. TypeOK'
      BY <1>0, <1>2, <1>3, <1>5, <2>1 DEF TypeOK
    <2>3. ShapeInv' /\ EntryInv'
      BY <1>0, <1>2, <1>3, <2>1 DEF ShapeInv, EntryInv
    <2>4. OrderInv'
      BY <1>2, <1>6, <1>8, <2>1 DEF OrderInv, Ordered
    <2> QED
      BY <1>7, <2>2, <2>3, <2>4 DEF Inv
  <1>10. CASE k # len
    <2>1. at' = "down" /\ Swap(k, len)
      BY <1>3, <1>10
    <2>2. /\ tasks' \in [Slot -> Task \cup {Null}] /\ taskIdx' \in [ID -> 0..Cap]
          /\ tasks'[k] = tasks[len] /\ tasks'[len] = tasks[k]
          /\ \A j \in Slot \ {k, len} : tasks'[j] = tasks[j]
          /\ \A j \in 1..len : tasks'[j] \in Task
          /\ EntryInv'
      BY <1>0, <1>2, <1>3, <2>1, SwapFacts
    <2>3. TypeOK'
      BY <1>0, <1>2, <1>3, <1>5, <1>8, <2>1, <2>2 DEF TypeOK
    <2>4. ShapeInv'
      BY <1>1, <1>2, <1>3, <1>8, <1>10, <2>1, <2>2 DEF ShapeInv
    <2>5. ASSUME NEW j \in 2..(len - 1), j \div 2 # k, j # k
          PROVE  tasks'[j \div 2].next <= tasks'[j].next
      <3>1. j \in 1..len /\ j # len /\ j \div 2 \in 1..len /\ j \div 2 # len
        BY <1>2
      <3> QED
        BY <1>4, <1>6, <2>2, <2>5, <3>1
    <2>6. ASSUME NEW j \in 2..(len - 1), j \div 2 = k, k >= 2
          PROVE  tasks'[k \div 2].next <= tasks'[j].next
      <3>1. /\ j \in 1..len /\ j \notin {k, len} /\ k \in 2..len
            /\ k \div 2 \in 1..len /\ k \div 2 \notin {k, len}
        BY <1>2, <2>6
      <3>2. tasks[k \div 2].next <= tasks[k].next /\ tasks[k].next <= tasks[j].next
        BY <1>6, <2>6, <3>1
      <3>3. tasks[k \div 2].next <= tasks[j].next
        BY <1>2, <1>4, <3>1, <3>2
      <3> QED
        BY <1>4, <2>2, <3>1, <3>3
    <2>7. OrderInv'
      BY <1>1, <1>3, <1>8, <2>1, <2>5, <2>6 DEF OrderInv, Ordered
    <2> QED
      BY <1>7, <2>2, <2>3, <2>4, <2>7 DEF Inv
  <1> QED
    BY <1>9, <1>10

\* Tick begins.
LEMMA TickStep == Inv /\ Tick => Inv'
  <1> SUFFICES ASSUME Inv, Tick PROVE Inv'
    OBVIOUS
  <1>0. TypeOK /\ ShapeInv /\ OrderInv /\ EntryInv
    BY DEF Inv
  <1>1. /\ at = "idle" /\ kind' = "tick" /\ arg' = Null /\ at' = "next" /\ now' \in Int
        /\ was' = [stored |-> Held, index |-> Named]
        /\ UNCHANGED <<tasks, len, taskIdx, pos, moved, out, twinned>>
    BY QueueAssumption DEF Tick, Lock, heapVars
  <1>2. was' \in [stored : SUBSET Task, index : [ID -> Task \cup {Null}]]
    <2>1. Held \subseteq Task
      BY <1>0, SlotFacts DEF Held
    <2>2. \A x \in ID : taskIdx[x] # 0 => tasks[taskIdx[x]] \in Task \cup {Null}
      BY <1>0, QueueAssumption DEF TypeOK, Slot
    <2> QED
      BY <1>1, <2>1, <2>2 DEF Named
  <1>3. TypeOK'
    BY <1>0, <1>1, <1>2 DEF TypeOK
  <1>4. ShapeInv' /\ EntryInv' /\ PoppedInv'
    BY <1>0, <1>1 DEF ShapeInv, EntryInv, PoppedInv
  <1>5. OrderInv'
    BY <1>0, <1>1 DEF OrderInv, Size, Ordered
  <1> QED
    BY <1>3, <1>4, <1>5 DEF Inv

\* The root is due and trades places with the last task.
LEMMA TickPopStep == Inv /\ TickPop => Inv'
  <1> SUFFICES ASSUME Inv, TickPop PROVE Inv'
    OBVIOUS
  <1>0. TypeOK /\ ShapeInv /\ OrderInv /\ EntryInv /\ PoppedInv
    BY DEF Inv
  <1>1. /\ at = "next" /\ kind = "tick" /\ len \in 0..Cap /\ Cap \in Nat
        /\ len > 0 /\ tasks[1].next <= now
    BY <1>0, QueueAssumption DEF TickPop, Due, TypeOK, ShapeInv
  <1>2. /\ Swap(1, len) /\ at' = "down" /\ pos' = 1 /\ moved' = FALSE
        /\ UNCHANGED <<kind, arg, now, out, was, twinned>>
    BY DEF TickPop
  <1>3. 1 \in 1..len /\ len \in 1..len /\ len \in Nat /\ 1 \in 1..(Cap + 1)
    BY <1>1
  <1>4. /\ tasks' \in [Slot -> Task \cup {Null}] /\ taskIdx' \in [ID -> 0..Cap]
        /\ len' = len /\ tasks'[1] = tasks[len] /\ tasks'[len] = tasks[1]
        /\ \A j \in Slot \ {1, len} : tasks'[j] = tasks[j]
        /\ \A j \in 1..len : tasks'[j] \in Task
        /\ EntryInv'
    BY <1>0, <1>2, <1>3, SwapFacts
  <1>5. TypeOK'
    <2>1. moved' \in BOOLEAN /\ out' \subseteq Task
      BY <1>0, <1>2, Zenon DEF TypeOK
    <2> QED
      BY <1>0, <1>1, <1>2, <1>3, <1>4, <2>1, TypeByParts
  <1>6. ShapeInv'
    BY <1>1, <1>2, <1>4 DEF ShapeInv
  <1>7. OrderInv'
    <2>1. Size = len /\ Size' = len - 1
      BY <1>1, <1>2, <1>4 DEF Size
    <2>2. \A j \in 2..len : tasks[j \div 2].next <= tasks[j].next
      BY <1>0, <1>1, <2>1 DEF OrderInv, Ordered
    <2>3. ASSUME NEW j \in 2..(len - 1), j \div 2 # 1
          PROVE  tasks'[j \div 2].next <= tasks'[j].next
      <3>1. /\ j \in 1..len /\ j \notin {1, len} /\ j \div 2 \in 1..len
            /\ j \div 2 \notin {1, len}
        BY <1>3, <2>3
      <3> QED
        BY <1>0, <1>4, <2>2, <3>1, SlotFacts
    <2> QED
      BY <1>2, <2>1, <2>3 DEF OrderInv, Ordered
  <1>8. PoppedInv'
    BY <1>0, <1>1, <1>2, <1>4 DEF PoppedInv
  <1> QED
    BY <1>4, <1>5, <1>6, <1>7, <1>8 DEF Inv

\* Tick returns.
LEMMA TickReturnStep == Inv /\ TickReturn => Inv'
  <1> SUFFICES ASSUME Inv, TickReturn PROVE Inv'
    OBVIOUS
  <1>0. TypeOK /\ ShapeInv /\ OrderInv /\ EntryInv
    BY DEF Inv
  <1>1. at = "next" /\ Unlock /\ UNCHANGED <<tasks, len, taskIdx, twinned>>
    BY DEF TickReturn, heapVars
  <1>2. \A j \in 2..len : tasks[j \div 2].next <= tasks[j].next
    BY <1>0, <1>1 DEF OrderInv, Ordered, Size
  <1>3. EntryInv' /\ TypeOK
    BY <1>0, <1>1 DEF EntryInv
  <1> QED
    BY <1>0, <1>1, <1>2, <1>3, UnlockFacts DEF TypeOK, ShapeInv

-----------------------------------------------------------------------------
LEMMA InvInit == Init => Inv
  <1> SUFFICES ASSUME Init PROVE Inv
    OBVIOUS
  <1>1. /\ tasks = [j \in Slot |-> Null] /\ len = 0 /\ taskIdx = [i \in ID |-> 0]
        /\ at = "idle" /\ kind = "add" /\ arg = Null /\ pos = 1
        /\ now = 0 /\ was = Nothing /\ twinned = {} /\ Cap \in Nat
    BY QueueAssumption DEF Init
  <1>2. moved = FALSE /\ out = {} /\ moved \in BOOLEAN /\ out \subseteq Task
    BY Zenon DEF Init
  <1>3. TypeOK
    BY <1>1, <1>2 DEF TypeOK, Nothing
  <1> QED
    BY <1>1, <1>2, <1>3 DEF Inv, ShapeInv, OrderInv, EntryInv, PoppedInv, Size

LEMMA InvNext == Inv /\ [Next]_vars => Inv'
  <1> SUFFICES ASSUME Inv, [Next]_vars PROVE Inv'
    OBVIOUS
  <1>1. CASE \E t \in Task : AddTask(t)
    BY <1>1, AddTaskStep
  <1>2. CASE \E i \in ID : RemoveTask(i)
    BY <1>2, RemoveTaskStep
  <1>3. CASE Tick
    BY <1>3, TickStep
  <1>4. CASE Sift
    BY <1>4, DownSwapStep, DownDoneStep, UpSwapStep, UpDoneStep, PopLastStep,
       TickPopStep, TickReturnStep DEF Sift
  <1>5. CASE UNCHANGED vars
    BY <1>5 DEF Inv, TypeOK, ShapeInv, OrderInv, EntryInv, PoppedInv, Size, Ordered,
                vars, heapVars, opVars
  <1> QED
    BY <1>1, <1>2, <1>3, <1>4, <1>5 DEF Next

THEOREM Invariant == Spec => []Inv
  BY InvInit, InvNext, PTL DEF Spec

-----------------------------------------------------------------------------
(***************************************************************************)
(* What follows from it.                                                   *)
(***************************************************************************)
\* Every variable keeps its type: no slot or entry outside the slice is
\* ever named.
THEOREM TypeCorrect == Spec => []TypeOK
  BY Invariant, PTL DEF Inv

\* No task is before its parent between two operations, so the next task to
\* run is always at the root.
THEOREM HeapIsOrdered == Spec => []HeapOrder
  <1>1. Inv => HeapOrder
    BY DEF Inv, OrderInv, HeapOrder, Free, Size, Ordered
  <1> QED
    BY <1>1, Invariant, PTL

\* The map never points a removal at another task.
THEOREM EntriesAreRight == Spec => []EntryNamesTask
  <1>1. Inv => EntryNamesTask
    BY DEF Inv, EntryInv, EntryNamesTask
  <1> QED
    BY <1>1, Invariant, PTL

\* No task with an ID of its own is out of reach of TaskExist or RemoveTask.
THEOREM NoTaskIsOrphaned == Spec => []NoOrphan
  <1>1. Inv => NoOrphan
    BY DEF Inv, EntryInv, NoOrphan
  <1> QED
    BY <1>1, Invariant, PTL

\* A set of numbers has a smallest one.
LEMMA Smallest ==
    ASSUME NEW T, T \subseteq Nat, T # {}
    PROVE  \E x \in T : \A y \in T : x <= y
  <1> DEFINE R == OpToRel(<, Nat)
  <1>1. IsWellFoundedOn(R, Nat)
    BY NatLessThanWellFounded
  <1>2. \A x, y \in Nat : x < y => <<x, y>> \in R
    BY DEF OpToRel
  <1> HIDE DEF R
  <1>3. \E x \in T : \A y \in T : ~ (<<y, x>> \in R)
    BY <1>1, WFMin
  <1>4. PICK x \in T : \A y \in T : ~ (<<y, x>> \in R)
    BY <1>3
  <1>5. ASSUME NEW y \in T PROVE x <= y
    <2>1. x \in Nat /\ y \in Nat
      OBVIOUS
    <2>2. ~(y < x)
      BY <1>2, <1>4, <2>1, Zenon
    <2> QED
      BY <2>1, <2>2
  <1> QED
    BY <1>5

\* In a heap in order the root is the earliest task: otherwise take the
\* first slot with an earlier one, and look at its parent.
LEMMA RootIsEarliest ==
    ASSUME TypeOK, ShapeInv, \A j \in 2..len : Ordered(j), NEW k \in 1..len
    PROVE  tasks[1].next <= tasks[k].next
  <1>1. len \in Nat
    BY QueueAssumption DEF TypeOK
  <1>2. \A j \in 1..len : tasks[j].next \in Int
    BY SlotFacts
  <1> DEFINE Early == {j \in 1..len : tasks[j].next < tasks[1].next}
  <1>3. SUFFICES ASSUME Early # {} PROVE FALSE
    BY <1>1, <1>2
  <1>4. Early \subseteq Nat
    BY <1>1
  <1> HIDE DEF Early
  <1>5. PICK x \in Early : \A y \in Early : x <= y
    BY <1>3, <1>4, Smallest
  <1> USE DEF Early
  <1>6. x \in 2..len /\ x \div 2 \in 1..len /\ x \div 2 < x
    BY <1>1, <1>2, <1>5
  <1>7. tasks[x \div 2].next <= tasks[x].next
    BY <1>6 DEF Ordered
  <1>8. x \div 2 \in Early
    BY <1>1, <1>2, <1>5, <1>6, <1>7
  <1> QED
    BY <1>1, <1>6, <1>8, <1>5

-----------------------------------------------------------------------------
(***************************************************************************)
(* The heap implements TaskStorage: whatever sift does inside an           *)
(* operation, from outside mu the operation is one step of the storage     *)
(* that module Scheduler is built on.                                      *)
(***************************************************************************)

(***************************************************************************)
(* What the operation that holds mu has done to the tasks and the map that *)
(* it found.                                                               *)
(***************************************************************************)
\* No task is in two slots.
Distinct == \A j, k \in 1..len : tasks[j] = tasks[k] => j = k

Adding == at # "idle" /\ kind = "add" =>
    /\ arg \in Task
    /\ Held = was.stored \cup {arg}
    /\ taskIdx[arg.id] # 0
    /\ \A x \in ID : was.index[x] # Null => taskIdx[x] # 0

\* The task to be removed waits behind the heap.
Removing == at # "idle" /\ kind = "remove" =>
    /\ arg \in ID
    /\ Held = was.stored
    /\ was.index[arg] = tasks[len] /\ tasks[len].id = arg
    /\ \A x \in ID : was.index[x] # Null => taskIdx[x] # 0

Ticking == at # "idle" /\ kind = "tick" =>
    /\ Held \cup out = was.stored
    /\ \A x \in ID : was.index[x] # Null => taskIdx[x] # 0 \/ \E t \in out : t.id = x

EffectInv == Distinct /\ Adding /\ Removing /\ Ticking

-----------------------------------------------------------------------------
(***************************************************************************)
(* A swap changes neither the tasks nor which IDs have an entry.           *)
(***************************************************************************)
LEMMA SwapKeeps ==
    ASSUME Inv, Distinct, NEW i \in 1..len, NEW j \in 1..len, Swap(i, j)
    PROVE  /\ Distinct'
           /\ Held' = Held
           /\ len' = len
           /\ tasks'[i] = tasks[j] /\ tasks'[j] = tasks[i]
           /\ \A k \in 1..len : k # i /\ k # j => tasks'[k] = tasks[k]
           /\ \A x \in ID : taskIdx[x] # 0 => taskIdx'[x] # 0
  <1>1. /\ len \in Nat /\ 1..len \subseteq Slot
        /\ tasks \in [Slot -> Task \cup {Null}]
        /\ taskIdx \in [ID -> 0..Cap]
    BY QueueAssumption DEF Inv, TypeOK, Slot
  <1>2. \A k \in 1..len : tasks[k].id \in ID
    BY SlotFacts DEF Inv
  <1>3. /\ tasks' = [tasks EXCEPT ![i] = tasks[j], ![j] = tasks[i]]
        /\ taskIdx' = [taskIdx EXCEPT ![tasks[j].id] = i, ![tasks[i].id] = j]
        /\ len' = len
    BY DEF Swap
  <1>4. /\ tasks'[i] = tasks[j] /\ tasks'[j] = tasks[i]
        /\ \A k \in 1..len : k # i /\ k # j => tasks'[k] = tasks[k]
    BY <1>1, <1>3
  <1>5. Distinct'
    <2>1. \A k, m \in 1..len : tasks[k] = tasks[m] => k = m
      BY DEF Distinct
    <2>2. \A k \in 1..len : tasks'[k] = tasks[IF k = i THEN j ELSE IF k = j THEN i ELSE k]
      BY <1>4
    <2>3. \A k, m \in 1..len : tasks'[k] = tasks'[m] => k = m
      BY <2>1, <2>2
    <2> QED
      BY <1>3, <2>3 DEF Distinct
  <1>6. Held' = Held
    <2>1. ASSUME NEW k \in 1..len
          PROVE  /\ \E m \in 1..len : tasks'[k] = tasks[m]
                 /\ \E m \in 1..len : tasks[k] = tasks'[m]
      BY <1>4
    <2>2. Held' = {tasks'[k] : k \in 1..len}
      BY <1>3 DEF Held
    <2>3. {tasks'[k] : k \in 1..len} = {tasks[k] : k \in 1..len}
      BY <2>1
    <2> QED
      BY <2>2, <2>3 DEF Held
  <1>7. \A x \in ID : taskIdx[x] # 0 => taskIdx'[x] # 0
    <2>1. i # 0 /\ j # 0
      BY <1>1
    <2> QED
      BY <1>1, <1>2, <1>3, <2>1
  <1> QED
    BY <1>3, <1>4, <1>5, <1>6, <1>7

\* So it keeps what an operation has done, unless it moves the last task.
LEMMA SwapInside ==
    ASSUME Inv, EffectInv, NEW i \in 1..len, NEW j \in 1..len, Swap(i, j),
           kind = "remove" => i # len /\ j # len,
           at # "idle", at' # "idle", UNCHANGED <<kind, arg, out, was>>
    PROVE  EffectInv'
  <1>1. /\ Distinct' /\ Held' = Held /\ len' = len
        /\ \A k \in 1..len : k # i /\ k # j => tasks'[k] = tasks[k]
        /\ \A x \in ID : taskIdx[x] # 0 => taskIdx'[x] # 0
    BY SwapKeeps DEF EffectInv
  <1>2. len \in 1..len
    BY QueueAssumption DEF Inv, TypeOK
  <1>3. UNCHANGED <<kind, arg, out, was>>
    OBVIOUS
  <1>4. Adding'
    BY <1>1, <1>3, QueueAssumption DEF EffectInv, Adding
  <1>5. Removing'
    BY <1>1, <1>2, <1>3 DEF EffectInv, Removing
  <1>6. Ticking'
    BY <1>1, <1>3 DEF EffectInv, Ticking
  <1> QED
    BY <1>1, <1>4, <1>5, <1>6 DEF EffectInv

-----------------------------------------------------------------------------
\* The last slot goes, and its task with it.
LEMMA PopFacts ==
    ASSUME Inv, EffectInv, at = "pop", Pop
    PROVE  /\ Distinct'
           /\ Held' = Held \ {tasks[len]}
           /\ \A x \in ID : taskIdx'[x] = IF x = tasks[len].id THEN 0 ELSE taskIdx[x]
  <1>1. /\ len \in Nat /\ len >= 1 /\ len <= Cap
        /\ tasks \in [Slot -> Task \cup {Null}] /\ taskIdx \in [ID -> 0..Cap]
    BY QueueAssumption DEF Inv, TypeOK, ShapeInv
  <1>2. /\ tasks' = [tasks EXCEPT ![len] = Null] /\ len' = len - 1
        /\ taskIdx' = [taskIdx EXCEPT ![tasks[len].id] = 0]
    BY DEF Pop
  <1>3. \A k \in 1..len' : k \in 1..len /\ k # len /\ tasks'[k] = tasks[k]
    BY <1>1, <1>2, QueueAssumption DEF Slot
  <1>4. Distinct'
    BY <1>3 DEF EffectInv, Distinct
  <1>5. \A k \in 1..len : k = len \/ k \in 1..len'
    BY <1>1, <1>2
  <1>6. \A k \in 1..len' : tasks[k] # tasks[len]
    BY <1>1, <1>3 DEF EffectInv, Distinct
  <1>7. Held' = Held \ {tasks[len]}
    BY <1>3, <1>5, <1>6 DEF Held
  <1> QED
    BY <1>1, <1>2, <1>4, <1>7

\* What a caller sees outside mu of the storage that the heap implements.
NamesHeld ==
    /\ Held \subseteq Task
    /\ Named \in [ID -> Held \cup {Null}]
    /\ \A x \in ID : Named[x] = Null <=> taskIdx[x] = 0
    /\ \A x \in ID : Named[x] # Null => Named[x].id = x

LEMMA NamedFacts == Inv => NamesHeld
  <1> SUFFICES ASSUME Inv PROVE NamesHeld
    OBVIOUS
  <1>1. \A j \in 1..len : tasks[j] \in Task
    BY SlotFacts DEF Inv
  <1>2. \A x \in ID : taskIdx[x] # 0 => taskIdx[x] \in 1..len /\ tasks[taskIdx[x]].id = x
    BY QueueAssumption DEF Inv, TypeOK, EntryInv
  <1>3. \A x \in ID : taskIdx[x] # 0 => tasks[taskIdx[x]] \in Held \cap Task
    BY <1>1, <1>2 DEF Held
  <1> QED
    BY <1>1, <1>2, <1>3, QueueAssumption DEF NamesHeld, Held, Named

-----------------------------------------------------------------------------
(***************************************************************************)
(* The invariant is kept.                                                  *)
(***************************************************************************)
LEMMA AddEffect ==
    ASSUME Inv, EffectInv, NEW t \in Task, AddTask(t)
    PROVE  EffectInv'
  <1>1. /\ at = "idle" /\ len \in Nat /\ len < Cap /\ Cap \in Nat /\ t.id \in ID
        /\ tasks \in [Slot -> Task \cup {Null}] /\ taskIdx \in [ID -> 0..Cap]
    BY QueueAssumption DEF Inv, TypeOK, AddTask, Lock
  <1>2. /\ kind' = "add" /\ arg' = t /\ was' = [stored |-> Held, index |-> Named]
        /\ tasks' = [tasks EXCEPT ![len + 1] = t] /\ len' = len + 1
        /\ taskIdx' = [taskIdx EXCEPT ![t.id] = len + 1]
        /\ t \notin Held
    BY DEF AddTask, Lock, Push
  <1>3. tasks'[len + 1] = t /\ \A k \in 1..len : tasks'[k] = tasks[k]
    BY <1>1, <1>2 DEF Slot
  <1>4. \A k \in 1..len' : k \in 1..len \/ k = len + 1
    BY <1>1, <1>2
  <1>5. Distinct'
    <2>1. \A k \in 1..len : tasks[k] # t
      BY <1>2 DEF Held
    <2> QED
      BY <1>3, <1>4, <2>1 DEF EffectInv, Distinct
  <1>6. Held' = Held \cup {t}
    <2>1. Held' = {tasks'[k] : k \in 1..len'}
      BY DEF Held
    <2>2. len + 1 \in 1..len' /\ 1..len \subseteq 1..len'
      BY <1>1, <1>2
    <2>3. {tasks'[k] : k \in 1..len'} = {tasks[k] : k \in 1..len} \cup {t}
      BY <1>3, <1>4, <2>2
    <2> QED
      BY <2>1, <2>3 DEF Held
  <1>7. taskIdx'[t.id] # 0 /\ \A x \in ID : taskIdx[x] # 0 => taskIdx'[x] # 0
    BY <1>1, <1>2
  <1>8. \A x \in ID : Named[x] = Null <=> taskIdx[x] = 0
    BY NamedFacts DEF NamesHeld
  <1>9. Adding'
    BY <1>2, <1>6, <1>7, <1>8 DEF Adding
  <1> QED
    BY <1>2, <1>5, <1>9 DEF EffectInv, Removing, Ticking

LEMMA RemoveEffect ==
    ASSUME Inv, EffectInv, NEW i \in ID, RemoveTask(i)
    PROVE  EffectInv'
  <1>1. /\ at = "idle" /\ len \in Nat /\ taskIdx[i] \in 1..len /\ tasks[taskIdx[i]].id = i
    BY QueueAssumption DEF Inv, TypeOK, EntryInv, RemoveTask, Lock
  <1>2. /\ kind' = "remove" /\ arg' = i /\ was' = [stored |-> Held, index |-> Named]
        /\ \/ taskIdx[i] = len /\ UNCHANGED <<tasks, len, taskIdx>>
           \/ taskIdx[i] # len /\ Swap(taskIdx[i], len)
    BY DEF RemoveTask, Lock, heapVars
  <1>3. Named[i] = tasks[taskIdx[i]] /\ \A x \in ID : Named[x] = Null <=> taskIdx[x] = 0
    BY <1>1, NamedFacts DEF NamesHeld, Named
  <1>4. /\ Distinct' /\ Held' = Held
        /\ tasks'[len'] = tasks[taskIdx[i]]
        /\ \A x \in ID : taskIdx[x] # 0 => taskIdx'[x] # 0
    <2>1. CASE taskIdx[i] = len /\ UNCHANGED <<tasks, len, taskIdx>>
      BY <2>1 DEF EffectInv, Distinct, Held
    <2>2. CASE taskIdx[i] # len /\ Swap(taskIdx[i], len)
      <3>1. len \in 1..len
        BY <1>1
      <3> QED
        BY <1>1, <2>2, <3>1, SwapKeeps DEF EffectInv
    <2> QED
      BY <1>2, <2>1, <2>2
  <1>5. Removing'
    BY <1>1, <1>2, <1>3, <1>4 DEF Removing
  <1> QED
    BY <1>2, <1>4, <1>5 DEF EffectInv, Adding, Ticking

LEMMA TickEffect ==
    ASSUME Inv, EffectInv, Tick
    PROVE  EffectInv'
  <1>1. /\ at = "idle" /\ out = {} /\ UNCHANGED <<tasks, len, taskIdx, out>>
        /\ kind' = "tick" /\ was' = [stored |-> Held, index |-> Named]
    BY DEF Inv, ShapeInv, Tick, Lock, heapVars
  <1>2. Held' = Held /\ Distinct' /\ \A x \in ID : Named[x] = Null <=> taskIdx[x] = 0
    BY <1>1, NamedFacts DEF NamesHeld, EffectInv, Distinct, Held
  <1>3. Ticking'
    BY <1>1, <1>2 DEF Ticking
  <1> QED
    BY <1>1, <1>2, <1>3 DEF EffectInv, Adding, Removing

LEMMA PopEffect ==
    ASSUME Inv, EffectInv, PopLast
    PROVE  EffectInv'
  <1>1. /\ at = "pop" /\ Pop /\ kind \in {"remove", "tick"} /\ len \in 1..len
        /\ kind = "tick" => /\ at' = "next" /\ out' = out \cup {tasks[len]}
                            /\ UNCHANGED <<kind, was>>
        /\ kind = "remove" => at' = "idle"
    BY QueueAssumption DEF Inv, TypeOK, ShapeInv, PopLast, Unlock
  <1>2. /\ Distinct' /\ Held' = Held \ {tasks[len]}
        /\ \A x \in ID : taskIdx'[x] = IF x = tasks[len].id THEN 0 ELSE taskIdx[x]
    BY <1>1, PopFacts
  <1>3. tasks[len] \in Held
    BY <1>1 DEF Held
  <1>4. CASE kind = "remove"
    BY <1>1, <1>2, <1>4 DEF EffectInv, Adding, Removing, Ticking
  <1>5. CASE kind = "tick"
    <2>1. Held' \cup out' = Held \cup out
      BY <1>1, <1>2, <1>3, <1>5
    <2>2. Ticking'
      BY <1>1, <1>2, <1>5, <2>1 DEF EffectInv, Ticking
    <2> QED
      BY <1>1, <1>2, <1>5, <2>2 DEF EffectInv, Adding, Removing
  <1> QED
    BY <1>1, <1>4, <1>5

LEMMA SiftEffect ==
    ASSUME Inv, EffectInv, Sift
    PROVE  EffectInv'
  <1>1. CASE DownSwap
    <2>1. /\ at = "down" /\ kind \in {"remove", "tick"} /\ len \in Nat
          /\ pos \in Nat \ {0} /\ 2 * pos <= Last
      BY <1>1, QueueAssumption DEF Inv, TypeOK, ShapeInv, DownSwap, Sinks
    <2>2. Child(pos) \in {2 * pos, 2 * pos + 1} /\ Child(pos) <= Last
      BY <2>1, ChildFacts DEF Inv
    <2>3. pos \in 1..len /\ Child(pos) \in 1..len /\ pos # len /\ Child(pos) # len
      BY <2>1, <2>2 DEF Last
    <2>4. Swap(pos, Child(pos)) /\ UNCHANGED <<at, kind, arg, out, was>>
      BY <1>1 DEF DownSwap
    <2> QED
      BY <2>1, <2>3, <2>4, SwapInside
  <1>2. CASE UpSwap
    <2>1. /\ at = "up" /\ kind \in {"add", "remove"} /\ len \in Nat
          /\ pos \in 1..Size /\ pos # 1
      BY <1>2, QueueAssumption DEF Inv, TypeOK, ShapeInv, UpSwap, Rises
    <2>2. /\ pos \in 1..len /\ pos \div 2 \in 1..len
          /\ kind = "remove" => pos # len /\ pos \div 2 # len
      BY <2>1 DEF Size
    <2>3. Swap(pos \div 2, pos) /\ UNCHANGED <<at, kind, arg, out, was>>
      BY <1>2 DEF UpSwap
    <2> QED
      BY <2>1, <2>2, <2>3, SwapInside
  <1>3. CASE TickPop
    <2>1. /\ at = "next" /\ at' = "down" /\ kind = "tick" /\ 1 \in 1..len /\ len \in 1..len
      BY <1>3, QueueAssumption DEF Inv, TypeOK, ShapeInv, TickPop, Due
    <2>2. Swap(1, len) /\ UNCHANGED <<kind, arg, out, was>>
      BY <1>3 DEF TickPop
    <2> QED
      BY <2>1, <2>2, SwapInside
  <1>4. CASE PopLast
    BY <1>4, PopEffect
  <1>5. CASE DownDone
    <2>1. at = "down" /\ at' # "idle" /\ UNCHANGED <<tasks, len, taskIdx, kind, arg, out, was>>
      BY <1>5 DEF DownDone, heapVars
    <2> QED
      BY <2>1 DEF EffectInv, Distinct, Adding, Removing, Ticking, Held
  <1>6. CASE UpDone
    <2>1. /\ at = "up" /\ UNCHANGED <<tasks, len, taskIdx>>
          /\ at' = "idle" \/ (at' = "pop" /\ UNCHANGED <<kind, arg, out, was>>)
      BY <1>6 DEF UpDone, Unlock, heapVars
    <2> QED
      BY <2>1 DEF EffectInv, Distinct, Adding, Removing, Ticking, Held
  <1>7. CASE TickReturn
    <2>1. at' = "idle" /\ UNCHANGED <<tasks, len, taskIdx>>
      BY <1>7 DEF TickReturn, Unlock, heapVars
    <2> QED
      BY <2>1 DEF EffectInv, Distinct, Adding, Removing, Ticking
  <1> QED
    BY <1>1, <1>2, <1>3, <1>4, <1>5, <1>6, <1>7 DEF Sift

LEMMA EffectInvariant == Spec => [](Inv /\ EffectInv)
  <1>1. Init => EffectInv
    <2>1. Init => len = 0 /\ at = "idle"
      BY DEF Init
    <2> QED
      BY <2>1 DEF EffectInv, Distinct, Adding, Removing, Ticking
  <1>2. Inv /\ EffectInv /\ [Next]_vars => EffectInv'
    <2> SUFFICES ASSUME Inv, EffectInv, [Next]_vars PROVE EffectInv'
      OBVIOUS
    <2>1. CASE UNCHANGED vars
      BY <2>1 DEF EffectInv, Distinct, Adding, Removing, Ticking, Held, vars, heapVars, opVars
    <2> QED
      BY <2>1, AddEffect, RemoveEffect, TickEffect, SiftEffect DEF Next
  <1> QED
    BY <1>1, <1>2, InvInit, InvNext, PTL DEF Spec

-----------------------------------------------------------------------------
(***************************************************************************)
(* Every step is a step of the storage, or one that it does not see.       *)
(***************************************************************************)
\* An operation that has just taken mu, or still holds it, is not seen.
LEMMA Unseen ==
    ASSUME Inv, [Next]_vars, at' # "idle" \/ UNCHANGED vars
    PROVE  UNCHANGED Storage!storageVars
  <1>1. CASE UNCHANGED vars
    BY <1>1 DEF Storage!storageVars, Free, Held, Named, vars, heapVars, opVars
  <1>2. CASE at = "idle" /\ at' # "idle"
    <2>1. was' = [stored |-> Held, index |-> Named]
      BY <1>2 DEF Next, vars, opVars, AddTask, RemoveTask, Tick, Lock, Sift, DownSwap, DownDone,
                  UpSwap, UpDone, PopLast, TickPop, TickReturn
    <2> QED
      BY <1>2, <2>1 DEF Storage!storageVars, Free
  <1>3. CASE at # "idle" /\ at' # "idle"
    <2>1. was' = was
      BY <1>3 DEF Next, vars, AddTask, RemoveTask, Tick, Lock, Unlock, Sift, DownSwap, DownDone,
                  UpSwap, UpDone, PopLast, TickPop, TickReturn
    <2> QED
      BY <1>3, <2>1 DEF Storage!storageVars, Free
  <1> QED
    BY <1>1, <1>2, <1>3

LEMMA NamedAfter == Inv' => NamesHeld'
  BY NamedFacts, PTL

\* The map that an operation leaves is one that TaskStorage allows.
LEMMA LeavesMap ==
    ASSUME Inv', at # "idle", at' = "idle", NEW Gone,
           \A x \in ID : was.index[x] # Null => taskIdx'[x] # 0 \/ x \in Gone
    PROVE  Named' \in Storage!Reindexed(Held', Gone)
  <1>1. /\ Named' \in [ID -> Held' \cup {Null}]
        /\ \A x \in ID : Named'[x] = Null <=> taskIdx'[x] = 0
        /\ \A x \in ID : Named'[x] # Null => Named'[x].id = x
    BY NamedAfter DEF NamesHeld
  <1> QED
    BY <1>1 DEF Storage!Reindexed, Free

LEMMA AddIsSeen ==
    ASSUME Inv, Inv', EffectInv, UpDone, at' = "idle"
    PROVE  kind = "add" /\ Storage!StorageAdd(arg)
  <1>1. /\ at = "up" /\ kind = "add" /\ UNCHANGED <<tasks, len, taskIdx>>
    BY DEF UpDone, Inv, ShapeInv, heapVars
  <1>2. /\ Held' = Held /\ Held = was.stored \cup {arg} /\ arg \in Task
        /\ taskIdx[arg.id] # 0 /\ arg.id \in ID
        /\ \A x \in ID : was.index[x] # Null => taskIdx'[x] # 0
    BY <1>1, QueueAssumption DEF EffectInv, Adding, Held
  <1>3. Named' \in Storage!Reindexed(Held', {})
    BY <1>1, <1>2, LeavesMap
  <1>4. Named'[arg.id] # Null
    <2>1. \A x \in ID : Named'[x] = Null <=> taskIdx'[x] = 0
      BY NamedAfter DEF NamesHeld
    <2> QED
      BY <1>1, <1>2, <2>1
  <1> QED
    BY <1>1, <1>2, <1>3, <1>4 DEF Storage!StorageAdd, Free

LEMMA RemoveIsSeen ==
    ASSUME Inv, Inv', EffectInv, PopLast, at' = "idle"
    PROVE  kind = "remove" /\ Storage!StorageRemove(arg)
  <1>1. /\ at = "pop" /\ kind = "remove" /\ Pop /\ len \in 1..len
    BY QueueAssumption DEF PopLast, Inv, TypeOK, ShapeInv
  <1>2. /\ arg \in ID /\ Held = was.stored
        /\ was.index[arg] = tasks[len] /\ tasks[len].id = arg /\ tasks[len] \in Task
        /\ \A x \in ID : was.index[x] # Null => taskIdx[x] # 0
    BY <1>1, SlotFacts DEF EffectInv, Removing, Inv
  <1>3. /\ Held' = Held \ {tasks[len]}
        /\ \A x \in ID : taskIdx'[x] = IF x = arg THEN 0 ELSE taskIdx[x]
    BY <1>1, <1>2, PopFacts
  <1>4. Named' \in Storage!Reindexed(Held', {arg})
    BY <1>1, <1>2, <1>3, LeavesMap
  <1>5. Named'[arg] = Null
    <2>1. \A x \in ID : Named'[x] = Null <=> taskIdx'[x] = 0
      BY NamedAfter DEF NamesHeld
    <2> QED
      BY <1>2, <1>3, <2>1
  <1>6. was.index[arg] # Null
    BY <1>2, QueueAssumption
  <1> QED
    BY <1>1, <1>2, <1>3, <1>4, <1>5, <1>6 DEF Storage!StorageRemove, Free

\* When Tick is done, what it has popped and what is left of the heap are the
\* two halves of what it found: due, and not due.
LEMMA TickSplits ==
    ASSUME Inv, EffectInv, TickReturn
    PROVE  /\ out = was.stored \cap {t \in Task : t.next <= now}
           /\ Held = was.stored \ {t \in Task : t.next <= now}
  <1> DEFINE D == {t \in Task : t.next <= now}
  <1>1. /\ at = "next" /\ kind = "tick" /\ ~Due /\ len \in Nat /\ now \in Int
    BY QueueAssumption DEF TickReturn, Inv, TypeOK, ShapeInv
  <1>2. Held \cup out = was.stored /\ out \subseteq D
    BY <1>1 DEF EffectInv, Ticking, Inv, TypeOK, PoppedInv
  <1>3. Held \cap D = {}
    <2> SUFFICES ASSUME NEW k \in 1..len PROVE tasks[k] \notin D
      BY DEF Held
    <2>1. \A j \in 2..len : Ordered(j)
      BY <1>1 DEF Inv, OrderInv, Size
    <2>2. tasks[1].next <= tasks[k].next
      BY <2>1, RootIsEarliest DEF Inv
    <2>3. tasks[1].next \in Int /\ tasks[k].next \in Int /\ len > 0
      BY <1>1, SlotFacts DEF Inv
    <2> QED
      BY <1>1, <2>2, <2>3 DEF Due
  <1> QED
    BY <1>2, <1>3

LEMMA TickIsSeen ==
    ASSUME Inv, Inv', EffectInv, TickReturn
    PROVE  kind = "tick" /\ Storage!StorageTick({t \in Task : t.next <= now})
  <1> DEFINE D == {t \in Task : t.next <= now}
  <1>1. /\ at = "next" /\ at' = "idle" /\ kind = "tick" /\ UNCHANGED <<tasks, len, taskIdx>>
    BY DEF TickReturn, Unlock, Inv, ShapeInv, heapVars
  <1>2. /\ Held' = Held /\ out = was.stored \cap D
        /\ \A x \in ID : was.index[x] # Null => taskIdx'[x] # 0 \/ \E t \in out : t.id = x
    BY <1>1, TickSplits DEF EffectInv, Ticking, Held
  <1>4. Held' = was.stored \ D
    BY <1>2, TickSplits
  <1>5. Named' \in Storage!Reindexed(Held', {t.id : t \in was.stored \cap D})
    BY <1>1, <1>2, LeavesMap
  <1> QED
    BY <1>1, <1>4, <1>5 DEF Storage!StorageTick, Free

\* For any tasks and times, Tick returns the tasks it found whose time has
\* come, every one of them, and keeps exactly the others (task_queue.go:95-101).
THEOREM TickIsComplete == Spec => TickIsExact
  <1>1. Inv /\ EffectInv /\ [Next]_vars =>
          [at = "next" /\ at' = "idle" =>
             /\ out = {t \in was.stored : t.next <= now}
             /\ Held = was.stored \ out]_vars
    <2> SUFFICES ASSUME Inv, EffectInv, Next, at = "next", at' = "idle"
                 PROVE  /\ out = {t \in was.stored : t.next <= now}
                        /\ Held = was.stored \ out
      OBVIOUS
    <2>1. TickReturn
      BY DEF Next, Sift, DownSwap, DownDone, UpSwap, UpDone, PopLast, TickPop,
             AddTask, RemoveTask, Tick, Lock
    <2>2. was.stored \subseteq Task
      BY DEF Inv, TypeOK
    <2> QED
      BY <2>1, <2>2, TickSplits
  <1> QED
    BY <1>1, EffectInvariant, PTL DEF Spec, TickIsExact

\* From outside mu, AddTask, RemoveTask and Tick of the heap are the atomic
\* operations of TaskStorage, whatever the order inside the heap, and whether
\* or not two of its tasks share an ID (task_queue.go:59-104).
THEOREM HeapImplementsStorage == Spec => Implements
  <1>1. Init => Storage!StorageInit
    <2> SUFFICES ASSUME Init PROVE Storage!StorageInit
      OBVIOUS
    <2>1. len = 0 /\ taskIdx = [x \in ID |-> 0] /\ at = "idle"
      BY DEF Init
    <2> QED
      BY <2>1 DEF Storage!StorageInit, Free, Held, Named
  <1>2. Inv /\ Inv' /\ EffectInv /\ [Next]_vars =>
          [\/ kind = "add" /\ Storage!StorageAdd(arg)
           \/ kind = "remove" /\ Storage!StorageRemove(arg)
           \/ kind = "tick" /\ Storage!StorageTick({t \in Task : t.next <= now})
          ]_(Storage!storageVars)
    <2> SUFFICES ASSUME Inv, Inv', EffectInv, [Next]_vars, at' = "idle", ~UNCHANGED vars
                 PROVE  \/ kind = "add" /\ Storage!StorageAdd(arg)
                        \/ kind = "remove" /\ Storage!StorageRemove(arg)
                        \/ kind = "tick" /\ Storage!StorageTick({t \in Task : t.next <= now})
      BY Unseen
    <2>1. UpDone \/ PopLast \/ TickReturn
      BY DEF Next, Inv, ShapeInv, AddTask, RemoveTask, Tick, Lock, Sift, DownSwap, DownDone,
             UpSwap, TickPop
    <2> QED
      BY <2>1, AddIsSeen, RemoveIsSeen, TickIsSeen
  <1> QED
    BY <1>1, <1>2, EffectInvariant, PTL DEF Implements, Spec
=============================================================================
