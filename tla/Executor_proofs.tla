--------------------------- MODULE Executor_proofs ---------------------------
(***************************************************************************)
(* Proofs about Executor, for every set of attempts and every number of    *)
(* retries.  Where the loop stands tells how many attempts there have been *)
(* and which of them can still be under way: none while the loop is about  *)
(* to begin one, the one it waits for while it waits, and after that the   *)
(* one it may have given up.                                               *)
(***************************************************************************)
EXTENDS Executor, TLAPS

Waits == pc \in {"call", "select"}

\* The attempt that is waited for.
MineInv == /\ Waits => mine \in own /\ (pc = "select" <=> timeout)
           /\ ~Waits => mine = Null

\* Which attempts of this execution may be under way.
OwnInv == /\ pc = "attempt" => \A a \in own : job[a] = "none"
          /\ Waits => \A a \in own \ {mine} : job[a] = "none"
          /\ ~timeout => \A a \in Attempt \ {mine} : job[a] = "none"

\* An attempt that has not answered yet has an empty channel.
RoomInv == \A a \in Attempt : job[a] # "none" => done[a] = "empty"

\* How many there have been.
TriesInv == /\ pc = "attempt" => tries = i
            /\ Waits => tries = i + 1 /\ i < retry + 1

Inv == /\ TypeOK
       /\ MineInv
       /\ OwnInv
       /\ RoomInv
       /\ TriesInv
       /\ OneAttemptAtATime
       /\ RetriesAreUsedUp

-----------------------------------------------------------------------------
LEMMA InvInit == Init => Inv
  <1> SUFFICES ASSUME Init PROVE Inv
    OBVIOUS
  <1>1. TypeOK
    <2>1. /\ job \in [Attempt -> {"none", "running"} \cup Answer]
          /\ done \in [Attempt -> {"empty"} \cup Answer]
      BY DEF Init
    <2>2. i \in 0..(retry + 1) /\ tries \in 0..(retry + 1)
      BY ExecutorAssumption DEF Init
    <2> QED
      BY <2>1, <2>2 DEF Init, TypeOK
  <1>2. MineInv /\ OwnInv /\ RoomInv /\ TriesInv
    BY DEF Init, MineInv, OwnInv, RoomInv, TriesInv, Waits
  <1>3. OneAttemptAtATime /\ RetriesAreUsedUp
    BY DEF Init, OneAttemptAtATime, RetriesAreUsedUp
  <1> QED
    BY <1>1, <1>2, <1>3 DEF Inv

LEMMA InvStutter == Inv /\ UNCHANGED vars => Inv'
  <1> SUFFICES ASSUME Inv, UNCHANGED vars PROVE Inv'
    OBVIOUS
  <1>1. UNCHANGED <<timeout, retry, pc, i, job, mine, done, expired, removed, stop, callers,
                    holder, own, tries, outcome>>
    BY DEF vars, config, channel, control, history
  <1> QED
    BY <1>1 DEF Inv, TypeOK, MineInv, OwnInv, RoomInv, TriesInv, Waits, OneAttemptAtATime,
                RetriesAreUsedUp

\* The steps that touch neither the loop nor an attempt: Stop, Start, AddTask.
Calls == \/ Start \/ StopBegin \/ LoopExit \/ StopEnd
         \/ \E a \in Attempt : JobStops(a) \/ JobStopBegin(a)

LEMMA OthersStep == Inv /\ (Remove \/ AddTask \/ Calls \/ NextTime \/ Reschedule) => Inv'
  <1> SUFFICES ASSUME Inv, Remove \/ AddTask \/ Calls \/ NextTime \/ Reschedule
               PROVE  Inv'
    OBVIOUS
  <1>1. /\ TypeOK /\ MineInv /\ OwnInv /\ RoomInv /\ TriesInv /\ OneAttemptAtATime /\ RetriesAreUsedUp
    BY DEF Inv
  <1>2. /\ UNCHANGED <<timeout, retry, i, job, mine, done, expired, own, tries, outcome>>
        /\ \/ pc' = pc
           \/ pc \in {"waiting", "next", "lock", "gone"} /\ pc' \in {"waiting", "gone"}
           \/ pc = "next" /\ pc' = "lock"
    <2>1. UNCHANGED <<config, i, job, channel, history>>
      BY DEF Remove, AddTask, NextTime, Reschedule, Calls, Start, StopBegin, LoopExit, StopEnd,
             JobStops, JobStopBegin
    <2>2. \/ pc' = pc
          \/ pc \in {"waiting", "next", "lock", "gone"} /\ pc' \in {"waiting", "gone"}
          \/ pc = "next" /\ pc' = "lock"
      <3>0. NextTime => pc = "next" /\ (pc' = "gone" \/ pc' = "lock")
        BY Zenon DEF NextTime
      <3>1. Reschedule => pc = "lock" /\ (pc' = "gone" \/ pc' = "waiting")
        BY Zenon DEF Reschedule
      <3>2. Remove => pc' = pc \/ (pc = "waiting" /\ pc' = "gone")
        <4>1. Remove /\ pc # "waiting" => pc' = pc
          BY Zenon DEF Remove
        <4>2. Remove /\ pc = "waiting" => pc' = "gone"
          BY Zenon DEF Remove
        <4> QED
          BY <4>1, <4>2
      <3>3. AddTask => pc = "gone" /\ pc' = "waiting"
        BY DEF AddTask
      <3>4. Calls => pc' = pc
        BY DEF Calls, Start, StopBegin, LoopExit, StopEnd, JobStops, JobStopBegin
      <3> QED
        BY <3>0, <3>1, <3>2, <3>3, <3>4
    <2> QED
      BY <2>1, <2>2 DEF config, channel, history
  <1>3. TypeOK'
    <2>1. removed' \in BOOLEAN
      BY <1>1 DEF TypeOK, Remove, AddTask, Calls, Start, StopBegin, LoopExit, StopEnd,
                  JobStops, JobStopBegin, NextTime, Reschedule
    <2>2. /\ stop' \in {"running", "stopping", "drained", "stopped"}
          /\ callers' \subseteq Attempt /\ holder' \in Attempt \cup {Null}
      <3>1. UNCHANGED control \/ Calls
        BY DEF Remove, AddTask, NextTime, Reschedule
      <3> QED
        BY <1>1, <3>1 DEF TypeOK, control, Calls, Start, StopBegin, LoopExit, StopEnd,
                          JobStops, JobStopBegin
    <2> QED
      BY <1>1, <1>2, <2>1, <2>2 DEF TypeOK
  <1>4. MineInv' /\ OwnInv' /\ RoomInv' /\ TriesInv'
    BY <1>1, <1>2 DEF MineInv, OwnInv, RoomInv, TriesInv, Waits
  <1>5. OneAttemptAtATime' /\ RetriesAreUsedUp'
    BY <1>1, <1>2 DEF OneAttemptAtATime, RetriesAreUsedUp
  <1> QED
    BY <1>3, <1>4, <1>5 DEF Inv

LEMMA FireStep == Inv /\ Fire => Inv'
  <1> SUFFICES ASSUME Inv, Fire PROVE Inv'
    OBVIOUS
  <1>1. TypeOK /\ MineInv /\ OwnInv /\ RoomInv
    BY DEF Inv
  <1>2. /\ pc = "waiting" /\ pc' = "attempt" /\ i' = 0 /\ own' = {} /\ tries' = 0
        /\ outcome' = "none"
        /\ UNCHANGED <<timeout, retry, job, mine, done, expired, removed, control>>
    BY DEF Fire, config, channel
  <1>3. TypeOK'
    BY <1>1, <1>2, ExecutorAssumption DEF TypeOK, control
  <1>4. MineInv' /\ OwnInv' /\ RoomInv' /\ TriesInv'
    BY <1>1, <1>2 DEF MineInv, OwnInv, RoomInv, TriesInv, Waits
  <1>5. OneAttemptAtATime' /\ RetriesAreUsedUp'
    BY <1>2 DEF OneAttemptAtATime, RetriesAreUsedUp
  <1> QED
    BY <1>3, <1>4, <1>5 DEF Inv

LEMMA AttemptBeginStep == ASSUME Inv, NEW a \in Attempt, AttemptBegin(a) PROVE Inv'
  <1>1. /\ TypeOK /\ MineInv /\ OwnInv /\ RoomInv /\ TriesInv
    BY DEF Inv
  <1>2. /\ pc = "attempt" /\ i < retry + 1 /\ job[a] = "none"
        /\ job' = [job EXCEPT ![a] = "running"]
        /\ pc' = IF timeout THEN "select" ELSE "call"
        /\ mine' = a /\ done' = [done EXCEPT ![a] = "empty"] /\ expired' = FALSE
        /\ own' = own \cup {a} /\ tries' = tries + 1 /\ outcome' = "none"
        /\ UNCHANGED <<timeout, retry, i, removed, control>>
    BY DEF AttemptBegin, MayTry, config
  <1>3. \A b \in Attempt : job'[b] = IF b = a THEN "running" ELSE job[b]
    BY <1>1, <1>2 DEF TypeOK
  <1>4. TypeOK'
    <2>1. /\ job' \in [Attempt -> {"none", "running"} \cup Answer]
          /\ done' \in [Attempt -> {"empty"} \cup Answer]
      BY <1>1, <1>2 DEF TypeOK
    <2>2. tries' \in 0..(retry' + 1)
      BY <1>1, <1>2, ExecutorAssumption DEF TypeOK, TriesInv
    <2> QED
      BY <1>1, <1>2, <2>1, <2>2 DEF TypeOK, control
  <1>5. MineInv'
    BY <1>2 DEF MineInv, Waits
  <1>6. OwnInv'
    <2>1. mine = Null
      BY <1>1, <1>2 DEF MineInv, Waits
    <2>2. \A b \in Attempt : ~timeout => job[b] = "none"
      BY <1>1, <2>1, ExecutorAssumption DEF OwnInv
    <2>3. \A b \in own : job[b] = "none"
      BY <1>1, <1>2 DEF OwnInv
    <2>4. \A b \in Attempt \ {mine'} : job'[b] = job[b]
      BY <1>2, <1>3
    <2>5. \A b \in own' \ {mine'} : job'[b] = "none"
      BY <1>1, <1>2, <2>3, <2>4 DEF TypeOK
    <2>6. ~timeout' => \A b \in Attempt \ {mine'} : job'[b] = "none"
      BY <1>2, <2>2, <2>4
    <2>7. pc' # "attempt"
      BY <1>2
    <2> QED
      BY <1>2, <2>5, <2>6, <2>7 DEF OwnInv
  <1>7. TriesInv'
    BY <1>1, <1>2 DEF TriesInv, Waits
  <1>8. OneAttemptAtATime'
    BY <1>1, <1>2, <1>3 DEF TypeOK, OwnInv, OneAttemptAtATime
  <1>9. RetriesAreUsedUp'
    BY <1>2 DEF RetriesAreUsedUp
  <1>10. RoomInv'
    BY <1>1, <1>2, <1>3 DEF TypeOK, RoomInv
  <1> QED
    BY <1>4, <1>5, <1>6, <1>7, <1>8, <1>9, <1>10 DEF Inv

LEMMA LoopEndStep == Inv /\ LoopEnd => Inv'
  <1> SUFFICES ASSUME Inv, LoopEnd PROVE Inv'
    OBVIOUS
  <1>1. /\ TypeOK /\ MineInv /\ OwnInv /\ RoomInv /\ TriesInv /\ OneAttemptAtATime
    BY DEF Inv
  <1>2. /\ pc = "attempt" /\ ~(i < retry + 1) /\ pc' = "next"
        /\ UNCHANGED <<timeout, retry, i, job, mine, done, expired, removed, control, own, tries,
                       outcome>>
    BY DEF LoopEnd, MayTry, config, channel, history
  <1>3. TypeOK'
    BY <1>1, <1>2 DEF TypeOK, control
  <1>4. MineInv' /\ OwnInv' /\ RoomInv' /\ TriesInv'
    BY <1>1, <1>2 DEF MineInv, OwnInv, RoomInv, TriesInv, Waits
  <1>5. OneAttemptAtATime'
    BY <1>1, <1>2 DEF OneAttemptAtATime
  <1>6. RetriesAreUsedUp'
    BY <1>1, <1>2, ExecutorAssumption DEF TypeOK, TriesInv, RetriesAreUsedUp
  <1> QED
    BY <1>3, <1>4, <1>5, <1>6 DEF Inv

\* The end of an attempt, whether its answer is there or it is given up.  What
\* matters is that no attempt is left when the loop goes round.
LEMMA DecideStep ==
    ASSUME Inv, Waits, NEW answer \in Answer \cup {"timeout"}, Decide(answer),
           job' \in [Attempt -> {"none", "running"} \cup Answer],
           done' \in [Attempt -> {"empty"} \cup Answer],
           \A a \in Attempt : done'[a] # "empty" => done'[a] = done[a],
           \A a \in Attempt \ {mine} : job'[a] = job[a],
           job'[mine] # "none" => job'[mine] = job[mine] /\ answer = "timeout",
           ~timeout => job'[mine] = "none",
           UNCHANGED <<timeout, retry, removed, control, own, tries>>
    PROVE  Inv'
  <1>1. TypeOK /\ MineInv /\ OwnInv /\ RoomInv /\ TriesInv /\ OneAttemptAtATime
    BY DEF Inv
  <1>2. /\ outcome' = answer /\ mine' = Null /\ expired' = FALSE
        /\ answer = "error" => pc' = "attempt" /\ i' = i + 1
        /\ answer # "error" => pc' = "next" /\ i' = i
    BY DEF Decide, GoesRound
  <1>3. TypeOK'
    <2>1. i' \in 0..(retry' + 1)
      BY <1>1, <1>2, ExecutorAssumption DEF TypeOK, TriesInv
    <2> QED
      BY <1>1, <1>2, <2>1 DEF TypeOK, control
  <1>4. MineInv'
    BY <1>2 DEF MineInv, Waits
  <1>5. OwnInv'
    <2>1. answer = "error" => \A a \in own : job'[a] = "none"
      BY <1>1 DEF OwnInv, TypeOK
    <2>2. ~timeout => \A a \in Attempt : job'[a] = "none"
      BY <1>1 DEF OwnInv
    <2> QED
      BY <1>2, <2>1, <2>2 DEF OwnInv, Waits
  <1>6. TriesInv'
    BY <1>1, <1>2 DEF TriesInv, Waits
  <1>7. OneAttemptAtATime'
    BY <1>1, <1>2 DEF OwnInv, OneAttemptAtATime, TypeOK
  <1>8. RetriesAreUsedUp'
    BY <1>1, <1>2 DEF RetriesAreUsedUp, Answer
  <1>9. RoomInv'
    <2>1. \A a \in Attempt : job'[a] # "none" => job[a] # "none"
      OBVIOUS
    <2> QED
      BY <1>1, <2>1 DEF RoomInv
  <1> QED
    BY <1>3, <1>4, <1>5, <1>6, <1>7, <1>8, <1>9 DEF Inv

LEMMA CallStep ==
    Inv /\ (CallPanics \/ \E answer \in Answer : CallReturns(answer)) => Inv'
  <1> SUFFICES ASSUME Inv, CallPanics \/ \E answer \in Answer : CallReturns(answer)
               PROVE  Inv'
    OBVIOUS
  <1>1. TypeOK /\ MineInv /\ OwnInv /\ RoomInv /\ TriesInv /\ OneAttemptAtATime
    BY DEF Inv
  <1>2. pc = "call" /\ job' = [job EXCEPT ![mine] = "none"] /\ done' = done
    BY DEF CallPanics, CallReturns
  <1>3. mine \in own /\ mine \in Attempt /\ ~timeout
    BY <1>1, <1>2 DEF MineInv, Waits, TypeOK
  <1>4. /\ job' \in [Attempt -> {"none", "running"} \cup Answer]
        /\ job'[mine] = "none" /\ \A a \in Attempt \ {mine} : job'[a] = job[a]
    BY <1>1, <1>2, <1>3 DEF TypeOK
  <1>0. done' \in [Attempt -> {"empty"} \cup Answer]
    BY <1>1, <1>2 DEF TypeOK
  <1>5. CASE \E answer \in Answer : CallReturns(answer)
    <2> PICK answer \in Answer : CallReturns(answer)
      BY <1>5
    <2>1. /\ Decide(answer) /\ Waits
          /\ UNCHANGED <<timeout, retry, removed, control, own, tries>>
      BY DEF CallReturns, config, Waits
    <2> QED
      BY <1>0, <1>2, <1>4, <2>1, DecideStep
  <1>6. CASE CallPanics
    <2>1. /\ pc' = "gone" /\ mine' = Null
          /\ UNCHANGED <<timeout, retry, i, done, expired, removed, control, own, tries, outcome>>
      BY <1>6 DEF CallPanics, config, history
    <2>3. \A a \in Attempt : job'[a] = "none"
      BY <1>1, <1>3, <1>4 DEF OwnInv
    <2>4. TypeOK'
      BY <1>1, <1>4, <2>1 DEF TypeOK, control
    <2>5. MineInv' /\ OwnInv' /\ RoomInv' /\ TriesInv'
      BY <1>1, <2>1, <2>3 DEF MineInv, OwnInv, RoomInv, TriesInv, Waits, TypeOK
    <2>6. OneAttemptAtATime' /\ RetriesAreUsedUp'
      BY <1>1, <2>1, <2>3 DEF OneAttemptAtATime, RetriesAreUsedUp, TypeOK
    <2> QED
      BY <2>4, <2>5, <2>6 DEF Inv
  <1> QED
    BY <1>5, <1>6

LEMMA JobReturnsStep ==
    ASSUME Inv, NEW a \in Attempt, NEW answer \in Answer, JobReturns(a, answer) PROVE Inv'
  <1>1. /\ TypeOK /\ MineInv /\ OwnInv /\ RoomInv /\ TriesInv
        /\ OneAttemptAtATime /\ RetriesAreUsedUp
    BY DEF Inv
  <1>2. /\ timeout /\ job[a] = "running" /\ job' = [job EXCEPT ![a] = answer]
        /\ UNCHANGED <<timeout, retry, pc, i, mine, done, expired, removed, control,
                       own, tries, outcome>>
    BY DEF JobReturns, config, channel, history
  <1>3. \A b \in Attempt : job'[b] # "none" => job[b] # "none"
    BY <1>1, <1>2 DEF TypeOK
  <1>4. TypeOK'
    BY <1>1, <1>2 DEF TypeOK, control
  <1>5. MineInv' /\ TriesInv'
    BY <1>1, <1>2 DEF MineInv, TriesInv, Waits
  <1>6. OwnInv' /\ RoomInv'
    BY <1>1, <1>2, <1>3 DEF OwnInv, RoomInv, MineInv, Waits, TypeOK
  <1>7. OneAttemptAtATime' /\ RetriesAreUsedUp'
    BY <1>1, <1>2, <1>3 DEF OneAttemptAtATime, RetriesAreUsedUp, TypeOK
  <1> QED
    BY <1>4, <1>5, <1>6, <1>7 DEF Inv

LEMMA SendStep == ASSUME Inv, NEW a \in Attempt, Send(a) PROVE Inv'
  <1>1. /\ TypeOK /\ MineInv /\ OwnInv /\ RoomInv /\ TriesInv
        /\ OneAttemptAtATime /\ RetriesAreUsedUp
    BY DEF Inv
  <1>2. /\ timeout /\ job[a] \in Answer /\ job' = [job EXCEPT ![a] = "none"]
        /\ done' = [done EXCEPT ![a] = job[a]]
        /\ UNCHANGED <<timeout, retry, pc, i, mine, expired, removed, control, own, tries, outcome>>
    BY DEF Send, config, history
  <1>3. job'[a] = "none" /\ \A b \in Attempt \ {a} : job'[b] = job[b]
    BY <1>1, <1>2 DEF TypeOK
  <1>4. TypeOK'
    <2>1. done' \in [Attempt -> {"empty"} \cup Answer]
      BY <1>1, <1>2 DEF TypeOK
    <2>2. job' \in [Attempt -> {"none", "running"} \cup Answer]
      BY <1>1, <1>2 DEF TypeOK
    <2> QED
      BY <1>1, <1>2, <2>1, <2>2 DEF TypeOK, control
  <1>5. MineInv' /\ TriesInv'
    BY <1>1, <1>2, ExecutorAssumption DEF MineInv, TriesInv, Waits
  <1>6. OwnInv' /\ RoomInv'
    BY <1>1, <1>2, <1>3, ExecutorAssumption DEF OwnInv, RoomInv, MineInv, Waits, TypeOK
  <1>7. OneAttemptAtATime' /\ RetriesAreUsedUp'
    BY <1>1, <1>2, <1>3 DEF OneAttemptAtATime, RetriesAreUsedUp, TypeOK
  <1> QED
    BY <1>4, <1>5, <1>6, <1>7 DEF Inv

LEMMA SelectStep == Inv /\ (Deadline \/ SelectDone \/ SelectTimeout) => Inv'
  <1> SUFFICES ASSUME Inv, Deadline \/ SelectDone \/ SelectTimeout PROVE Inv'
    OBVIOUS
  <1>1. /\ TypeOK /\ MineInv /\ OwnInv /\ RoomInv /\ TriesInv
        /\ OneAttemptAtATime /\ RetriesAreUsedUp
    BY DEF Inv
  <1>2. CASE Deadline
    <2>1. /\ expired' = TRUE
          /\ UNCHANGED <<timeout, retry, pc, i, job, mine, done, removed, control,
                         own, tries, outcome>>
      BY <1>2 DEF Deadline, config, history
    <2>2. TypeOK'
      BY <1>1, <2>1 DEF TypeOK, control
    <2>3. MineInv' /\ OwnInv' /\ RoomInv' /\ TriesInv'
      BY <1>1, <2>1 DEF MineInv, OwnInv, RoomInv, TriesInv, Waits
    <2>4. OneAttemptAtATime' /\ RetriesAreUsedUp'
      BY <1>1, <2>1 DEF OneAttemptAtATime, RetriesAreUsedUp
    <2> QED
      BY <2>2, <2>3, <2>4 DEF Inv
  <1>3. CASE SelectDone \/ SelectTimeout
    <2>1. /\ pc = "select"
          /\ UNCHANGED <<timeout, retry, job, removed, control, own, tries>>
          /\ done' = done \/ done' = [done EXCEPT ![mine] = "empty"]
      BY <1>3 DEF SelectDone, SelectTimeout, config
    <2>2. Waits /\ timeout /\ mine \in Attempt
      BY <1>1, <2>1 DEF MineInv, Waits, TypeOK
    <2>3. PICK answer \in Answer \cup {"timeout"} :
             Decide(answer) /\ (answer # "timeout" => done[mine] # "empty")
      <3>1. SelectTimeout => Decide("timeout")
        BY DEF SelectTimeout
      <3>2. SelectDone => done[mine] \in Answer /\ done[mine] # "empty" /\ Decide(done[mine])
        BY <1>1, <2>2 DEF SelectDone, TypeOK
      <3> QED
        BY <1>3, <3>1, <3>2
    <2>4. job'[mine] # "none" => job'[mine] = job[mine] /\ answer = "timeout"
      BY <1>1, <2>1, <2>2, <2>3 DEF RoomInv
    <2>5. /\ job' \in [Attempt -> {"none", "running"} \cup Answer]
          /\ done' \in [Attempt -> {"empty"} \cup Answer]
          /\ \A a \in Attempt : done'[a] # "empty" => done'[a] = done[a]
      BY <1>1, <2>1, <2>2 DEF TypeOK
    <2> QED
      BY <2>1, <2>2, <2>3, <2>4, <2>5, DecideStep
  <1> QED
    BY <1>2, <1>3

LEMMA InvNext == Inv /\ [Next]_vars => Inv'
  BY InvStutter, OthersStep, FireStep, AttemptBeginStep, LoopEndStep, CallStep,
     JobReturnsStep, SendStep, SelectStep
     DEF Next, Calls

THEOREM Invariant == Spec => []Inv
  BY InvInit, InvNext, PTL DEF Spec

-----------------------------------------------------------------------------
\* Every variable keeps its type; in particular the loop never counts past
\* retry + 1.
THEOREM TypeCorrect == Spec => []TypeOK
  BY Invariant, PTL DEF Inv

\* However often a job times out or hangs, an execution leaves at most one
\* attempt behind, and no retry runs beside it.
THEOREM OneAttempt == Spec => []OneAttemptAtATime
  BY Invariant, PTL DEF Inv

\* An execution stops trying exactly when it has succeeded, has timed out, or
\* has failed retry + 1 times.
THEOREM RetriesAreExact == Spec => []RetriesAreUsedUp
  BY Invariant, PTL DEF Inv

\* A goroutine that has an answer never has to wait with it, whether or not
\* its attempt was given up: the channel of one that has not sent is empty,
\* and nobody sends to it twice (scheduler.go:252).
THEOREM AnswersFindRoom ==
    Spec => [](\A a \in Attempt : job[a] \in Answer => Buffered(a) < Capacity)
  <1>1. Inv => \A a \in Attempt : job[a] \in Answer => Buffered(a) < Capacity
    BY DEF Inv, RoomInv, Answer, Buffered, Capacity
  <1> QED
    BY <1>1, Invariant, PTL
=============================================================================
