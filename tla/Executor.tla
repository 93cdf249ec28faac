------------------------------- MODULE Executor -------------------------------
(***************************************************************************)
(* What the goroutine of a task does between the CompareAndSwap of Running *)
(* and the AddTask that reschedules the task (scheduler.go:238-314): the   *)
(* attempts, the timeout of each, and what becomes of an attempt that is   *)
(* given up.  Module Scheduler has one step for all of this, JobReturns.   *)
(*                                                                         *)
(* The executions of one ID follow one another (Scheduler!OneTaskPerID),   *)
(* so one variable says where the ID is.  With a timeout every attempt     *)
(* runs in a goroutine of its own, which nothing can stop: Execute may     *)
(* ignore its context.  What it answers goes to the channel of its attempt *)
(* alone, and a send waits as the channel makes it wait.                   *)
(***************************************************************************)
EXTENDS Naturals, FiniteSets

CONSTANTS Attempt,   \* names for the calls of Execute that are under way; bound
          Null,
          MaxRetry   \* bound: the argument of WithRetry

ASSUME ExecutorAssumption == Null \notin Attempt /\ MaxRetry \in Nat

VARIABLES timeout,  \* CronParser.timeout > 0
          retry,    \* CronParser.retry
          pc,       \* where the task is: in the storage, a line of run, or gone
          i,        \* the loop variable
          job,      \* attempt -> Execute is under way, or its answer to be sent
          mine,     \* the attempt whose channel select listens to
          done,     \* attempt -> what the buffer of its channel holds
          expired,  \* ctx.Done() of that attempt is closed
          removed,  \* Task.Removed
          stop,     \* Scheduler.running, and what a Stop still waits for
          callers,  \* the attempts whose job is in a call of Stop
          holder,   \* the one of them that holds mu
          own,      \* history: the attempts of this execution
          tries,    \* history: how many there have been
          outcome   \* history: how the last one ended

config == <<timeout, retry>>
channel == <<mine, done, expired>>
control == <<stop, callers, holder>>
history == <<own, tries, outcome>>
vars == <<config, pc, i, job, channel, removed, control, history>>

Answer == {"ok", "error"}

TypeOK ==
    /\ timeout \in BOOLEAN /\ retry \in 0..MaxRetry
    /\ pc \in {"waiting", "attempt", "call", "select", "next", "lock", "gone"}
    /\ i \in 0..(retry + 1)
    /\ job \in [Attempt -> {"none", "running"} \cup Answer]
    /\ mine \in Attempt \cup {Null}
    /\ done \in [Attempt -> {"empty"} \cup Answer]
    /\ expired \in BOOLEAN /\ removed \in BOOLEAN
    /\ stop \in {"running", "stopping", "drained", "stopped"}
    /\ callers \subseteq Attempt /\ holder \in Attempt \cup {Null}
    /\ own \subseteq Attempt
    /\ tries \in 0..(retry + 1)
    /\ outcome \in {"none", "timeout"} \cup Answer

Init ==
    /\ timeout \in BOOLEAN /\ retry \in 0..MaxRetry
    /\ pc = "waiting" /\ i = 0
    /\ job = [a \in Attempt |-> "none"]
    /\ mine = Null /\ done = [a \in Attempt |-> "empty"] /\ expired = FALSE
    /\ removed = FALSE
    /\ stop = "running" /\ callers = {} /\ holder = Null
    /\ own = {} /\ tries = 0 /\ outcome = "none"

\* No goroutine of wg is at work for this ID.
AtRest == pc \in {"waiting", "gone"}

-----------------------------------------------------------------------------
(***************************************************************************)
(* The loop over the attempts.                                             *)
(***************************************************************************)
\* Its time has come.  A run loop that Stop has told to go may still tick.
Fire ==
    /\ pc = "waiting"
    /\ stop \in {"running", "stopping"}
    /\ \E a \in Attempt : job[a] = "none"
    /\ pc' = "attempt" /\ i' = 0
    /\ own' = {} /\ tries' = 0 /\ outcome' = "none"
    /\ UNCHANGED <<config, job, channel, removed, control>>

\* Mutant of MayTry: the first attempt counts as a retry.
MayTryLess == i < retry

MayTry == i < retry + 1

\* Execute is called, with a timeout in a new goroutine that has a channel
\* of its own.
AttemptBegin(a) ==
    /\ pc = "attempt"
    /\ MayTry
    /\ job[a] = "none"
    /\ job' = [job EXCEPT ![a] = "running"]
    /\ pc' = IF timeout THEN "select" ELSE "call"
    /\ mine' = a /\ done' = [done EXCEPT ![a] = "empty"] /\ expired' = FALSE
    /\ own' = own \cup {a} /\ tries' = tries + 1 /\ outcome' = "none"
    /\ UNCHANGED <<config, i, removed, control>>

LoopEnd ==
    /\ pc = "attempt"
    /\ ~MayTry
    /\ pc' = "next"
    /\ UNCHANGED <<config, i, job, channel, removed, control, history>>

\* Mutant of GoesRound: a timeout is an error as any other.
NotDone(answer) == answer # "ok"

GoesRound(answer) == answer = "error"

\* The end of the loop body: another round, or break.
Decide(answer) ==
    /\ outcome' = answer
    /\ mine' = Null /\ expired' = FALSE
    /\ IF GoesRound(answer)
       THEN pc' = "attempt" /\ i' = i + 1
       ELSE pc' = "next" /\ UNCHANGED i

\* Execute returns to the goroutine of the task itself.
CallReturns(answer) ==
    /\ pc = "call" /\ mine \notin callers
    /\ job' = [job EXCEPT ![mine] = "none"]
    /\ Decide(answer)
    /\ UNCHANGED <<config, done, removed, control, own, tries>>

\* Its panic is recovered by the outermost deferred function: no more
\* attempts, and no rescheduling.
CallPanics ==
    /\ pc = "call" /\ mine \notin callers
    /\ job' = [job EXCEPT ![mine] = "none"]
    /\ pc' = "gone"
    /\ mine' = Null
    /\ UNCHANGED <<config, i, done, expired, removed, control, history>>

\* Execute returns, or panics, in the goroutine of an attempt.
JobReturns(a, answer) ==
    /\ timeout
    /\ job[a] = "running" /\ a \notin callers
    /\ job' = [job EXCEPT ![a] = answer]
    /\ UNCHANGED <<config, pc, i, channel, removed, control, history>>

\* Mutant of Capacity: make(chan error).
Unbuffered == 0

\* make(chan error, 1)
Capacity == 1

Buffered(a) == IF done[a] = "empty" THEN 0 ELSE 1

\* A send waits for room in the buffer, or for select to be there to receive.
SendGoesOn(a) == \/ Buffered(a) < Capacity
                 \/ Buffered(a) = 0 /\ pc = "select" /\ mine = a

\* done <- ..., and the goroutine ends.
Send(a) ==
    /\ timeout
    /\ job[a] \in Answer
    /\ SendGoesOn(a)
    /\ job' = [job EXCEPT ![a] = "none"]
    /\ done' = [done EXCEPT ![a] = job[a]]
    /\ UNCHANGED <<config, pc, i, mine, expired, removed, control, history>>

\* context.WithTimeout.
Deadline ==
    /\ pc = "select"
    /\ ~expired
    /\ expired' = TRUE
    /\ UNCHANGED <<config, pc, i, job, mine, done, removed, control, history>>

SelectDone ==
    /\ pc = "select"
    /\ done[mine] # "empty"
    /\ Decide(done[mine])
    /\ done' = [done EXCEPT ![mine] = "empty"]
    /\ UNCHANGED <<config, job, removed, control, own, tries>>

\* Mutant of SelectTimeout: the job is waited for all the same.
SelectPatient ==
    /\ pc = "select"
    /\ expired /\ done[mine] # "empty"
    /\ Decide("timeout")
    /\ UNCHANGED <<config, job, done, removed, control, own, tries>>

\* The attempt is given up, and so are the retries.  When an answer is there
\* too, select takes either.
SelectTimeout ==
    /\ pc = "select"
    /\ expired
    /\ Decide("timeout")
    /\ UNCHANGED <<config, job, done, removed, control, own, tries>>

-----------------------------------------------------------------------------
(***************************************************************************)
(* The end of an execution, and what others do meanwhile.                  *)
(***************************************************************************)
\* Without a next time, and if the scheduler is stopped, the task is gone.
NextTime ==
    /\ pc = "next"
    /\ \/ pc' = "gone"
       \/ stop = "running" /\ pc' = "lock"
    /\ UNCHANGED <<config, i, job, channel, removed, control, history>>

\* Under taskMu, after a Stop or a RemoveTask may have come: only the second
\* makes a difference.
Reschedule ==
    /\ pc = "lock"
    /\ pc' = IF removed THEN "gone" ELSE "waiting"
    /\ UNCHANGED <<config, i, job, channel, removed, control, history>>

\* RemoveTask, of the task in the storage or of the one being executed.
Remove ==
    /\ pc # "gone" /\ ~removed
    /\ IF pc = "waiting"
       THEN pc' = "gone" /\ UNCHANGED removed
       ELSE removed' = TRUE /\ UNCHANGED pc
    /\ UNCHANGED <<config, i, job, channel, control, history>>

\* AddTask of the ID, when it is gone.
AddTask ==
    /\ pc = "gone"
    /\ pc' = "waiting" /\ removed' = FALSE
    /\ UNCHANGED <<config, i, job, channel, control, history>>

Start ==
    /\ stop = "stopped"
    /\ stop' = "running"
    /\ UNCHANGED <<config, pc, i, job, channel, removed, callers, holder, history>>

\* Stop is called, not by a job; mu is free.
StopBegin ==
    /\ stop = "running"
    /\ stop' = "stopping"
    /\ UNCHANGED <<config, pc, i, job, channel, removed, callers, holder, history>>

\* A job calls Stop and waits for mu.
JobStops(a) ==
    /\ job[a] = "running" /\ a \notin callers
    /\ callers' = callers \cup {a}
    /\ UNCHANGED <<config, pc, i, job, channel, removed, stop, holder, history>>

\* It takes mu, and returns at once if the scheduler does not run.
JobStopBegin(a) ==
    /\ a \in callers
    /\ \/ /\ stop = "running"
          /\ stop' = "stopping" /\ holder' = a
          /\ UNCHANGED callers
       \/ /\ stop = "stopped"
          /\ callers' = callers \ {a}
          /\ UNCHANGED <<stop, holder>>
    /\ UNCHANGED <<config, pc, i, job, channel, removed, history>>

\* The run loop hears of it.
LoopExit ==
    /\ stop = "stopping"
    /\ stop' = "drained"
    /\ UNCHANGED <<config, pc, i, job, channel, removed, callers, holder, history>>

\* Mutant of StopEnd: the goroutines of the attempts count in wg.
StopEndOfAll ==
    /\ stop = "drained"
    /\ AtRest /\ \A a \in Attempt : job[a] = "none"
    /\ stop' = "stopped"
    /\ callers' = callers \ {holder} /\ holder' = Null
    /\ UNCHANGED <<config, pc, i, job, channel, removed, history>>

\* wg.Wait: the goroutine of an attempt is not one of wg, so that one whose
\* job called Stop and was given up still comes back from there.
StopEnd ==
    /\ stop = "drained"
    /\ AtRest
    /\ stop' = "stopped"
    /\ callers' = callers \ {holder} /\ holder' = Null
    /\ UNCHANGED <<config, pc, i, job, channel, removed, history>>

Next == \/ Fire \/ LoopEnd \/ CallPanics
        \/ \E a \in Attempt : \/ AttemptBegin(a) \/ Send(a)
                              \/ JobStops(a) \/ JobStopBegin(a)
                              \/ \E answer \in Answer : JobReturns(a, answer)
        \/ \E answer \in Answer : CallReturns(answer)
        \/ Deadline \/ SelectDone \/ SelectTimeout
        \/ NextTime \/ Reschedule \/ Remove \/ AddTask
        \/ Start \/ StopBegin \/ LoopExit \/ StopEnd

Spec == Init /\ [][Next]_vars

-----------------------------------------------------------------------------
(***************************************************************************)
(* Safety.                                                                 *)
(***************************************************************************)
\* "skipping retries to prevent goroutine accumulation" (scheduler.go:272):
\* an execution leaves at most one attempt behind, and a retry never runs
\* beside an earlier attempt of its own execution.
OneAttemptAtATime == \A a, b \in own : job[a] # "none" /\ job[b] # "none" => a = b

\* An execution gives up neither too early nor too late: when it is over,
\* Execute has succeeded, or timed out, or failed retry + 1 times, and it was
\* never called again after a success or a timeout.
RetriesAreUsedUp ==
    /\ pc \in {"next", "lock"} => outcome \in {"ok", "timeout"} \/ tries = retry + 1
    /\ pc \in {"attempt", "call", "select"} => outcome \in {"none", "error"}

-----------------------------------------------------------------------------
(***************************************************************************)
(* Liveness.  Goroutines that can go on do, and timers fire.  Nothing is   *)
(* assumed of the job: Execute need not return.                            *)
(***************************************************************************)
Fairness ==
    /\ WF_vars(LoopEnd)
    /\ WF_vars(\E a \in Attempt : AttemptBegin(a))
    /\ WF_vars(Deadline)
    /\ WF_vars(SelectDone \/ SelectTimeout)
    /\ WF_vars(NextTime) /\ WF_vars(Reschedule)
    /\ WF_vars(LoopExit)
    /\ WF_vars(StopEnd)
    /\ \A a \in Attempt : WF_vars(Send(a))

FairSpec == Spec /\ Fairness

\* WithTimeout bounds an execution, retries included, whatever the job does:
\* the goroutine that holds Running and wg comes to its end.
ExecutionEnds == timeout /\ ~AtRest ~> AtRest

\* Hence Stop returns, although the loop may start more executions while Stop
\* waits for it, jobs may hang for ever, and the job of an execution it waits
\* for may be the one that has called it.  (Without a timeout that job waits
\* in wg.Wait for its own goroutine, scheduler.go:208, and keeps mu for good.)
StopReturns == timeout /\ stop = "stopping" ~> stop = "stopped"

\* The goroutine of an attempt ends once Execute has returned, also if it was
\* given up and nobody will ever read its channel: the one answer that it
\* sends finds room in the buffer (:252).
NoLeak == \A a \in Attempt : job[a] \in Answer ~> job[a] = "none"
=============================================================================
