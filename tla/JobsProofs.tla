----------------------------- MODULE JobsProofs -----------------------------
(***************************************************************************)
(* Theorems about the parts that MCJobs runs together: the job queue, and  *)
(* the slots plugins claim with the cache of the settings.                 *)
(***************************************************************************)
EXTENDS JobQueue, PluginSlots, FiniteSetTheorems, WellFoundedInduction, TLAPS

(***************************************************************************)
(* JobQueue.                                                               *)
(*                                                                         *)
(* Theorems about JobQueue for every number of jobs, attempts, ticks and   *)
(* restarts.  One inductive invariant, IInv, carries them all:             *)
(*   ClaimHeld        the worker's row stays running and its copy fresh,   *)
(*   Unclaimed        between two jobs, or when down, the worker holds none *)
(*   Counted          what attempts says in each state of a row,           *)
(*   FreshIsDue       a row never tried is due, so a drain sees it,        *)
(*   OutcomeRecorded  a handler that returned nil is in effected.          *)
(***************************************************************************)

Unclaimed ==
    /\ worker \notin {"run", "finish"} => claimed = NoJob
    /\ proc = "down" => worker = "exited"

Counted ==
    \A j \in Jobs :
        /\ attempts[j] <= MaxAttempts + restarts
        /\ state[j] = "queued" => attempts[j] < MaxAttempts + restarts
        /\ state[j] = "running" => attempts[j] >= 1
        /\ state[j] = "failed" => attempts[j] >= MaxAttempts

FreshIsDue ==
    \A j \in Jobs : state[j] = "queued" /\ attempts[j] = 0 => wait[j] <= 0

OutcomeRecorded ==
    worker = "finish" /\ outcome = "ok" => claimed.id \in effected

IInv ==
    /\ TypeOK
    /\ ClaimHeld
    /\ Unclaimed
    /\ Counted
    /\ FreshIsDue
    /\ OutcomeRecorded

(* The steps of the worker and of the process that touch no row.           *)
QueueQuiet ==
    \/ Signal
    \/ DrainEnds
    \/ EnterSelect
    \/ FinishFails
    \/ WakeUp
    \/ PollTick
    \/ WorkerExits
    \/ Shutdown
    \/ ProcessEnds

-----------------------------------------------------------------------------
(* backoff() never exceeds maxJobBackoff and never goes negative, whatever *)
(* the number of attempts.                                                 *)
LEMMA BackoffBounded ==
    ASSUME NEW a \in Nat
    PROVE  Backoff(a) \in 0..MaxBackoff
  BY JobsAssumption DEF Backoff

LEMMA InitType == Init => TypeOK
  <1> SUFFICES ASSUME Init
               PROVE  TypeOK
    OBVIOUS
  <1> USE JobsAssumption DEF Init
  <1>1. wait \in [Jobs -> -MaxLag..MaxBackoff]
    <2>1. 0 \in -MaxLag..MaxBackoff
      OBVIOUS
    <2>2. QED
      BY <2>1
  <1>2. claimed \in [id : Jobs \cup {0}, attempts : Nat]
    BY DEF NoJob
  <1>3. QED
    BY <1>1, <1>2 DEF TypeOK, RowState, ProcState, WorkerState

LEMMA NextType == TypeOK /\ ClaimHeld /\ [Next]_vars => TypeOK'
  <1> SUFFICES ASSUME TypeOK, ClaimHeld, [Next]_vars
               PROVE  TypeOK'
    OBVIOUS
  <1> USE JobsAssumption DEF TypeOK, RowState, ProcState, WorkerState, procVars, rowVars
  <1>1. ASSUME NEW j \in Jobs, Enqueue(j)
        PROVE  TypeOK'
    BY <1>1 DEF Enqueue
  <1>2. ASSUME NEW j \in Jobs, Retry(j)
        PROVE  TypeOK'
    BY <1>2 DEF Retry
  <1>3. ASSUME NEW j \in Jobs, ClaimDueJob(j)
        PROVE  TypeOK'
    BY <1>3 DEF ClaimDueJob
  <1>4. ASSUME NEW S \in SUBSET Jobs, Remove(S)
        PROVE  TypeOK'
    BY <1>4 DEF Remove
  <1>5. ASSUME NEW res \in {"ok", "error"}, HandlerReturns(res)
        PROVE  TypeOK'
    BY <1>5 DEF HandlerReturns, ClaimHeld
  <1>6. CASE Finish
    <2>1. claimed.attempts \in Nat
      OBVIOUS
    <2>2. Backoff(claimed.attempts) \in 0..MaxBackoff
      BY <2>1, BackoffBounded
    <2> DEFINE w == IF FinishState = "queued" THEN Backoff(claimed.attempts) ELSE 0
    <2>3. w \in -MaxLag..MaxBackoff
      BY <2>2
    <2>4. FinishState \in RowState
      BY DEF FinishState
    <2>5. wait' = [wait EXCEPT ![claimed.id] = w]
      BY <1>6 DEF Finish
    <2> HIDE DEF w
    <2>6. wait' \in [Jobs -> -MaxLag..MaxBackoff]
      BY <2>3, <2>5
    <2>7. state' \in [Jobs -> RowState]
      BY <1>6, <2>4 DEF Finish
    <2>8. QED
      BY <1>6, <2>6, <2>7 DEF Finish, NoJob
  <1>7. CASE QueueQuiet
    <2>1. CASE Signal
      <3>1. wake' \in BOOLEAN
        BY <2>1, Zenon DEF Signal, Token
      <3>2. owed' \in Nat
        BY <2>1 DEF Signal
      <3>3. QED
        BY <2>1, <3>1, <3>2 DEF Signal
    <2>2. CASE DrainEnds \/ EnterSelect
      BY <2>2 DEF DrainEnds, EnterSelect
    <2>3. CASE FinishFails
      BY <2>3 DEF FinishFails, NoJob
    <2>4. CASE WakeUp \/ PollTick \/ WorkerExits \/ Shutdown
      BY <2>4 DEF WakeUp, PollTick, WorkerExits, Shutdown
    <2>5. CASE ProcessEnds
      BY <2>5 DEF ProcessEnds, NoJob
    <2>6. QED
      BY <1>7, <2>1, <2>2, <2>3, <2>4, <2>5, Zenon DEF QueueQuiet
  <1>8. CASE Start
    BY <1>8 DEF Start, Requeued
  <1>9. CASE Tick
    BY <1>9 DEF Tick
  <1>10. CASE UNCHANGED vars
    BY <1>10 DEF vars
  <1>11. CASE ClearFailed
    BY <1>4, <1>11 DEF ClearFailed
  <1>12. CASE PruneDone
    BY <1>4, <1>12 DEF PruneDone
  <1> HIDE DEF TypeOK
  <1>13. QED
    BY <1>1, <1>2, <1>3, <1>5, <1>6, <1>7, <1>8, <1>9, <1>10, <1>11, <1>12
       DEF Next, QueueQuiet

-----------------------------------------------------------------------------
(* Every row of S was done or failed, so none of them is the worker's.     *)
LEMMA RemovedRows ==
    ASSUME NEW S, Remove(S)
    PROVE  /\ UNCHANGED <<attempts, wait, proc, worker, claimed, outcome, wake, owed,
                          restarts, effected>>
           /\ \A j \in Jobs : state'[j] = IF j \in S THEN "gone" ELSE state[j]
  BY DEF Remove, procVars

(* What a quiet step leaves alone, and what it does to the worker.         *)
LEMMA QuietFrame ==
    ASSUME QueueQuiet
    PROVE  /\ UNCHANGED <<state, attempts, wait, outcome, restarts, effected>>
           /\ \/ worker' = worker /\ claimed' = claimed
              \/ worker' \notin {"run", "finish"} /\ claimed' = NoJob
              \/ /\ worker \notin {"run", "finish"} /\ worker' \notin {"run", "finish"}
                 /\ claimed' = claimed
           /\ proc' = "down" /\ worker' # "exited" => proc = "down" /\ worker # "exited"
  BY DEF QueueQuiet, Signal, DrainEnds, EnterSelect, FinishFails, WakeUp, PollTick, WorkerExits,
         Shutdown, ProcessEnds, rowVars

LEMMA NextClaim ==
    TypeOK /\ ClaimHeld /\ Unclaimed /\ [Next]_vars => ClaimHeld' /\ Unclaimed'
  <1> SUFFICES ASSUME TypeOK, ClaimHeld, Unclaimed, [Next]_vars
               PROVE  ClaimHeld' /\ Unclaimed'
    OBVIOUS
  <1> USE DEF TypeOK, ClaimHeld, Unclaimed
  <1>1. ASSUME NEW j \in Jobs, Enqueue(j)
        PROVE  ClaimHeld' /\ Unclaimed'
    BY <1>1 DEF Enqueue
  <1>2. ASSUME NEW j \in Jobs, Retry(j)
        PROVE  ClaimHeld' /\ Unclaimed'
    BY <1>2 DEF Retry, Retryable
  <1>3. ASSUME NEW j \in Jobs, ClaimDueJob(j)
        PROVE  ClaimHeld' /\ Unclaimed'
    BY <1>3 DEF ClaimDueJob
  <1>4. CASE ClearFailed
    BY <1>4, RemovedRows DEF ClearFailed
  <1>5. CASE PruneDone
    BY <1>5, RemovedRows DEF PruneDone, Prunable
  <1>6. ASSUME NEW res \in {"ok", "error"}, HandlerReturns(res)
        PROVE  ClaimHeld' /\ Unclaimed'
    BY <1>6 DEF HandlerReturns, rowVars
  <1>7. CASE Finish
    BY <1>7 DEF Finish
  <1>8. CASE QueueQuiet
    <2>1. ClaimHeld'
      BY <1>8, QuietFrame
    <2>2. Unclaimed'
      BY <1>8, QuietFrame
    <2>3. QED
      BY <2>1, <2>2
  <1>9. CASE Start
    BY <1>9 DEF Start
  <1>10. CASE Tick
    BY <1>10 DEF Tick, procVars
  <1>11. CASE UNCHANGED vars
    BY <1>11 DEF vars, rowVars, procVars
  <1> HIDE DEF TypeOK, ClaimHeld, Unclaimed
  <1>12. QED
    BY <1>1, <1>2, <1>3, <1>4, <1>5, <1>6, <1>7, <1>8, <1>9, <1>10, <1>11
       DEF Next, QueueQuiet

LEMMA NextCounted ==
    TypeOK /\ ClaimHeld /\ Counted /\ [Next]_vars => Counted'
  <1> SUFFICES ASSUME TypeOK, ClaimHeld, Counted, [Next]_vars
               PROVE  Counted'
    OBVIOUS
  <1> USE JobsAssumption DEF TypeOK, Counted
  <1>1. ASSUME NEW j \in Jobs, Enqueue(j)
        PROVE  Counted'
    BY <1>1 DEF Enqueue
  <1>2. ASSUME NEW j \in Jobs, Retry(j)
        PROVE  Counted'
    BY <1>2 DEF Retry
  <1>3. ASSUME NEW j \in Jobs, ClaimDueJob(j)
        PROVE  Counted'
    BY <1>3 DEF ClaimDueJob, Oldest, Due
  <1>4. CASE ClearFailed
    BY <1>4, RemovedRows DEF ClearFailed
  <1>5. CASE PruneDone
    BY <1>5, RemovedRows DEF PruneDone
  <1>6. ASSUME NEW res \in {"ok", "error"}, HandlerReturns(res)
        PROVE  Counted'
    BY <1>6 DEF HandlerReturns, rowVars
  <1>7. CASE Finish
    BY <1>7 DEF Finish, FinishState, ClaimHeld
  <1>8. CASE QueueQuiet
    BY <1>8, QuietFrame
  <1>9. CASE Start
    BY <1>9 DEF Start, Requeued
  <1>10. CASE Tick
    BY <1>10 DEF Tick
  <1>11. CASE UNCHANGED vars
    BY <1>11 DEF vars, rowVars
  <1> HIDE DEF TypeOK, Counted
  <1>12. QED
    BY <1>1, <1>2, <1>3, <1>4, <1>5, <1>6, <1>7, <1>8, <1>9, <1>10, <1>11
       DEF Next, QueueQuiet

LEMMA NextFresh ==
    TypeOK /\ ClaimHeld /\ Counted /\ FreshIsDue /\ [Next]_vars => FreshIsDue'
  <1> SUFFICES ASSUME TypeOK, ClaimHeld, Counted, FreshIsDue, [Next]_vars
               PROVE  FreshIsDue'
    OBVIOUS
  <1> USE JobsAssumption DEF TypeOK, FreshIsDue
  <1>1. ASSUME NEW j \in Jobs, Enqueue(j)
        PROVE  FreshIsDue'
    BY <1>1 DEF Enqueue
  <1>2. ASSUME NEW j \in Jobs, Retry(j)
        PROVE  FreshIsDue'
    BY <1>2 DEF Retry
  <1>3. ASSUME NEW j \in Jobs, ClaimDueJob(j)
        PROVE  FreshIsDue'
    BY <1>3 DEF ClaimDueJob
  <1>4. CASE ClearFailed
    BY <1>4, RemovedRows DEF ClearFailed
  <1>5. CASE PruneDone
    BY <1>5, RemovedRows DEF PruneDone
  <1>6. ASSUME NEW res \in {"ok", "error"}, HandlerReturns(res)
        PROVE  FreshIsDue'
    BY <1>6 DEF HandlerReturns, rowVars
  <1>7. CASE Finish
    <2>1. attempts[claimed.id] >= 1 /\ claimed.id \in Jobs
      BY <1>7 DEF Finish, ClaimHeld, Counted
    <2>2. attempts' = attempts
      BY <1>7 DEF Finish
    <2>3. \A j \in Jobs : j # claimed.id => state'[j] = state[j] /\ wait'[j] = wait[j]
      BY <1>7 DEF Finish
    <2>4. QED
      BY <2>1, <2>2, <2>3
  <1>8. CASE QueueQuiet
    BY <1>8, QuietFrame
  <1>9. CASE Start
    BY <1>9 DEF Start, Requeued, Counted
  <1>10. CASE Tick
    BY <1>10 DEF Tick
  <1>11. CASE UNCHANGED vars
    BY <1>11 DEF vars, rowVars
  <1> HIDE DEF TypeOK, FreshIsDue
  <1>12. QED
    BY <1>1, <1>2, <1>3, <1>4, <1>5, <1>6, <1>7, <1>8, <1>9, <1>10, <1>11
       DEF Next, QueueQuiet

LEMMA NextOutcome ==
    TypeOK /\ ClaimHeld /\ OutcomeRecorded /\ [Next]_vars => OutcomeRecorded'
  <1> SUFFICES ASSUME TypeOK, ClaimHeld, OutcomeRecorded, [Next]_vars
               PROVE  OutcomeRecorded'
    OBVIOUS
  <1> USE DEF OutcomeRecorded
  <1>1. ASSUME NEW j \in Jobs, Enqueue(j) \/ Retry(j) \/ ClaimDueJob(j)
        PROVE  OutcomeRecorded'
    BY <1>1 DEF Enqueue, Retry, ClaimDueJob
  <1>2. CASE ClearFailed \/ PruneDone
    BY <1>2, RemovedRows DEF ClearFailed, PruneDone
  <1>3. ASSUME NEW res \in {"ok", "error"}, HandlerReturns(res)
        PROVE  OutcomeRecorded'
    BY <1>3 DEF HandlerReturns
  <1>4. CASE Finish \/ Start
    BY <1>4 DEF Finish, Start
  <1>5. CASE QueueQuiet
    BY <1>5, QuietFrame
  <1>6. CASE Tick \/ UNCHANGED vars
    BY <1>6 DEF Tick, vars, procVars
  <1> HIDE DEF OutcomeRecorded
  <1>7. QED
    BY <1>1, <1>2, <1>3, <1>4, <1>5, <1>6 DEF Next, QueueQuiet

-----------------------------------------------------------------------------
LEMMA InitIInv == Init => IInv
  BY InitType, JobsAssumption
     DEF Init, IInv, ClaimHeld, Unclaimed, Counted, FreshIsDue, OutcomeRecorded

LEMMA NextIInv == IInv /\ [Next]_vars => IInv'
  BY NextType, NextClaim, NextCounted, NextFresh, NextOutcome DEF IInv

LEMMA Invariance == Spec => []IInv
  BY InitIInv, NextIInv, PTL DEF Spec

(* Type correctness, for every value of the constants.                     *)
THEOREM TypeCorrect == Spec => []TypeOK
  <1>1. IInv => TypeOK
    BY DEF IInv
  <1>2. QED
    BY <1>1, Invariance, PTL

(* The claim is held: while a job runs, no retry, clear, prune or requeue  *)
(* touches its row, so FinishJob's unconditional write is safe.            *)
THEOREM ClaimIsHeld == Spec => []ClaimHeld
  <1>1. IInv => ClaimHeld
    BY DEF IInv
  <1>2. QED
    BY <1>1, Invariance, PTL

(* A job passes max_attempts by at most one for each restart.              *)
THEOREM AttemptsAreBounded == Spec => []AttemptsBounded
  <1>1. IInv => AttemptsBounded
    BY DEF IInv, Counted, AttemptsBounded
  <1>2. QED
    BY <1>1, Invariance, PTL

(* A job reported failed has used up its attempts.                         *)
THEOREM FailedAreExhausted == Spec => []FailedIsExhausted
  <1>1. IInv => FailedIsExhausted
    BY DEF IInv, Counted, FailedIsExhausted
  <1>2. QED
    BY <1>1, Invariance, PTL

-----------------------------------------------------------------------------
(* NoLostWakeup is not inductive: it must already hold on the way from the *)
(* empty claim to the select.  It starts to hold there because a job never *)
(* tried is due (FreshIsDue), so the claim would have found it.            *)
NotOverlooked ==
    (proc = "up" /\ worker \in {"drained", "wait"} /\ ~wake /\ owed = 0) =>
        \A j \in Jobs : state[j] = "queued" => attempts[j] > 0

LEMMA NextOverlooked == IInv /\ NotOverlooked /\ [Next]_vars => NotOverlooked'
  <1> SUFFICES ASSUME IInv, NotOverlooked, [Next]_vars
               PROVE  NotOverlooked'
    OBVIOUS
  <1> USE DEF IInv, TypeOK, NotOverlooked
  <1>1. ASSUME NEW j \in Jobs, Enqueue(j) \/ Retry(j) \/ ClaimDueJob(j)
        PROVE  NotOverlooked'
    BY <1>1 DEF Enqueue, Retry, ClaimDueJob
  <1>2. CASE ClearFailed \/ PruneDone
    BY <1>2, RemovedRows DEF ClearFailed, PruneDone
  <1>3. ASSUME NEW res \in {"ok", "error"}, HandlerReturns(res)
        PROVE  NotOverlooked'
    BY <1>3 DEF HandlerReturns
  <1>4. CASE Finish \/ Start \/ FinishFails \/ WakeUp \/ PollTick \/ WorkerExits
    BY <1>4 DEF Finish, Start, FinishFails, WakeUp, PollTick, WorkerExits
  <1>5. CASE Signal
    BY <1>5 DEF Signal, Token
  <1>6. CASE DrainEnds
    <2>1. ASSUME worker' = "drained", NEW j \in Jobs, state[j] = "queued"
          PROVE  attempts[j] > 0
      BY <1>6, <2>1 DEF DrainEnds, FreshIsDue, Due
    <2>2. QED
      BY <1>6, <2>1 DEF DrainEnds, rowVars
  <1>7. CASE Shutdown \/ ProcessEnds \/ EnterSelect
    BY <1>7 DEF Shutdown, ProcessEnds, EnterSelect, rowVars
  <1>8. CASE Tick \/ UNCHANGED vars
    BY <1>8 DEF Tick, vars, procVars, rowVars
  <1> HIDE DEF IInv, NotOverlooked
  <1>9. QED
    BY <1>1, <1>2, <1>3, <1>4, <1>5, <1>6, <1>7, <1>8 DEF Next

(* No wake-up is lost: a worker asleep after an empty drain never sits out *)
(* the poll interval while a new or a retried job waits.                   *)
THEOREM WakeupsAreNotLost == Spec => []NoLostWakeup
  <1>1. Init => NotOverlooked
    BY DEF Init, NotOverlooked
  <1>2. NotOverlooked => NoLostWakeup
    BY DEF NotOverlooked, NoLostWakeup
  <1>3. QED
    BY <1>1, <1>2, NextOverlooked, Invariance, PTL DEF Spec

LEMMA NextSingle == IInv /\ SingleRunner /\ [Next]_vars => SingleRunner'
  <1> SUFFICES ASSUME IInv, SingleRunner, [Next]_vars, ~DBFaults
               PROVE  SingleRunner'
    BY DEF SingleRunner
  <1> USE DEF IInv, TypeOK, SingleRunner
  <1>1. ASSUME NEW j \in Jobs, Enqueue(j) \/ Retry(j)
        PROVE  SingleRunner'
    BY <1>1 DEF Enqueue, Retry, Serving
  <1>2. ASSUME NEW j \in Jobs, ClaimDueJob(j)
        PROVE  SingleRunner'
    BY <1>2 DEF ClaimDueJob, Unclaimed, NoJob, Jobs
  <1>3. CASE ClearFailed \/ PruneDone
    BY <1>3, RemovedRows DEF ClearFailed, PruneDone
  <1>4. ASSUME NEW res \in {"ok", "error"}, HandlerReturns(res)
        PROVE  SingleRunner'
    BY <1>4 DEF HandlerReturns, rowVars
  <1>5. CASE Finish
    <2>1. claimed.id \in Jobs /\ FinishState # "running"
      BY <1>5 DEF Finish, ClaimHeld, FinishState
    <2>2. state' = [state EXCEPT ![claimed.id] = FinishState] /\ proc' = proc
      BY <1>5 DEF Finish
    <2>3. QED
      BY <2>1, <2>2
  <1>6. CASE Start
    BY <1>6 DEF Start, Requeued
  <1>7. CASE Signal \/ DrainEnds \/ EnterSelect \/ WakeUp \/ PollTick \/ WorkerExits \/ Shutdown
    BY <1>7 DEF Signal, DrainEnds, EnterSelect, WakeUp, PollTick, WorkerExits, Shutdown, rowVars
  <1>8. CASE FinishFails \/ ProcessEnds
    BY <1>8 DEF FinishFails, ProcessEnds
  <1>9. CASE Tick \/ UNCHANGED vars
    BY <1>9 DEF Tick, vars, procVars, rowVars
  <1> HIDE DEF IInv, SingleRunner
  <1>10. QED
    BY <1>1, <1>2, <1>3, <1>4, <1>5, <1>6, <1>7, <1>8, <1>9 DEF Next

(* While the database answers, only the live worker's job says running.    *)
THEOREM OneRunner == Spec => []SingleRunner
  <1>1. Init => SingleRunner
    BY DEF Init, SingleRunner
  <1>2. QED
    BY <1>1, NextSingle, Invariance, PTL DEF Spec

-----------------------------------------------------------------------------
(* The queue implements DurableJobs: each step of the rows, the worker and *)
(* the process is one step of the promise, or a step it does not see.      *)

LEMMA StatusUnchanged ==
    ASSUME \A j \in Jobs : Status(j)' = Status(j)
    PROVE  [j \in Jobs |-> Status(j)]' = [j \in Jobs |-> Status(j)]
  OBVIOUS

LEMMA StatusUpdate ==
    ASSUME NEW j \in Jobs, NEW v,
           Status(j)' = v,
           \A i \in Jobs \ {j} : Status(i)' = Status(i)
    PROVE  [i \in Jobs |-> Status(i)]' = [[i \in Jobs |-> Status(i)] EXCEPT ![j] = v]
  OBVIOUS

LEMMA StepImplements == IInv /\ [Next]_vars => [Durable!Next]_(Durable!vars)
  <1> SUFFICES ASSUME IInv, [Next]_vars
               PROVE  Durable!Next \/ UNCHANGED Durable!vars
    OBVIOUS
  <1> DEFINE st == [j \in Jobs |-> Status(j)]
  <1> USE DEF IInv, TypeOK
  <1>1. ASSUME NEW j \in Jobs, Enqueue(j)
        PROVE  Durable!Accept(j)
    <2>1. st' = [st EXCEPT ![j] = "pending"]
      BY <1>1, StatusUpdate DEF Enqueue, Status
    <2>2. QED
      BY <1>1, <2>1 DEF Durable!Accept, Enqueue, Status
  <1>2. ASSUME NEW j \in Jobs, Retry(j)
        PROVE  Durable!Reissue(j)
    <2>1. st' = [st EXCEPT ![j] = "pending"]
      BY <1>2, StatusUpdate DEF Retry, Retryable, Status
    <2>2. QED
      BY <1>2, <2>1 DEF Durable!Reissue, Retry, Retryable, Status
  <1>3. ASSUME NEW S \in SUBSET Jobs, Remove(S),
               (\A j \in S : state[j] = "done") \/ (\A j \in S : state[j] = "failed")
        PROVE  Durable!Discard(S)
    <2>1. \A j \in Jobs : Status(j)' = IF j \in S THEN "gone" ELSE Status(j)
      BY <1>3 DEF Remove, Status
    <2>2. (\A j \in S : Status(j) = "done") \/ (\A j \in S : Status(j) = "failed")
      BY <1>3 DEF Status
    <2>3. QED
      BY <1>3, <2>1, <2>2 DEF Durable!Discard, Remove
  <1>4. ASSUME NEW res \in {"ok", "error"}, HandlerReturns(res)
        PROVE  \/ claimed.id \in Jobs /\ Durable!Effect(claimed.id)
               \/ UNCHANGED Durable!vars
    <2>1. st' = st /\ claimed.id \in Jobs /\ Status(claimed.id) = "pending"
      BY <1>4 DEF HandlerReturns, rowVars, ClaimHeld, Status
    <2>2. QED
      BY <1>4, <2>1 DEF HandlerReturns, Durable!Effect, Durable!vars
  <1>5. CASE Finish
    <2>1. claimed.id \in Jobs /\ state[claimed.id] = "running"
      BY <1>5 DEF Finish, ClaimHeld
    <2>2. \A i \in Jobs \ {claimed.id} : Status(i)' = Status(i)
      BY <1>5 DEF Finish, Status
    <2>3. state'[claimed.id] = FinishState /\ effected' = effected
      BY <1>5, <2>1 DEF Finish
    <2>4. CASE FinishState = "done"
      <3>1. claimed.id \in effected
        BY <1>5, <2>4 DEF Finish, FinishState, OutcomeRecorded
      <3>2. st' = [st EXCEPT ![claimed.id] = "done"]
        BY <2>1, <2>2, <2>3, <2>4, StatusUpdate DEF Status
      <3>3. Durable!Complete(claimed.id)
        BY <2>1, <2>3, <3>1, <3>2 DEF Durable!Complete, Status
      <3>4. QED
        BY <2>1, <3>3 DEF Durable!Next
    <2>5. CASE FinishState = "failed"
      <3>1. st' = [st EXCEPT ![claimed.id] = "failed"]
        BY <2>1, <2>2, <2>3, <2>5, StatusUpdate DEF Status
      <3>2. Durable!GiveUp(claimed.id)
        BY <2>1, <2>3, <3>1 DEF Durable!GiveUp, Status
      <3>3. QED
        BY <2>1, <3>2 DEF Durable!Next
    <2>6. CASE FinishState = "queued"
      BY <2>1, <2>2, <2>3, <2>6, StatusUnchanged DEF Durable!vars, Status
    <2>7. QED
      BY <2>4, <2>5, <2>6 DEF FinishState
  <1>6. ASSUME NEW j \in Jobs, ClaimDueJob(j)
        PROVE  UNCHANGED Durable!vars
    BY <1>6, StatusUnchanged DEF ClaimDueJob, Oldest, Due, Status, Durable!vars
  <1>7. CASE QueueQuiet
    BY <1>7, QuietFrame, StatusUnchanged DEF Status, Durable!vars
  <1>8. CASE Start
    BY <1>8, StatusUnchanged DEF Start, Requeued, Status, Durable!vars
  <1>9. CASE Tick \/ UNCHANGED vars
    BY <1>9, StatusUnchanged DEF Tick, vars, rowVars, Status, Durable!vars
  <1>10. CASE ClearFailed
    BY <1>3, <1>10 DEF ClearFailed, Durable!Next
  <1>11. CASE PruneDone
    BY <1>3, <1>11 DEF PruneDone, Prunable, Durable!Next
  <1> HIDE DEF IInv, TypeOK
  <1>12. QED
    BY <1>1, <1>2, <1>4, <1>5, <1>6, <1>7, <1>8, <1>9, <1>10, <1>11
       DEF Next, QueueQuiet, Durable!Next

(* The queue keeps the promise of DurableJobs in every behaviour: no job   *)
(* is lost, done means run, and only settled rows disappear.               *)
THEOREM Implements == Spec => KeepsPromise
  <1>1. Init => Durable!Init
    BY DEF Init, Durable!Init, Status
  <1>2. QED
    BY <1>1, StepImplements, Invariance, PTL DEF Spec, KeepsPromise, Durable!Spec

(***************************************************************************)
(* PluginSlots.                                                            *)
(*                                                                         *)
(* Proofs about PluginSlots, for every rule, number of candidates and set  *)
(* of requests.                                                            *)
(*                                                                         *)
(* CacheAgrees needs what a cold load has read (Loading) and that a writer *)
(* whose row is still the last one knows the row's value (Patching).       *)
(* SlotKept needs in turn that a request that decides alone decides on the *)
(* table as it is: Order says who may write and which keys may have lost a *)
(* race, Deeds how far the one change under way has come.                  *)
(***************************************************************************)

Enabled == table \cap Plugins

(* A cold load holds the table as it was, but for the keys written since.  *)
Loading ==
    \A q \in Reqs : phase[q] = "install" =>
        \A k \in Keys : (k \in seen[q] <=> k \in table) \/ k \in stale[q]

(* A writer that nobody overtook left the row as it wants it.              *)
Patching ==
    \A q \in Reqs, k \in Keys :
        phase[q] = "patch" /\ NextKey(q) = {k} /\ ~overwritten[q] =>
            (k \in table <=> k \in req[q].want)

(* Whoever only reads never gets to write.                                 *)
Writing == \A q \in Reqs : phase[q] \in {"write", "patch"} => req[q].kind # "look"

CInv == SlotTypeOK /\ Writing /\ Loading /\ Patching /\ CacheAgrees

-----------------------------------------------------------------------------
(* Requests.                                                               *)

(* What a request asks for, and which keys it may write.                   *)
Asking ==
    \A q \in Reqs :
        /\ req[q].kind = "toggle" => req[q].want \subseteq {req[q].first}
        /\ phase[q] \in {"write", "patch"} =>
             left[q] \subseteq IF req[q].kind = "save" THEN {0} ELSE Plugins
        /\ phase[q] = "install" => req[q].kind # "save"
        /\ overwritten[q] => phase[q] = "patch"

(* Changes that do not overlap come one at a time, and a preset among them *)
(* is alone.                                                               *)
OneAtATime ==
    /\ \A q \in alone : Changing = {q} /\ req[q].kind = "preset" /\ ~overwritten[q]
    /\ ~overlapped =>
        /\ \A q, l \in Changing : q = l
        /\ \A q \in Changing : ~overwritten[q] /\ (req[q].kind = "preset" => q \in alone)
    /\ overlapped => cutShort = {}

(* With a cold cache nobody changes plugins, and the plugins' keys lose a  *)
(* race only to changes that overlap.                                      *)
Races ==
    /\ ~warm =>
        /\ Changing = {}
        /\ \A q \in Reqs : phase[q] = "install" => stale[q] \subseteq {0}
    /\ ~overlapped => raced \cap Plugins = {}
    /\ \A q \in alone : raced \cap Plugins \subseteq left[q]

Order == Asking /\ OneAtATime /\ Races

-----------------------------------------------------------------------------
(* The change under way.                                                   *)

(* The keys whose rows it has yet to write.                                *)
Unwritten(q) == IF phase[q] = "patch" THEN left[q] \ NextKey(q) ELSE left[q]

(* A preset that is alone has its way with every row that it has written.  *)
PresetDone(q) ==
    /\ Obeys(req[q].want)
    /\ \A k \in Plugins \ Unwritten(q) : k \in table <=> k \in req[q].want

(* A toggle decided on the table as it is.                                 *)
ToggleBegins(q, p) ==
    IF req[q].want # {}
    THEN left[q] = {p} \cup EnabledPeers(p, table)
    ELSE left[q] = {p} /\ ~LockedOff(p, table)

(* After its own key, a toggle has only peers to switch off.               *)
ToggleGoesOn(q, p) ==
    IF req[q].want # {}
    THEN /\ p \in table
         /\ p \notin Unwritten(q)
         /\ SingleClaim => Enabled = {p} \cup Unwritten(q)
    ELSE /\ Unwritten(q) = {}
         /\ cutShort = {} => Obeys(Enabled)

Settled ==
    ~overlapped /\ cutShort = {} /\ (\A q \in Changing : Untouched(q)) =>
        /\ Obeys(Enabled)
        /\ label = "preset" => Enabled = last

Inhabited ==
    RequiresOne /\ ~overlapped /\ "preset" \notin cutShort
        /\ (\A q \in Changing : req[q].kind = "toggle" \/ Untouched(q)) => Enabled # {}

Deeds ==
    /\ \A q \in alone : PresetDone(q)
    /\ ~overlapped => \A q \in Changing : req[q].kind = "toggle" =>
        IF Untouched(q) THEN ToggleBegins(q, req[q].first) ELSE ToggleGoesOn(q, req[q].first)
    /\ Settled
    /\ Inhabited

SInv == CInv /\ Order /\ Deeds

-----------------------------------------------------------------------------
(* The operators.                                                          *)

LEMMA Requests ==
    ASSUME NEW r \in Request
    PROVE  /\ r.kind \in {"toggle", "preset", "look", "save"}
           /\ r.kind = "save" => r.want \subseteq {0} /\ r.first = 0
           /\ r.kind # "save" => r.want \subseteq Plugins
           /\ r.kind = "toggle" => r.first \in Plugins
           /\ \A E \in SUBSET Plugins :
                r.kind = "preset" => [r EXCEPT !.want = E] \in Request
  BY DEF Request

LEMMA PluginsAreKeys == Plugins \subseteq Keys /\ 0 \in Keys /\ 0 \notin Plugins
  BY SlotAssumption DEF Plugins, Keys

LEMMA IdleIsRequest == Idle \in Request /\ Idle.kind = "look" /\ Idle.want = {}
  BY DEF Request, Idle

LEMMA NormalPlugins ==
    ASSUME NEW E \in SUBSET Plugins
    PROVE  NormalizeSlots(E) \in SUBSET Plugins
  BY SlotAssumption DEF NormalizeSlots, First

LEMMA WrittenKeys ==
    ASSUME NEW r \in Request, r.kind # "look", NEW S
    PROVE  Writes(r, S) \subseteq (IF r.kind = "save" THEN {0} ELSE Plugins)
  BY Requests DEF Writes, EnabledPeers

LEMMA NextIsLeft ==
    ASSUME NEW q \in Reqs, NEW k, NextKey(q) = {k}
    PROVE  k \in left[q]
  BY DEF NextKey, First

(* A decision only concerns the request that makes it.                     *)
LEMMA Decided ==
    ASSUME SlotTypeOK, NEW q \in Reqs, NEW r \in Request, NEW S, Decide(q, r, S)
    PROVE  /\ phase' \in [Reqs -> {"idle", "install", "write", "patch"}]
           /\ phase'[q] \in {"idle", "write"}
           /\ phase'[q] = "write" => req'[q].kind # "look"
           /\ req' \in [Reqs -> Request] /\ left' \in [Reqs -> SUBSET Keys]
           /\ \A p \in Reqs : p # q =>
                phase'[p] = phase[p] /\ req'[p] = req[p] /\ left'[p] = left[p]
           /\ overlapped' \in BOOLEAN /\ alone' \subseteq Reqs /\ last' = last
           /\ cutShort' \subseteq {"toggle", "preset"}
<1>1. CASE r.kind = "look" \/ Refused(r, S)
  BY <1>1, IdleIsRequest DEF Decide, SlotTypeOK, slotHistory
<1>2. CASE ~(r.kind = "look" \/ Refused(r, S))
  <2>1. r.kind = "preset" =>
            /\ [r EXCEPT !.want = NormalizeSlots(@)] \in Request
            /\ [r EXCEPT !.want = NormalizeSlots(@)].kind = r.kind
    BY Requests, NormalPlugins DEF Request
  <2>2. Writes(r, S) \in SUBSET Keys
    BY <1>2, WrittenKeys, PluginsAreKeys
  <2> DEFINE n == IF r.kind = "preset" THEN [r EXCEPT !.want = NormalizeSlots(@)] ELSE r
  <2>3. n \in Request /\ n.kind # "look"
    BY <1>2, <2>1
  <2>4. /\ phase' = [phase EXCEPT ![q] = "write"] /\ req' = [req EXCEPT ![q] = n]
        /\ left' = [left EXCEPT ![q] = Writes(r, S)]
        /\ overlapped' = (overlapped \/ (r.kind # "save" /\ Changing # {})) /\ last' = last
        /\ alone' \in {alone, {}, {q}} /\ cutShort' \in {cutShort, {}}
    BY <1>2 DEF Decide
  <2> HIDE DEF n
  <2> QED BY <2>2, <2>3, <2>4 DEF SlotTypeOK
<1> QED BY <1>1, <1>2

LEMMA StillUncached ==
    ASSUME SlotTypeOK, NEW q \in Reqs, NEW r \in Request, NEW S, Decide(q, r, S),
           phase[q] # "patch", UNCHANGED overwritten,
           NEW k \in Keys, Uncached(k)
    PROVE  Uncached(k)'
<1>1. PICK p \in Reqs : phase[p] = "patch" /\ NextKey(p) = {k} /\ ~overwritten[p]
  BY DEF Uncached
<1>2. phase'[p] = "patch" /\ req'[p] = req[p] /\ left'[p] = left[p]
  BY <1>1, Decided
<1> QED BY <1>1, <1>2 DEF Uncached, NextKey

-----------------------------------------------------------------------------
(* The cache.                                                              *)

LEMMA CacheStarts == SlotInit => CInv
<1> SUFFICES ASSUME SlotInit PROVE CInv
  OBVIOUS
<1>1. SlotTypeOK
  BY IdleIsRequest, PluginsAreKeys DEF SlotInit, SlotTypeOK
<1> QED BY <1>1 DEF SlotInit, CInv, Writing, Loading, Patching, CacheAgrees

LEMMA AskCaches ==
    ASSUME CInv, NEW q \in Reqs, NEW r \in Request, Ask(q, r)
    PROVE  CInv'
<1> USE DEF CInv
<1>1. CASE r.kind = "save" \/ warm
  <2> USE <1>1 DEF Ask
  <2>1. Decide(q, r, cache) /\ phase[q] = "idle"
    OBVIOUS
  <2>2. SlotTypeOK' /\ Writing'
    BY <2>1, Decided DEF SlotTypeOK, stored, cached, Writing
  <2>3. Loading' /\ Patching'
    BY <2>1, <2>2, Decided DEF SlotTypeOK, stored, cached, Loading, Patching, NextKey
  <2>4. \A k \in Keys : Uncached(k) => Uncached(k)'
    BY <2>1, StillUncached
  <2>5. CacheAgrees'
    BY <2>4 DEF stored, cached, CacheAgrees
  <2> QED BY <2>2, <2>3, <2>5
<1>2. CASE ~(r.kind = "save" \/ warm)
  <2> USE <1>2 DEF Ask
  <2>1. /\ phase' = [phase EXCEPT ![q] = "install"] /\ req' = [req EXCEPT ![q] = r]
        /\ seen' = [seen EXCEPT ![q] = table] /\ stale' = [stale EXCEPT ![q] = {}]
        /\ UNCHANGED <<left, slotHistory, stored, cached, overwritten, raced>>
    OBVIOUS
  <2>2. SlotTypeOK' /\ Writing'
    BY <2>1 DEF SlotTypeOK, stored, cached, slotHistory, Writing
  <2>3. Loading' /\ Patching'
    BY <2>1 DEF SlotTypeOK, stored, cached, Loading, Patching, NextKey
  <2>4. CacheAgrees'
    BY <2>1 DEF cached, CacheAgrees
  <2> QED BY <2>2, <2>3, <2>4
<1> QED BY <1>1, <1>2

LEMMA InstallCaches ==
    ASSUME CInv, NEW q \in Reqs, Install(q)
    PROVE  CInv'
<1> USE DEF CInv, Install
<1>1. req[q] \in Request /\ phase[q] = "install"
  BY DEF SlotTypeOK
<1>2. SlotTypeOK' /\ Writing'
  BY <1>1, Decided DEF SlotTypeOK, stored, Writing
<1>3. Loading' /\ Patching'
  BY <1>1, <1>2, Decided DEF SlotTypeOK, stored, Loading, Patching, NextKey
<1>4. \A k \in Keys : Uncached(k) => Uncached(k)'
  BY <1>1, StillUncached
<1>5. CacheAgrees'
  BY <1>1, <1>4 DEF stored, CacheAgrees, Loading
<1> QED BY <1>2, <1>3, <1>5

LEMMA WriteCaches ==
    ASSUME CInv, NEW q \in Reqs, NEW k \in Keys, WriteRow(q, k)
    PROVE  CInv'
<1> USE DEF CInv, WriteRow
<1>1. SlotTypeOK' /\ Writing'
  BY NextIsLeft DEF Writing, SlotTypeOK, cached, slotHistory, Put
<1>2. \A l \in Keys : l # k => (l \in table' <=> l \in table)
  BY DEF Put
<1>3. k \in table' <=> k \in req[q].want
  BY DEF Put
<1>4. Loading'
  BY <1>2 DEF SlotTypeOK, Loading
<1>5. \A p \in Reqs : NextKey(p)' = NextKey(p)
  BY DEF NextKey
<1>6. Patching'
  <2> SUFFICES ASSUME NEW p \in Reqs, NEW l \in Keys,
                      phase'[p] = "patch", NextKey(p)' = {l}, ~overwritten'[p]
               PROVE  l \in table' <=> l \in req'[p].want
    BY DEF Patching
  <2>1. CASE p = q
    BY <2>1, <1>3, <1>5
  <2>2. CASE p # q
    <3>1. phase[p] = "patch" /\ NextKey(p) = {l} /\ ~overwritten[p] /\ l # k
      BY <2>2, <1>5 DEF SlotTypeOK
    <3> QED BY <3>1, <1>2 DEF Patching
  <2> QED BY <2>1, <2>2
<1>7. Uncached(k)'
  BY <1>5 DEF Uncached, SlotTypeOK
<1>8. \A l \in Keys : l # k /\ Uncached(l) => Uncached(l)'
  <2> SUFFICES ASSUME NEW l \in Keys, l # k, NEW p \in Reqs,
                      phase[p] = "patch", NextKey(p) = {l}, ~overwritten[p]
               PROVE  phase'[p] = "patch" /\ NextKey(p)' = {l} /\ ~overwritten'[p]
    BY DEF Uncached
  <2> QED BY <1>5 DEF SlotTypeOK
<1>9. CacheAgrees'
  BY <1>2, <1>7, <1>8 DEF cached, CacheAgrees
<1> QED BY <1>1, <1>4, <1>6, <1>9

LEMMA PatchCaches ==
    ASSUME CInv, NEW q \in Reqs, NEW k \in Keys, PatchMap(q, k)
    PROVE  CInv'
<1> USE DEF CInv, PatchMap
<1>1. SlotTypeOK' /\ Writing'
  BY DEF SlotTypeOK, Writing, stored, slotHistory, Put
<1>2. \A p \in Reqs : p # q => NextKey(p)' = NextKey(p)
  BY DEF NextKey, SlotTypeOK
<1>3. Loading'
  BY DEF SlotTypeOK, stored, Loading
<1>4. Patching'
  BY <1>2 DEF SlotTypeOK, stored, Patching
<1>5. \A l \in Keys, p \in Reqs :
        p # q /\ phase[p] = "patch" /\ NextKey(p) = {l} /\ ~overwritten[p] => Uncached(l)'
  BY <1>2 DEF SlotTypeOK, Uncached
<1>6. \A l \in Keys : l # k /\ Uncached(l) => Uncached(l)'
  BY <1>5 DEF Uncached
<1>7. overwritten[q] /\ Uncached(k) => Uncached(k)'
  BY <1>5 DEF Uncached
<1>8. ~overwritten[q] => (k \in table <=> k \in req[q].want)
  BY DEF Patching
<1>9. ASSUME warm, NEW l \in Keys
      PROVE  (l \in cache' <=> l \in table) \/ l \in raced' \/ Uncached(l)'
  <2>1. CASE l # k
    BY <1>9, <2>1, <1>6 DEF CacheAgrees, Put
  <2>2. CASE l = k
    BY <1>9, <2>2, <1>7, <1>8 DEF Put
  <2> QED BY <2>1, <2>2
<1>10. CacheAgrees'
  BY <1>9 DEF stored, CacheAgrees
<1> QED BY <1>1, <1>3, <1>4, <1>10

LEMMA EndCaches ==
    ASSUME CInv, NEW q \in Reqs, FinishRequest(q) \/ WriteFails(q)
    PROVE  CInv'
<1> USE DEF CInv, FinishRequest, WriteFails, Ends
<1>1. SlotTypeOK' /\ Writing'
  <2>1. phase' \in [Reqs -> {"idle", "install", "write", "patch"}]
        /\ req' \in [Reqs -> Request] /\ left' \in [Reqs -> SUBSET Keys]
    BY IdleIsRequest DEF SlotTypeOK
  <2>2. cutShort' \subseteq {"toggle", "preset"} /\ last' \subseteq Plugins
    BY Requests DEF SlotTypeOK, Writing, Cut, Changing
  <2> QED BY <2>1, <2>2 DEF SlotTypeOK, Writing, stored, cached, races
<1>2. \A p \in Reqs : p # q => NextKey(p)' = NextKey(p) /\ phase'[p] = phase[p]
  BY DEF NextKey, SlotTypeOK
<1>3. phase[q] = "write" /\ phase'[q] = "idle"
  BY DEF SlotTypeOK
<1>4. Loading' /\ Patching'
  BY <1>2, <1>3 DEF SlotTypeOK, stored, races, Loading, Patching
<1>5. \A k \in Keys : Uncached(k) => Uncached(k)'
  BY <1>2, <1>3 DEF Uncached, races
<1>6. CacheAgrees'
  BY <1>5 DEF stored, cached, races, CacheAgrees
<1> QED BY <1>1, <1>4, <1>6

LEMMA RestartCaches ==
    ASSUME CInv, Restart
    PROVE  CInv'
<1> USE DEF CInv, Restart
<1>1. cutShort' \subseteq {"toggle", "preset"}
  BY Requests DEF SlotTypeOK, Writing, Cut, Changing
<1>2. SlotTypeOK'
  BY <1>1, IdleIsRequest DEF SlotTypeOK, stored
<1> QED BY <1>2 DEF Writing, Loading, Patching, CacheAgrees

LEMMA CacheInductive == CInv /\ [SlotNext]_slotVars => CInv'
<1> SUFFICES ASSUME CInv, [SlotNext]_slotVars PROVE CInv'
  OBVIOUS
<1>1. CASE UNCHANGED slotVars
  BY <1>1 DEF slotVars, stored, cached, request, races, slotHistory, CInv, SlotTypeOK, Writing,
     Loading, Patching, CacheAgrees, Uncached, NextKey
<1>2. CASE SlotNext
  BY <1>2, AskCaches, InstallCaches, WriteCaches, PatchCaches, EndCaches, RestartCaches
     DEF SlotNext
<1> QED BY <1>1, <1>2

LEMMA CacheInvariance == SlotSpec => []CInv
  BY CacheStarts, CacheInductive, PTL DEF SlotSpec

(* Types: every request that holds a row it has still to cache has that    *)
(* key in its list (SettingsService.SetSetting).                           *)
THEOREM SlotTypes == SlotSpec => []SlotTypeOK
  BY CacheInvariance, PTL DEF CInv

(* settings_service.go:18-22 is true but for keys that lost a race: however*)
(* loads, saves, failures and restarts come about, the cached map has the  *)
(* value of every other key whose last writer has cached it.               *)
THEOREM CacheIsTable == SlotSpec => []CacheAgrees
  BY CacheInvariance, PTL DEF CInv

-----------------------------------------------------------------------------
(* The slot's rule.                                                        *)

LEMMA FewPlugins ==
    ASSUME NEW E, E \subseteq Plugins
    PROVE  IsFiniteSet(E) /\ Cardinality(E) \in Nat
<1>1. IsFiniteSet(Plugins)
  BY SlotAssumption, FS_Interval DEF Plugins
<1>2. IsFiniteSet(E)
  BY <1>1, FS_Subset
<1> QED BY <1>2, FS_CardinalityType

LEMMA ObeysOne ==
    ASSUME NEW p
    PROVE  Obeys({p})
<1>1. Cardinality({p}) = 1
  BY FS_Singleton
<1> QED BY <1>1 DEF Obeys

LEMMA ObeysMany ==
    ASSUME NEW E, ~SingleClaim, RequiresOne => E # {}
    PROVE  Obeys(E)
  BY DEF Obeys

LEMMA ObeysOff ==
    ASSUME NEW E, E \subseteq Plugins, Obeys(E), NEW p, ~LockedOff(p, E)
    PROVE  Obeys(E \ {p})
<1>1. IsFiniteSet(E) /\ E \ {p} \subseteq E
  BY FewPlugins
<1>2. Cardinality(E \ {p}) <= Cardinality(E)
  BY <1>1, FS_Subset
<1>3. Cardinality(E \ {p}) \in Nat /\ Cardinality(E) \in Nat
  BY FewPlugins
<1>4. E \cap Plugins = E
  OBVIOUS
<1>5. RequiresOne => E \ {p} # {}
  BY <1>4 DEF Obeys, LockedOff
<1> QED BY <1>2, <1>3, <1>5 DEF Obeys

Less == {ss \in Nat \X Nat : ss[1] < ss[2]}

LEMMA LessWellFounded == IsWellFoundedOn(Less, Nat)
  BY NatLessThanWellFounded DEF OpToRel, Less

(* The candidate that comes first in the registry.                         *)
LEMMA FirstIsOne ==
    ASSUME NEW E, E \subseteq Plugins, E # {}
    PROVE  \E p \in E : First(E) = {p}
<1>1. E \subseteq Nat
  BY SlotAssumption DEF Plugins
<1>2. PICK p \in E : \A e \in E : <<e, p>> \notin Less
  BY <1>1, LessWellFounded, WFMin
<1>3. ASSUME NEW e \in E PROVE p <= e
  <2>1. p \in Nat /\ e \in Nat /\ <<e, p>> \notin Less
    BY <1>1, <1>2
  <2>2. ~(e < p)
    BY <2>1 DEF Less
  <2> QED BY <2>1, <2>2
<1>4. \A e \in First(E) : e = p
  BY <1>1, <1>3 DEF First
<1>5. p \in First(E)
  BY <1>3 DEF First
<1> QED BY <1>4, <1>5

(* registry.go:297-342: what NormalizeSlots makes of a preset's list obeys *)
(* the slot's rule, whatever the list.                                     *)
LEMMA NormalObeys ==
    ASSUME NEW E \in SUBSET Plugins
    PROVE  Obeys(NormalizeSlots(E))
<1>1. CASE SingleClaim /\ E # {}
  BY <1>1, FirstIsOne, ObeysOne DEF NormalizeSlots
<1>2. CASE ~(SingleClaim /\ E # {}) /\ RequiresOne /\ E = {}
  BY <1>2, ObeysOne DEF NormalizeSlots
<1>3. CASE ~(SingleClaim /\ E # {}) /\ ~(RequiresOne /\ E = {})
  BY <1>3, FS_EmptySet DEF NormalizeSlots, Obeys
<1> QED BY <1>1, <1>2, <1>3

-----------------------------------------------------------------------------
(* Decisions.                                                              *)

Rests(q) ==
    /\ phase' = [phase EXCEPT ![q] = "idle"]
    /\ req' = [req EXCEPT ![q] = Idle]
    /\ UNCHANGED <<left, slotHistory>>

Begins(q, n, W) ==
    /\ phase' = [phase EXCEPT ![q] = "write"]
    /\ req' = [req EXCEPT ![q] = n]
    /\ left' = [left EXCEPT ![q] = W]
    /\ cutShort' = IF overlapped' THEN {} ELSE cutShort
    /\ last' = last

(* A request ends, saves, or begins to change plugins.                     *)
Saves(q, r) ==
    /\ r.kind = "save" /\ Begins(q, r, {0})
    /\ overlapped' = overlapped /\ alone' = alone

Changes(q, r, n, S) ==
    /\ n \in Request /\ n.kind = r.kind /\ Begins(q, n, Writes(r, S))
    /\ overlapped' = (overlapped \/ Changing # {})
    /\ \/ r.kind = "toggle" /\ n = r /\ ~Refused(r, S) /\ alone' = {}
       \/ /\ r.kind = "preset" /\ n.want = NormalizeSlots(r.want)
          /\ alone' = IF Changing = {} THEN {q} ELSE {}

LEMMA DecideCases ==
    ASSUME SlotTypeOK, NEW q \in Reqs, NEW r \in Request, NEW S, Decide(q, r, S)
    PROVE  Rests(q) \/ Saves(q, r) \/ \E n \in Request : Changes(q, r, n, S)
<1>1. CASE r.kind = "look" \/ Refused(r, S)
  BY <1>1 DEF Decide, Rests
<1>2. CASE r.kind = "save"
  BY <1>2 DEF Decide, Refused, Saves, Begins, Writes, SlotTypeOK
<1>3. CASE r.kind = "toggle" /\ ~Refused(r, S)
  <2>1. Changes(q, r, r, S)
    BY <1>3 DEF Decide, Changes, Begins, SlotTypeOK
  <2> QED BY <2>1
<1>4. CASE r.kind = "preset" /\ ~Refused(r, S)
  <2> DEFINE n == [r EXCEPT !.want = NormalizeSlots(@)]
  <2>1. n \in Request /\ n.kind = r.kind /\ n.want = NormalizeSlots(r.want)
    BY <1>4, Requests, NormalPlugins DEF Request
  <2>2. Changes(q, r, n, S)
    BY <1>4, <2>1 DEF Decide, Changes, Begins, SlotTypeOK
  <2> QED BY <2>1, <2>2
<1> QED BY <1>1, <1>2, <1>3, <1>4, Requests

LEMMA RestsChanging ==
    ASSUME SlotTypeOK, NEW q \in Reqs, phase[q] \notin {"write", "patch"}, Rests(q)
    PROVE  Changing' = Changing /\ q \notin Changing
  BY DEF SlotTypeOK, Rests, Changing

LEMMA BeginsChanging ==
    ASSUME SlotTypeOK, NEW q \in Reqs, phase[q] \notin {"write", "patch"},
           NEW n, NEW W, Begins(q, n, W)
    PROVE  /\ Changing' = IF n.kind = "save" THEN Changing ELSE Changing \cup {q}
           /\ q \notin Changing
  BY DEF SlotTypeOK, Begins, Changing

-----------------------------------------------------------------------------
(* Who may write, and which keys may have lost a race.                     *)

LEMMA OrderStarts == SlotInit => Order
  BY DEF SlotInit, Order, Asking, OneAtATime, Races, Changing, Idle

(* The race of a plugin's key is lost, if at all, before the decision.     *)
LEMMA DecideOrders ==
    ASSUME CInv, Order, NEW q \in Reqs, phase[q] \notin {"write", "patch"},
           NEW r \in Request, r.kind = "toggle" => r.want \subseteq {r.first},
           NEW S, Decide(q, r, S), UNCHANGED overwritten
    PROVE  /\ Asking' /\ OneAtATime'
           /\ overlapped => overlapped'
           /\ \A c \in alone' : c \in alone \/ left'[c] = Plugins
           /\ \A c \in alone : c # q
           /\ r.kind = "save" => Changing' = Changing
<1> USE DEF CInv, Order
<1>1. CASE Rests(q)
  <2>1. Changing' = Changing /\ q \notin Changing
    BY <1>1, RestsChanging
  <2>2. Asking'
    BY <1>1, IdleIsRequest DEF Rests, SlotTypeOK, Asking
  <2>3. OneAtATime'
    BY <1>1, <2>1 DEF Rests, SlotTypeOK, slotHistory, OneAtATime, Changing
  <2> QED BY <1>1, <2>1, <2>2, <2>3 DEF Rests, slotHistory, OneAtATime
<1>2. CASE Saves(q, r)
  <2>1. Changing' = Changing /\ q \notin Changing
    BY <1>2, BeginsChanging DEF Saves
  <2>2. Asking'
    BY <1>2 DEF Saves, Begins, SlotTypeOK, Asking
  <2>3. OneAtATime'
    BY <1>2, <2>1 DEF Saves, Begins, SlotTypeOK, OneAtATime, Changing
  <2> QED BY <1>2, <2>1, <2>2, <2>3 DEF Saves, OneAtATime
<1>3. ASSUME NEW n \in Request, Changes(q, r, n, S)
      PROVE  /\ Asking' /\ OneAtATime'
             /\ overlapped => overlapped'
             /\ \A c \in alone' : c \in alone \/ left'[c] = Plugins
             /\ \A c \in alone : c # q
             /\ r.kind = "save" => Changing' = Changing
  <2>1. Changing' = Changing \cup {q} /\ q \notin Changing
    BY <1>3, BeginsChanging DEF Changes
  <2>2. Writes(r, S) \subseteq Plugins
    BY <1>3, WrittenKeys DEF Changes
  <2>3. r.kind = "preset" => Writes(r, S) = Plugins
    BY DEF Writes
  <2>4. Asking'
    BY <1>3, <2>2 DEF Changes, Begins, SlotTypeOK, Asking
  <2>5. ~overwritten[q]
    BY DEF Asking
  <2>6. OneAtATime'
    <3>1. /\ req'[q].kind = r.kind /\ ~overwritten'[q]
          /\ overlapped' = (overlapped \/ Changing # {})
          /\ cutShort' = IF overlapped' THEN {} ELSE cutShort
      BY <1>3, <2>5 DEF Changes, Begins, SlotTypeOK
    <3>2. alone' = IF r.kind = "preset" /\ Changing = {} THEN {q} ELSE {}
      BY <1>3 DEF Changes
    <3>3. CASE Changing = {}
      <4>1. Changing' = {q}
        BY <2>1, <3>3
      <4> QED BY <3>1, <3>2, <4>1 DEF OneAtATime
    <3>4. CASE Changing # {}
      BY <3>1, <3>2, <3>4 DEF OneAtATime
    <3> QED BY <3>3, <3>4
  <2> QED BY <1>3, <2>1, <2>3, <2>4, <2>6 DEF Changes, Begins, SlotTypeOK, OneAtATime
<1> QED BY <1>1, <1>2, <1>3, DecideCases

LEMMA AskOrders ==
    ASSUME CInv, Order, NEW q \in Reqs, NEW r \in Request, Asked(r), Ask(q, r)
    PROVE  Order'
<1> USE DEF CInv, Order
<1>1. CASE r.kind = "save" \/ warm
  <2>1. /\ phase[q] = "idle" /\ Decide(q, r, cache)
        /\ UNCHANGED <<seen, stale, stored, cached, overwritten, raced>>
    BY <1>1 DEF Ask
  <2>2. r.kind = "toggle" => r.want \subseteq {r.first}
    BY DEF Asked
  <2>3. /\ Asking' /\ OneAtATime'
        /\ overlapped => overlapped'
        /\ \A c \in alone' : c \in alone \/ left'[c] = Plugins
        /\ \A c \in alone : c # q
        /\ r.kind = "save" => Changing' = Changing
    BY <2>1, <2>2, DecideOrders
  <2>4. \A c \in alone : left'[c] = left[c]
    BY <2>1, <2>3, Decided DEF SlotTypeOK
  <2>5. \A c \in Reqs : phase'[c] = "install" => phase[c] = "install"
    BY <2>1, Decided
  <2>6. Races'
    BY <1>1, <2>1, <2>3, <2>4, <2>5 DEF cached, Races
  <2> QED BY <2>3, <2>6
<1>2. CASE ~(r.kind = "save" \/ warm)
  <2>1. /\ phase[q] = "idle"
        /\ phase' = [phase EXCEPT ![q] = "install"] /\ req' = [req EXCEPT ![q] = r]
        /\ seen' = [seen EXCEPT ![q] = table] /\ stale' = [stale EXCEPT ![q] = {}]
        /\ UNCHANGED <<left, slotHistory, stored, cached, overwritten, raced>>
    BY <1>2 DEF Ask
  <2>2. Changing' = Changing /\ q \notin Changing
    BY <2>1 DEF SlotTypeOK, Changing
  <2>3. Asking'
    <3>1. r.kind = "toggle" => r.want \subseteq {r.first}
      BY DEF Asked
    <3>2. ~overwritten[q]
      BY <2>1 DEF Asking
    <3> QED BY <1>2, <2>1, <3>1, <3>2 DEF SlotTypeOK, Asking
  <2>4. OneAtATime'
    BY <2>1, <2>2 DEF SlotTypeOK, slotHistory, OneAtATime
  <2>5. Races'
    BY <2>1, <2>2 DEF SlotTypeOK, slotHistory, cached, Races
  <2> QED BY <2>3, <2>4, <2>5
<1> QED BY <1>1, <1>2

LEMMA InstallOrders ==
    ASSUME CInv, Order, NEW q \in Reqs, Install(q)
    PROVE  Order'
<1> USE DEF CInv, Order
<1>1. /\ phase[q] = "install" /\ req[q] \in Request /\ Decide(q, req[q], cache')
      /\ warm' = TRUE /\ raced' = (IF warm THEN raced ELSE {k \in stale[q] : ~Uncached(k)})
      /\ UNCHANGED <<stored, overwritten>>
  BY DEF Install, SlotTypeOK
<1>2. req[q].kind = "toggle" => req[q].want \subseteq {req[q].first}
  BY DEF Asking
<1>3. /\ Asking' /\ OneAtATime'
      /\ overlapped => overlapped'
      /\ \A c \in alone' : c \in alone \/ left'[c] = Plugins
      /\ \A c \in alone : c # q
  BY <1>1, <1>2, DecideOrders
<1>4. \A c \in alone : left'[c] = left[c]
  BY <1>1, <1>3, Decided DEF SlotTypeOK
<1>5. raced' \cap Plugins \subseteq raced
  BY <1>1, PluginsAreKeys DEF Races
<1>6. Races'
  BY <1>1, <1>3, <1>4, <1>5 DEF Races
<1> QED BY <1>3, <1>6

(* Whoever writes one of the plugins' keys is changing plugins.            *)
LEMMA KeyOfWriter ==
    ASSUME SlotTypeOK, Asking, NEW q \in Reqs, phase[q] \in {"write", "patch"},
           NEW k, NextKey(q) = {k}
    PROVE  /\ k \in left[q]
           /\ q \in Changing => k \in Plugins
           /\ q \notin Changing => k = 0 /\ k \notin Plugins
<1>1. k \in left[q]
  BY NextIsLeft
<1> QED BY <1>1, PluginsAreKeys DEF Asking, Changing

LEMMA WriteOrders ==
    ASSUME CInv, Order, NEW q \in Reqs, NEW k \in Keys, WriteRow(q, k)
    PROVE  Order'
<1> USE DEF CInv, Order, WriteRow
<1>1. Changing' = Changing
  BY DEF SlotTypeOK, Changing
<1>2. Asking'
  BY DEF SlotTypeOK, Asking
<1>3. ASSUME NEW c \in Changing, \A d \in Changing : d = c, ~overwritten[c]
      PROVE  ~overwritten'[c]
  <2>1. CASE c = q
    BY <2>1, <1>3 DEF SlotTypeOK, Changing
  <2>2. CASE c # q
    <3>1. q \notin Changing /\ c \in Reqs
      BY <2>2, <1>3 DEF Changing
    <3>2. phase[c] = "patch" => NextKey(c) # {k}
      BY <1>3, <3>1, KeyOfWriter
    <3> QED BY <1>3, <2>2, <3>1, <3>2 DEF SlotTypeOK
  <2> QED BY <2>1, <2>2
<1>4. OneAtATime'
  BY <1>1, <1>3 DEF slotHistory, OneAtATime
<1>5. q \in Changing \/ k = 0
  BY KeyOfWriter
<1>6. Races'
  BY <1>1, <1>5 DEF SlotTypeOK, slotHistory, cached, Races
<1> QED BY <1>2, <1>4, <1>6

LEMMA PatchOrders ==
    ASSUME CInv, Order, NEW q \in Reqs, NEW k \in Keys, PatchMap(q, k)
    PROVE  Order'
<1> USE DEF CInv, Order, PatchMap
<1>1. Changing' = Changing
  BY DEF SlotTypeOK, Changing
<1>2. Asking'
  BY DEF SlotTypeOK, Asking
<1>3. OneAtATime'
  BY <1>1 DEF SlotTypeOK, slotHistory, OneAtATime, Changing
<1>4. /\ q \in Changing => k \in Plugins
      /\ q \notin Changing => k \notin Plugins
  BY KeyOfWriter
<1>5. /\ ~overwritten[q] => raced' \subseteq raced
      /\ q \notin Changing => raced' \cap Plugins \subseteq raced
  BY <1>4
<1>6. ~overlapped => raced' \cap Plugins = {}
  BY <1>5 DEF OneAtATime, Races
<1>7. ASSUME NEW c \in alone
      PROVE  raced' \cap Plugins \subseteq left'[c]
  <2>1. Changing = {c} /\ ~overwritten[c] /\ c \in Reqs
    BY <1>7 DEF OneAtATime, SlotTypeOK
  <2>2. warm
    BY <2>1 DEF Races
  <2>3. CASE c = q
    BY <1>7, <2>1, <2>2, <2>3 DEF Races, SlotTypeOK
  <2>4. CASE c # q
    BY <1>5, <1>7, <2>1, <2>4 DEF Races, SlotTypeOK
  <2> QED BY <2>3, <2>4
<1>8. Races'
  BY <1>1, <1>6, <1>7 DEF SlotTypeOK, slotHistory, Races
<1> QED BY <1>2, <1>3, <1>8

LEMMA EndOrders ==
    ASSUME CInv, Order, NEW q \in Reqs, FinishRequest(q) \/ WriteFails(q)
    PROVE  Order'
<1> USE DEF CInv, Order
<1>1. phase[q] = "write" /\ Ends(q) /\ UNCHANGED <<table, cached, seen, races>>
  BY DEF FinishRequest, WriteFails, stored
<1>2. Changing' = Changing \ {q}
  BY <1>1 DEF Ends, SlotTypeOK, Changing
<1>3. Asking'
  BY <1>1, IdleIsRequest DEF Ends, SlotTypeOK, Asking, races
<1>4. CASE FinishRequest(q)
  <2> USE <1>4 DEF FinishRequest
  <2>1. OneAtATime'
    BY <1>1, <1>2 DEF Ends, SlotTypeOK, races, OneAtATime, Changing
  <2>2. Races'
    BY <1>1, <1>2 DEF Ends, SlotTypeOK, cached, races, OneAtATime, Races
  <2> QED BY <1>3, <2>1, <2>2
<1>5. CASE WriteFails(q)
  <2> USE <1>5 DEF WriteFails
  <2>1. OneAtATime'
    BY <1>1, <1>2 DEF Ends, SlotTypeOK, races, OneAtATime, Changing, Cut
  <2>2. Races'
    BY <1>1, <1>2 DEF Ends, SlotTypeOK, cached, races, OneAtATime, Races
  <2> QED BY <1>3, <2>1, <2>2
<1> QED BY <1>4, <1>5

LEMMA RestartOrders ==
    ASSUME CInv, Order, Restart
    PROVE  Order'
<1> USE DEF CInv, Order, Restart
<1>1. Changing' = {}
  BY DEF Changing
<1>2. Asking'
  BY IdleIsRequest DEF Asking
<1>3. OneAtATime' /\ Races'
  BY <1>1 DEF OneAtATime, Races, Cut
<1> QED BY <1>2, <1>3

-----------------------------------------------------------------------------
(* How far the change under way has come.                                  *)

LEMMA DeedsStart == SlotInit => Deeds
<1> SUFFICES ASSUME SlotInit PROVE Deeds
  OBVIOUS
<1>1. table \subseteq Plugins /\ Obeys(table)
  BY DEF SlotInit
<1>2. Enabled = table
  BY <1>1 DEF Enabled
<1>3. Changing = {}
  BY DEF SlotInit, Changing
<1> QED BY <1>1, <1>2, <1>3 DEF SlotInit, Deeds, Settled, Inhabited, Obeys

(* With nobody else changing plugins, the cached plugins are the table's.  *)
LEMMA CacheIsEnabled ==
    ASSUME CInv, Order, warm, ~overlapped, Changing = {}
    PROVE  cache \cap Plugins = Enabled
<1> SUFFICES ASSUME NEW k \in Plugins PROVE k \in cache <=> k \in table
  BY DEF Enabled
<1>1. k \in Keys /\ k \notin raced
  BY PluginsAreKeys DEF Order, Races
<1>2. ~Uncached(k)
  <2> SUFFICES ASSUME NEW q \in Reqs, phase[q] = "patch", NextKey(q) = {k} PROVE FALSE
    BY DEF Uncached
  <2> QED BY KeyOfWriter DEF CInv, Order
<1> QED BY <1>1, <1>2 DEF CInv, CacheAgrees

LEMMA SamePeers ==
    ASSUME NEW S, NEW T, S \cap Plugins = T \cap Plugins, NEW p
    PROVE  /\ EnabledPeers(p, S) = EnabledPeers(p, T)
           /\ LockedOff(p, S) <=> LockedOff(p, T)
  BY DEF EnabledPeers, LockedOff

(* Nothing of a request that only begins is written.                       *)
LEMMA BeginsUntouched ==
    ASSUME SlotTypeOK, NEW q \in Reqs, NEW r \in Request, NEW n \in Request, NEW S,
           Changes(q, r, n, S)
    PROVE  Untouched(q)'
<1>1. phase'[q] = "write" /\ req'[q] = n /\ left'[q] = Writes(r, S)
  BY DEF Changes, Begins, SlotTypeOK
<1>2. CASE r.kind = "toggle"
  BY <1>1, <1>2 DEF Changes, Untouched, Writes
<1>3. CASE r.kind = "preset"
  BY <1>1, <1>3 DEF Changes, Untouched, Writes
<1> QED BY <1>2, <1>3 DEF Changes

(* What is said of request c, while it stands still and so does the table. *)
StandsStill(c) ==
    /\ phase'[c] = phase[c] /\ req'[c] = req[c] /\ left'[c] = left[c]
    /\ Enabled' = Enabled /\ UNCHANGED cutShort

LEMMA StillSo ==
    ASSUME NEW c \in Reqs, StandsStill(c)
    PROVE  /\ Untouched(c)' <=> Untouched(c)
           /\ PresetDone(c)' <=> PresetDone(c)
           /\ \A p : ToggleBegins(c, p)' <=> ToggleBegins(c, p)
           /\ \A p : p \in Plugins => (ToggleGoesOn(c, p)' <=> ToggleGoesOn(c, p))
<1> USE DEF StandsStill
<1>1. NextKey(c)' = NextKey(c) /\ Unwritten(c)' = Unwritten(c)
  BY DEF NextKey, Unwritten
<1>2. Untouched(c)' <=> Untouched(c)
  BY DEF Untouched
<1>3. \A k \in Plugins : k \in table' <=> k \in table
  BY DEF Enabled
<1>4. PresetDone(c)' <=> PresetDone(c)
  BY <1>1, <1>3 DEF PresetDone
<1>5. \A p : ToggleBegins(c, p)' <=> ToggleBegins(c, p)
  BY SamePeers DEF ToggleBegins, Enabled
<1>6. \A p : p \in Plugins => (ToggleGoesOn(c, p)' <=> ToggleGoesOn(c, p))
  BY <1>1, <1>3 DEF ToggleGoesOn
<1> QED BY <1>2, <1>4, <1>5, <1>6

LEMMA TogglesKey ==
    ASSUME CInv, NEW c \in Changing
    PROVE  /\ c \in Reqs /\ req[c].kind \in {"toggle", "preset"} /\ req[c].want \subseteq Plugins
           /\ req[c].kind = "toggle" => req[c].first \in Plugins
<1>1. c \in Reqs /\ req[c] \in Request /\ req[c].kind \notin {"look", "save"}
  BY DEF Changing, CInv, SlotTypeOK, Writing
<1> QED BY <1>1, Requests

(* While every change of plugins stands still, nothing is to be shown.     *)
LEMMA DeedsStill ==
    ASSUME CInv, Order, Deeds, Changing' = Changing, \A c \in Changing : StandsStill(c),
           Enabled' = Enabled, UNCHANGED <<label, overlapped, cutShort, alone, last>>
    PROVE  Deeds'
<1>1. \A c \in alone : c \in Changing
  BY DEF Order, OneAtATime
<1>2. \A c \in Changing :
        /\ Untouched(c)' <=> Untouched(c)
        /\ PresetDone(c)' <=> PresetDone(c)
        /\ req'[c] = req[c]
        /\ req[c].kind = "toggle" =>
            /\ ToggleBegins(c, req[c].first)' <=> ToggleBegins(c, req[c].first)
            /\ ToggleGoesOn(c, req[c].first)' <=> ToggleGoesOn(c, req[c].first)
  <2> TAKE c \in Changing
  <2>1. c \in Reqs /\ StandsStill(c) /\ (req[c].kind = "toggle" => req[c].first \in Plugins)
    BY TogglesKey
  <2>2. req'[c] = req[c]
    BY <2>1 DEF StandsStill
  <2> QED BY <2>1, <2>2, StillSo
<1>3. \A c \in alone' : PresetDone(c)'
  BY <1>1, <1>2 DEF Deeds
<1>4. ~overlapped' => \A c \in Changing' : req'[c].kind = "toggle" =>
        IF Untouched(c)' THEN ToggleBegins(c, req[c].first)' ELSE ToggleGoesOn(c, req[c].first)'
  BY <1>2 DEF Deeds
<1>5. Settled'
  BY <1>2 DEF Deeds, Settled
<1>6. Inhabited'
  BY <1>2 DEF Deeds, Inhabited
<1> QED BY <1>2, <1>3, <1>4, <1>5, <1>6 DEF Deeds

(* A decision that nothing overlaps is taken on the table as it is.        *)
LEMMA DecideDeeds ==
    ASSUME CInv, Order, Deeds, NEW q \in Reqs, phase[q] \notin {"write", "patch"},
           NEW r \in Request, r.kind = "toggle" => r.want \subseteq {r.first},
           NEW S,
           r.kind # "save" /\ ~overlapped /\ Changing = {} => S \cap Plugins = Enabled,
           Decide(q, r, S), UNCHANGED <<table, label>>
    PROVE  Deeds'
<1>0. SlotTypeOK /\ Enabled' = Enabled
  BY DEF CInv, Enabled
<1>1. ASSUME Changing' = Changing, UNCHANGED <<overlapped, alone, cutShort, last>>,
             q \notin Changing
      PROVE  Deeds'
  <2>1. \A c \in Changing : StandsStill(c)
    BY <1>0, <1>1, Decided DEF StandsStill, Changing
  <2> QED BY <1>0, <1>1, <2>1, DeedsStill
<1>2. CASE Rests(q)
  BY <1>0, <1>1, <1>2, RestsChanging DEF Rests, slotHistory
<1>3. CASE Saves(q, r)
  <2>1. cutShort' = cutShort
    BY <1>3 DEF Saves, Begins, Order, OneAtATime
  <2>2. Changing' = Changing /\ q \notin Changing
    BY <1>0, <1>3, BeginsChanging DEF Saves
  <2> QED BY <1>1, <1>3, <2>1, <2>2 DEF Saves, Begins
<1>4. ASSUME NEW n \in Request, Changes(q, r, n, S)
      PROVE  Deeds'
  <2>1. Changing' = Changing \cup {q} /\ q \notin Changing
    BY <1>0, <1>4, BeginsChanging DEF Changes
  <2>2. Untouched(q)'
    BY <1>0, <1>4, BeginsUntouched
  <2>3. /\ phase'[q] = "write" /\ req'[q] = n /\ left'[q] = Writes(r, S)
        /\ overlapped' = (overlapped \/ Changing # {})
        /\ cutShort' = (IF overlapped' THEN {} ELSE cutShort) /\ last' = last
    BY <1>0, <1>4 DEF Changes, Begins, SlotTypeOK
  <2>4. CASE Changing = {}
    <3>1. Changing' = {q}
      BY <2>1, <2>4
    <3>2. ASSUME r.kind = "preset"
          PROVE  PresetDone(q)'
      <4>1. left'[q] = Plugins /\ Unwritten(q)' = Plugins
        BY <2>3, <3>2 DEF Writes, Unwritten
      <4>2. Obeys(req'[q].want)
        BY <1>4, <2>3, <3>2, NormalObeys, Requests DEF Changes
      <4> QED BY <4>1, <4>2 DEF PresetDone
    <3>3. \A c \in alone' : c = q /\ r.kind = "preset"
      BY <1>4, <2>4 DEF Changes
    <3>4. ASSUME ~overlapped', r.kind = "toggle"
          PROVE  ToggleBegins(q, n.first)'
      <4>1. n = r /\ ~Refused(r, S)
        BY <1>4, <3>4 DEF Changes
      <4>2. S \cap Plugins = table \cap Plugins
        BY <2>3, <2>4, <3>4 DEF Enabled
      <4>3. /\ EnabledPeers(r.first, S) = EnabledPeers(r.first, table')
            /\ LockedOff(r.first, S) <=> LockedOff(r.first, table')
        BY <4>2, SamePeers
      <4>4. left'[q] = r.want \cup {r.first} \cup
                (IF r.want # {} THEN EnabledPeers(r.first, S) ELSE {})
        BY <2>3, <3>4 DEF Writes
      <4>5. req'[q].want = r.want /\ (r.want # {} => r.want = {r.first})
        BY <2>3, <3>4, <4>1
      <4>6. CASE r.want # {}
        BY <4>3, <4>4, <4>5, <4>6, <4>1 DEF ToggleBegins
      <4>7. CASE r.want = {}
        BY <4>1, <4>3, <4>4, <4>5, <4>7, <3>4 DEF ToggleBegins, Refused
      <4> QED BY <4>6, <4>7
    <3>5. Settled'
      BY <1>0, <2>3, <2>4 DEF Deeds, Settled
    <3>6. Inhabited'
      BY <1>0, <2>3, <2>4 DEF Deeds, Inhabited
    <3>7. ~overlapped' => \A c \in Changing' : req'[c].kind = "toggle" =>
            IF Untouched(c)' THEN ToggleBegins(c, req[c].first)'
                             ELSE ToggleGoesOn(c, req[c].first)'
      BY <1>4, <2>2, <2>3, <3>1, <3>4 DEF Changes
    <3> QED BY <3>2, <3>3, <3>5, <3>6, <3>7 DEF Deeds
  <2>5. CASE Changing # {}
    <3>1. alone' = {} /\ overlapped'
      BY <1>4, <2>3, <2>5 DEF Changes
    <3> QED BY <3>1 DEF Deeds, Settled, Inhabited
  <2> QED BY <2>4, <2>5
<1> QED BY <1>0, <1>2, <1>3, <1>4, DecideCases

LEMMA AskDeeds ==
    ASSUME CInv, Order, Deeds, NEW q \in Reqs, NEW r \in Request, Asked(r), Ask(q, r)
    PROVE  Deeds'
<1>1. r.kind = "toggle" => r.want \subseteq {r.first}
  BY DEF Asked
<1>2. CASE r.kind = "save"
  <2>1. phase[q] = "idle" /\ Decide(q, r, cache) /\ UNCHANGED <<table, label>>
    BY <1>2 DEF Ask, stored
  <2> QED BY <1>1, <1>2, <2>1, DecideDeeds
<1>3. CASE r.kind # "save" /\ warm
  <2>1. phase[q] = "idle" /\ Decide(q, r, cache) /\ UNCHANGED <<table, label>>
    BY <1>3 DEF Ask, stored
  <2>2. ~overlapped /\ Changing = {} => cache \cap Plugins = Enabled
    BY <1>3, CacheIsEnabled
  <2> QED BY <1>1, <2>1, <2>2, DecideDeeds
<1>4. CASE r.kind # "save" /\ ~warm
  <2>1. /\ phase[q] = "idle"
        /\ phase' = [phase EXCEPT ![q] = "install"] /\ req' = [req EXCEPT ![q] = r]
        /\ UNCHANGED <<left, slotHistory, stored>>
    BY <1>4 DEF Ask
  <2>2. Changing' = Changing /\ q \notin Changing
    BY <2>1 DEF CInv, SlotTypeOK, Changing
  <2>3. \A c \in Changing : StandsStill(c)
    BY <2>1, <2>2 DEF CInv, SlotTypeOK, StandsStill, Changing, stored, slotHistory, Enabled
  <2>4. Enabled' = Enabled /\ UNCHANGED <<label, overlapped, cutShort, alone, last>>
    BY <2>1 DEF stored, slotHistory, Enabled
  <2> QED BY <2>2, <2>3, <2>4, DeedsStill
<1> QED BY <1>2, <1>3, <1>4

LEMMA InstallDeeds ==
    ASSUME CInv, Order, Deeds, NEW q \in Reqs, Install(q)
    PROVE  Deeds'
<1>1. /\ phase[q] = "install" /\ req[q] \in Request /\ Decide(q, req[q], cache')
      /\ cache' = (IF warm THEN cache ELSE seen[q]) /\ UNCHANGED <<table, label>>
  BY DEF Install, CInv, SlotTypeOK, stored
<1>2. req[q].kind = "toggle" => req[q].want \subseteq {req[q].first}
  BY DEF Order, Asking
<1>3. CASE warm
  <2>1. ~overlapped /\ Changing = {} => cache' \cap Plugins = Enabled
    BY <1>1, <1>3, CacheIsEnabled
  <2> QED BY <1>1, <1>2, <2>1, DecideDeeds
<1>4. CASE ~warm
  <2>1. stale[q] \subseteq {0}
    BY <1>1, <1>4 DEF Order, Races
  <2>2. \A k \in Plugins : k \in seen[q] <=> k \in table
    BY <1>1, <2>1, PluginsAreKeys DEF CInv, Loading
  <2>3. cache' \cap Plugins = Enabled
    BY <1>1, <1>4, <2>2 DEF Enabled
  <2> QED BY <1>1, <1>2, <2>3, DecideDeeds
<1> QED BY <1>3, <1>4

(* A save writes no plugin's key.                                          *)
LEMMA WriteDeeds ==
    ASSUME CInv, Order, Deeds, NEW q \in Reqs, NEW k \in Keys, WriteRow(q, k)
    PROVE  Deeds'
<1> USE DEF WriteRow
<1>1. /\ SlotTypeOK /\ phase[q] = "write" /\ NextKey(q) = {k} /\ k \in left[q]
      /\ table' = Put(table, k, k \in req[q].want)
      /\ phase' = [phase EXCEPT ![q] = "patch"]
      /\ UNCHANGED <<label, req, left, overlapped, cutShort, alone, last>>
  BY NextIsLeft DEF CInv, slotHistory
<1>2. Changing' = Changing
  BY <1>1 DEF SlotTypeOK, Changing
<1>3. CASE q \notin Changing
  <2>1. k \notin Plugins
    BY <1>1, <1>3, KeyOfWriter DEF Order
  <2>2. Enabled' = Enabled
    BY <1>1, <2>1 DEF Enabled, Put
  <2>3. \A c \in Changing : StandsStill(c)
    BY <1>1, <1>3, <2>2 DEF SlotTypeOK, StandsStill, Changing
  <2> QED BY <1>1, <1>2, <2>2, <2>3, DeedsStill
<1>4. CASE q \in Changing
  <2>1. k \in Plugins /\ left[q] \subseteq Plugins
    BY <1>1, <1>4, KeyOfWriter DEF Order, Asking, Changing
  <2>2. phase'[q] = "patch" /\ NextKey(q)' = {k} /\ Unwritten(q)' = left[q] \ {k}
    BY <1>1 DEF SlotTypeOK, NextKey, Unwritten
  <2>3. ~Untouched(q)' /\ q \in Changing'
    BY <1>2, <1>4, <2>2 DEF Untouched
  <2>4. Settled'
    BY <2>3 DEF Settled
  <2>5. \A c \in alone' : c = q
    BY <1>1, <1>4 DEF Order, OneAtATime
  <2>6. CASE req[q].kind = "preset"
    <3>1. ASSUME q \in alone PROVE PresetDone(q)'
      <4>1. PresetDone(q) /\ Unwritten(q) = left[q]
        BY <1>1, <3>1 DEF Deeds, Unwritten
      <4>2. \A l \in Plugins \ Unwritten(q)' : l \in table' <=> l \in req[q].want
        BY <1>1, <2>2, <4>1 DEF PresetDone, Put
      <4> QED BY <1>1, <4>1, <4>2 DEF PresetDone
    <3>2. Inhabited'
      BY <1>1, <2>3, <2>6 DEF Inhabited
    <3>3. ~overlapped => Changing = {q}
      BY <1>4 DEF Order, OneAtATime
    <3>4. ~overlapped' => \A c \in Changing' : req'[c].kind # "toggle"
      BY <1>1, <1>2, <2>6, <3>3
    <3> QED BY <1>1, <2>4, <2>5, <3>1, <3>2, <3>4 DEF Deeds
  <2>7. CASE req[q].kind = "toggle"
    <3>1. PICK p \in Plugins : p = req[q].first /\ req[q].want \subseteq {p}
      BY <1>4, <2>7, TogglesKey DEF Order, Asking, Changing
    <3>2. q \notin alone /\ alone' = {}
      BY <1>1, <1>4, <2>7 DEF Order, OneAtATime
    <3>3. CASE overlapped
      BY <1>1, <3>2, <3>3 DEF Deeds, Settled, Inhabited
    <3>4. CASE ~overlapped
      <4>1. Changing = {q}
        BY <1>4, <3>4 DEF Order, OneAtATime
      <4>2. IF Untouched(q) THEN ToggleBegins(q, p) ELSE ToggleGoesOn(q, p)
        BY <1>4, <2>7, <3>1, <3>4 DEF Deeds
      <4>3. Untouched(q) <=> p \in left[q]
        BY <1>1, <2>7, <3>1 DEF Untouched
      <4>4. Unwritten(q) = left[q] /\ (p \in left[q] => k = p)
        BY <1>1, <3>1 DEF Unwritten, NextKey
      <4>5. Inhabited /\ Settled
        BY DEF Deeds
      <4>6. Enabled' = IF k \in req[q].want THEN Enabled \cup {k} ELSE Enabled \ {k}
        BY <1>1, <2>1 DEF Enabled, Put
      <4>10. RequiresOne /\ "preset" \notin cutShort => Enabled # {}
        BY <2>7, <3>4, <4>1, <4>5 DEF Inhabited
      <4>11. ~(p \notin left[q] /\ req[q].want = {})
        BY <1>1, <4>2, <4>3, <4>4 DEF ToggleGoesOn
      <4>12. /\ ToggleGoesOn(q, p)'
             /\ RequiresOne /\ "preset" \notin cutShort => Enabled' # {}
        <5>7. CASE p \in left[q] /\ req[q].want # {}
          <6>1. k = p /\ p \in req[q].want /\ left[q] = {p} \cup EnabledPeers(p, table)
            BY <3>1, <4>2, <4>3, <4>4, <5>7 DEF ToggleBegins
          <6>2. Enabled' = Enabled \cup {p} /\ p \in table'
            BY <1>1, <4>6, <6>1 DEF Put
          <6>3. Unwritten(q)' = EnabledPeers(p, table)
            BY <2>2, <6>1 DEF EnabledPeers
          <6>4. SingleClaim => EnabledPeers(p, table) = Enabled \ {p}
            BY DEF EnabledPeers, Enabled
          <6>5. p \notin EnabledPeers(p, table)
            BY DEF EnabledPeers
          <6>6. SingleClaim => Enabled' = {p} \cup Unwritten(q)'
            BY <6>2, <6>3, <6>4
          <6>7. p \in Enabled'
            BY <3>1, <6>2
          <6>8. ToggleGoesOn(q, p)'
            BY <1>1, <5>7, <6>2, <6>3, <6>5, <6>6 DEF ToggleGoesOn
          <6> QED BY <6>7, <6>8
        <5>8. CASE p \in left[q] /\ req[q].want = {}
          <6>1. k = p /\ left[q] = {p} /\ ~LockedOff(p, table)
            BY <4>2, <4>3, <4>4, <5>8 DEF ToggleBegins
          <6>2. Enabled' = Enabled \ {p} /\ Unwritten(q)' = {}
            BY <2>2, <4>6, <5>8, <6>1
          <6>3. RequiresOne => Enabled # {p}
            BY <6>1 DEF LockedOff, Enabled
          <6>4. cutShort = {} => Obeys(Enabled)
            BY <3>4, <4>1, <4>3, <4>5, <5>8 DEF Settled
          <6>5. ~LockedOff(p, Enabled) /\ Enabled \subseteq Plugins
            BY <6>3 DEF LockedOff, Enabled
          <6>6. cutShort = {} => Obeys(Enabled')
            BY <6>2, <6>4, <6>5, ObeysOff
          <6> QED BY <1>1, <5>8, <4>10, <6>2, <6>3, <6>6 DEF ToggleGoesOn
        <5>9. CASE p \notin left[q] /\ req[q].want # {}
          <6>1. /\ p \in table /\ k # p /\ k \notin req[q].want
                /\ SingleClaim => Enabled = {p} \cup left[q]
            BY <1>1, <3>1, <4>2, <4>3, <4>4, <5>9 DEF ToggleGoesOn
          <6>2. Enabled' = Enabled \ {k} /\ p \in table' /\ p \in Enabled'
            BY <1>1, <3>1, <4>6, <6>1 DEF Put, Enabled
          <6>3. p \notin Unwritten(q)' /\ (SingleClaim => Enabled' = {p} \cup Unwritten(q)')
            BY <2>2, <5>9, <6>1, <6>2
          <6>4. ToggleGoesOn(q, p)'
            BY <1>1, <5>9, <6>2, <6>3 DEF ToggleGoesOn
          <6> QED BY <6>2, <6>4
        <5> QED BY <5>7, <5>8, <5>9, <4>11
      <4>13. ~overlapped' => \A c \in Changing' : req'[c].kind = "toggle" =>
                IF Untouched(c)' THEN ToggleBegins(c, req[c].first)'
                                 ELSE ToggleGoesOn(c, req[c].first)'
        BY <1>1, <1>2, <2>3, <3>1, <4>1, <4>12
      <4>14. Inhabited'
        BY <1>1, <4>12 DEF Inhabited
      <4> QED BY <2>4, <3>2, <4>13, <4>14 DEF Deeds
    <3> QED BY <3>3, <3>4
  <2> QED BY <1>4, <2>6, <2>7, TogglesKey
<1> QED BY <1>3, <1>4

LEMMA PatchDeeds ==
    ASSUME CInv, Order, Deeds, NEW q \in Reqs, NEW k \in Keys, PatchMap(q, k)
    PROVE  Deeds'
<1> USE DEF PatchMap
<1>1. /\ SlotTypeOK /\ phase[q] = "patch" /\ NextKey(q) = {k} /\ k \in left[q]
      /\ left' = [left EXCEPT ![q] = @ \ {k}] /\ phase' = [phase EXCEPT ![q] = "write"]
      /\ UNCHANGED <<table, label, req, overlapped, cutShort, alone, last>>
  BY NextIsLeft DEF CInv, slotHistory, stored
<1>2. Changing' = Changing /\ Enabled' = Enabled
  BY <1>1 DEF SlotTypeOK, Changing, Enabled
<1>3. CASE q \notin Changing
  <2>1. \A c \in Changing : StandsStill(c)
    BY <1>1, <1>2, <1>3 DEF SlotTypeOK, StandsStill, Changing
  <2> QED BY <1>1, <1>2, <2>1, DeedsStill
<1>4. CASE q \in Changing
  <2>1. k \in Plugins /\ req[q].kind \in {"toggle", "preset"}
    BY <1>1, <1>4, KeyOfWriter, TogglesKey DEF Order
  <2>2. /\ Unwritten(q) = left[q] \ {k} /\ Unwritten(q)' = left[q] \ {k}
        /\ left'[q] = left[q] \ {k} /\ phase'[q] = "write"
    BY <1>1 DEF SlotTypeOK, Unwritten
  <2>3. ~Untouched(q)
    BY <1>1 DEF Untouched
  <2>4. req[q].kind = "toggle" => req[q].first \notin left'[q]
    BY <1>1, <2>2 DEF NextKey
  <2>5. ~Untouched(q)'
    BY <1>1, <2>1, <2>2, <2>4 DEF Untouched
  <2>6. Settled'
    BY <1>2, <1>4, <2>5 DEF Settled
  <2>7. \A c \in alone' : c = q
    BY <1>1, <1>4 DEF Order, OneAtATime
  <2>8. ~overlapped => Changing = {q}
    BY <1>4 DEF Order, OneAtATime
  <2>9. q \in alone => PresetDone(q)'
    BY <1>1, <2>2 DEF Deeds, PresetDone
  <2>10. ASSUME ~overlapped, req[q].kind = "toggle"
         PROVE  ToggleGoesOn(q, req[q].first)'
    <3>1. ToggleGoesOn(q, req[q].first)
      BY <1>4, <2>3, <2>10 DEF Deeds
    <3> QED BY <1>1, <1>2, <2>2, <3>1 DEF ToggleGoesOn
  <2>11. ~overlapped' => \A c \in Changing' : req'[c].kind = "toggle" =>
            IF Untouched(c)' THEN ToggleBegins(c, req[c].first)'
                             ELSE ToggleGoesOn(c, req[c].first)'
    BY <1>1, <1>2, <2>5, <2>8, <2>10
  <2>12. Inhabited'
    BY <1>1, <1>2, <1>4, <2>5, <2>8 DEF Deeds, Inhabited
  <2> QED BY <2>6, <2>7, <2>9, <2>11, <2>12, <1>1 DEF Deeds
<1> QED BY <1>3, <1>4

(* A change that ends has written all it wanted.                           *)
LEMMA FinishDeeds ==
    ASSUME CInv, Order, Deeds, NEW q \in Reqs, FinishRequest(q)
    PROVE  Deeds'
<1> USE DEF FinishRequest
<1>1. /\ SlotTypeOK /\ phase[q] = "write" /\ left[q] = {} /\ Ends(q)
      /\ Enabled' = Enabled /\ alone' = alone \ {q} /\ table' = table
  BY DEF CInv, Enabled
<1>2. Changing' = Changing \ {q}
  BY <1>1 DEF Ends, SlotTypeOK, Changing
<1>3. Unwritten(q) = {}
  BY <1>1 DEF Unwritten
<1>4. CASE q \notin Changing
  <2>1. req[q].kind = "save" /\ q \notin alone
    BY <1>1, <1>4 DEF Changing, Order, OneAtATime
  <2>2. UNCHANGED <<label, overlapped, cutShort, alone, last>>
    <3>1. label' = label /\ last' = last /\ cutShort' = cutShort
      BY <2>1
    <3>2. alone' = alone
      BY <1>1, <2>1
    <3>3. overlapped' = overlapped
      BY <1>1, <2>1 DEF SlotTypeOK
    <3> QED BY <3>1, <3>2, <3>3
  <2>3. Changing' = Changing
    BY <1>2, <1>4
  <2>4. \A c \in Changing : StandsStill(c)
    BY <1>1, <1>4, <2>2 DEF Ends, SlotTypeOK, StandsStill, Changing
  <2> QED BY <1>1, <2>2, <2>3, <2>4, DeedsStill
<1>5. CASE q \in Changing /\ q \notin alone /\ overlapped
  <2>1. overlapped' /\ alone' = alone
    BY <1>1, <1>5
  <2>2. alone = {}
    BY <1>5 DEF Order, OneAtATime
  <2> QED BY <2>1, <2>2 DEF Deeds, Settled, Inhabited
<1>6. CASE q \in Changing /\ q \notin alone /\ ~overlapped
  <2>1. Changing' = {} /\ alone = {} /\ req[q].kind = "toggle"
    BY <1>2, <1>5, <1>6, TogglesKey DEF Order, OneAtATime
  <2>2. /\ label' = "custom" /\ last' = {} /\ alone' = {} /\ cutShort' = cutShort
    BY <1>1, <1>6, <2>1
  <2>3. PICK p \in Plugins : p = req[q].first /\ ~Untouched(q) /\ ToggleGoesOn(q, p)
    <3>1. req[q].first \in Plugins /\ ~Untouched(q)
      BY <1>1, <1>6, <2>1, TogglesKey DEF Untouched
    <3> QED BY <1>6, <2>1, <3>1 DEF Deeds
  <2>4. cutShort = {} => Obeys(Enabled)
    <3>1. CASE req[q].want # {}
      <4>1. p \in Enabled /\ (SingleClaim => Enabled = {p})
        BY <1>3, <2>3, <3>1 DEF ToggleGoesOn, Enabled
      <4> QED BY <4>1, ObeysOne, ObeysMany
    <3>2. CASE req[q].want = {}
      BY <2>3, <3>2 DEF ToggleGoesOn
    <3> QED BY <3>1, <3>2
  <2>5. Settled'
    BY <1>1, <2>2, <2>4 DEF Settled, Obeys
  <2>6. \A c \in Changing : req[c].kind = "toggle"
    BY <1>6, <2>1 DEF Order, OneAtATime
  <2>7. Inhabited'
    BY <1>1, <1>6, <2>2, <2>6 DEF Deeds, Inhabited
  <2> QED BY <2>1, <2>2, <2>5, <2>7 DEF Deeds
<1>7. CASE q \in Changing /\ q \in alone
  <2>1. Changing' = {} /\ alone' = {} /\ req[q].kind = "preset" /\ PresetDone(q)
    BY <1>1, <1>2, <1>7 DEF Deeds, Order, OneAtATime
  <2>2. req[q].want \subseteq Plugins
    BY <1>7, TogglesKey
  <2>3. Enabled = req[q].want /\ Obeys(Enabled)
    BY <1>3, <2>1, <2>2 DEF PresetDone, Enabled
  <2>4. last' = req[q].want
    BY <2>1
  <2> QED BY <1>1, <2>1, <2>3, <2>4 DEF Deeds, Settled, Inhabited, Obeys
<1> QED BY <1>4, <1>5, <1>6, <1>7


(* A change that is cut short after its first row is held against it.      *)
LEMMA FailDeeds ==
    ASSUME CInv, Order, Deeds, NEW q \in Reqs, WriteFails(q)
    PROVE  Deeds'
<1> USE DEF WriteFails
<1>1. /\ SlotTypeOK /\ phase[q] = "write" /\ Ends(q)
      /\ Enabled' = Enabled /\ alone' = alone \ {q} /\ table' = table
      /\ UNCHANGED <<label, overlapped, last>> /\ cutShort' = Cut({q})
  BY DEF CInv, Enabled, stored
<1>2. Changing' = Changing \ {q}
  BY <1>1 DEF Ends, SlotTypeOK, Changing
<1>3. CASE overlapped
  <2>1. \A c \in alone' : c \in Changing /\ c # q /\ Changing = {c}
    BY <1>1 DEF Order, OneAtATime
  <2>2. ASSUME NEW c \in alone'
        PROVE  PresetDone(c)'
    <3>1. c \in Reqs /\ StandsStill(c)
      <4>1. c \in Reqs /\ cutShort' = cutShort
        BY <1>1, <1>3, <2>1 DEF Cut, Order, OneAtATime, Changing
      <4> QED BY <1>1, <2>1, <4>1 DEF Ends, SlotTypeOK, StandsStill
    <3>2. PresetDone(c)
      BY <1>1, <2>2 DEF Deeds
    <3> QED BY <3>1, <3>2, StillSo
  <2> QED BY <1>1, <1>3, <2>2 DEF Deeds, Settled, Inhabited
<1>4. CASE ~overlapped /\ q \notin Changing
  <2>1. cutShort' = cutShort /\ Changing' = Changing
    BY <1>1, <1>2, <1>4 DEF Cut
  <2>2. alone' = alone
    BY <1>1, <1>4 DEF Order, OneAtATime
  <2>3. \A c \in Changing : StandsStill(c)
    BY <1>1, <1>4, <2>1 DEF Ends, SlotTypeOK, StandsStill, Changing
  <2> QED BY <1>1, <2>1, <2>2, <2>3, DeedsStill
<1>5. CASE ~overlapped /\ q \in Changing
  <2>1. Changing = {q} /\ Changing' = {} /\ alone' = {}
    BY <1>1, <1>2, <1>5 DEF Order, OneAtATime
  <2>2. cutShort' = IF Untouched(q) THEN cutShort ELSE cutShort \cup {req[q].kind}
    BY <1>1, <1>5, <2>1 DEF Cut
  <2>3. Settled'
    BY <1>1, <1>5, <2>1, <2>2 DEF Deeds, Settled, Obeys
  <2>4. req[q].kind \in {"toggle", "preset"}
    BY <1>5, TogglesKey
  <2>5. Inhabited'
    BY <1>1, <1>5, <2>1, <2>2, <2>4 DEF Deeds, Inhabited
  <2> QED BY <2>1, <2>3, <2>5 DEF Deeds
<1> QED BY <1>3, <1>4, <1>5

LEMMA RestartDeeds ==
    ASSUME CInv, Order, Deeds, Restart
    PROVE  Deeds'
<1> USE DEF Restart
<1>1. /\ Enabled' = Enabled /\ alone' = {} /\ Changing' = {}
      /\ UNCHANGED <<label, overlapped, last>> /\ cutShort' = Cut(Reqs)
  BY DEF Enabled, stored, Changing
<1>2. CASE overlapped
  BY <1>1, <1>2 DEF Deeds, Settled, Inhabited
<1>3. CASE ~overlapped /\ Changing = {}
  <2>1. cutShort' = cutShort
    BY <1>1, <1>3 DEF Cut
  <2> QED BY <1>1, <1>3, <2>1 DEF Deeds, Settled, Inhabited, Obeys
<1>4. ASSUME ~overlapped, NEW q \in Changing
      PROVE  Deeds'
  <2>1. Changing = {q} /\ q \in Reqs
    BY <1>4 DEF Order, OneAtATime, Changing
  <2>2. cutShort' = IF Untouched(q) THEN cutShort ELSE cutShort \cup {req[q].kind}
    BY <1>1, <1>4, <2>1 DEF Cut
  <2>3. Settled'
    BY <1>1, <1>4, <2>1, <2>2 DEF Deeds, Settled, Obeys
  <2>4. req[q].kind \in {"toggle", "preset"}
    BY <1>4, TogglesKey
  <2>5. Inhabited'
    BY <1>1, <1>4, <2>1, <2>2, <2>4 DEF Deeds, Inhabited
  <2> QED BY <1>1, <2>3, <2>5 DEF Deeds
<1> QED BY <1>2, <1>3, <1>4

-----------------------------------------------------------------------------

LEMMA SlotInductive == SInv /\ [SlotNext]_slotVars => SInv'
<1> SUFFICES ASSUME SInv, [SlotNext]_slotVars PROVE Order' /\ Deeds'
  BY CacheInductive DEF SInv
<1>1. CInv /\ Order /\ Deeds
  BY DEF SInv
<1>2. ASSUME NEW q \in Reqs, NEW r \in Request, Asked(r), Ask(q, r)
      PROVE  Order' /\ Deeds'
  BY <1>1, <1>2, AskOrders, AskDeeds
<1>3. ASSUME NEW q \in Reqs, Install(q)
      PROVE  Order' /\ Deeds'
  BY <1>1, <1>3, InstallOrders, InstallDeeds
<1>4. ASSUME NEW q \in Reqs, FinishRequest(q) \/ WriteFails(q)
      PROVE  Order' /\ Deeds'
  BY <1>1, <1>4, EndOrders, FinishDeeds, FailDeeds
<1>5. ASSUME NEW q \in Reqs, NEW k \in Keys, WriteRow(q, k)
      PROVE  Order' /\ Deeds'
  BY <1>1, <1>5, WriteOrders, WriteDeeds
<1>6. ASSUME NEW q \in Reqs, NEW k \in Keys, PatchMap(q, k)
      PROVE  Order' /\ Deeds'
  BY <1>1, <1>6, PatchOrders, PatchDeeds
<1>7. CASE Restart
  BY <1>1, <1>7, RestartOrders, RestartDeeds
<1>8. CASE UNCHANGED slotVars
  <2>1. Changing' = Changing /\ Enabled' = Enabled
    BY <1>8 DEF slotVars, stored, request, Changing, Enabled
  <2>2. Order'
    BY <1>1, <1>8, <2>1 DEF slotVars, request, races, cached, slotHistory,
                            Order, Asking, OneAtATime, Races
  <2>3. \A c \in Changing : StandsStill(c)
    BY <1>8, <2>1 DEF slotVars, request, slotHistory, StandsStill
  <2>4. UNCHANGED <<label, overlapped, cutShort, alone, last>>
    BY <1>8 DEF slotVars, stored, slotHistory
  <2>5. Deeds'
    BY <1>1, <2>1, <2>3, <2>4, DeedsStill
  <2> QED BY <2>2, <2>5
<1> QED BY <1>2, <1>3, <1>4, <1>5, <1>6, <1>7, <1>8 DEF SlotNext

LEMMA SlotInvariance == SlotSpec => []SInv
<1>1. SlotInit => SInv
  BY CacheStarts, OrderStarts, DeedsStart DEF SInv
<1> QED BY <1>1, SlotInductive, PTL DEF SlotSpec

(* registry.go:65-79: whatever the slot's rule, when no request is under   *)
(* way the enabled plugins obey it, and an active preset is what is        *)
(* enabled, unless changes overlapped or one was cut short; and a slot     *)
(* that requires a claimant has one at every moment of a toggle.           *)
THEOREM SlotRule == SlotSpec => []SlotKept
<1>1. SInv => SlotKept
  <2> SUFFICES ASSUME SInv PROVE SlotKept
    OBVIOUS
  <2>1. Settled /\ Inhabited
    BY DEF SInv, Deeds
  <2>2. Quiet => Changing = {}
    BY DEF Quiet, Changing
  <2>3. RuleKept
    BY <2>1, <2>2 DEF Settled, RuleKept, Enabled
  <2>4. NeverEmpty
    BY <2>1 DEF Inhabited, NeverEmpty, Enabled
  <2> QED BY <2>3, <2>4 DEF SlotKept
<1> QED BY <1>1, SlotInvariance, PTL

=============================================================================
