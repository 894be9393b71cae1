----------------------------- MODULE JobQueue -----------------------------
(***************************************************************************)
(* The durable job queue: the jobs table (repository/queries_jobs.go), the *)
(* single worker goroutine that drains it (services/jobs.go), the HTTP     *)
(* callers that enqueue, retry and clear, the daily prune, and the process *)
(* that holds all of them and may stop at any step.                        *)
(*                                                                         *)
(* Rows survive the process; worker, claimed, outcome, wake and owed do    *)
(* not.  Time is kept relative: wait[j] is next_run_at minus the current   *)
(* time in backoff units, so a queued row is due when wait[j] <= 0.        *)
(***************************************************************************)
EXTENDS Integers

CONSTANTS
    MaxJobs,       \* rows ever inserted; ids are 1..MaxJobs in that order
    MaxAttempts,   \* defaultJobMaxAttempts
    BackoffBase,   \* defaultJobBackoffBase, in ticks
    MaxBackoff,    \* maxJobBackoff, in ticks
    Retention,     \* JobDoneRetention, in ticks
    MaxLag,        \* bound: rows more than MaxLag ticks overdue look alike
    MaxRestarts,   \* bound: how often the process stops
    MaxRetries,    \* bound: how often the operator presses Retry
    DBFaults       \* whether a claim, a finish or a requeue write may fail

ASSUME JobsAssumption ==
    /\ MaxJobs \in Nat
    /\ MaxAttempts \in Nat \ {0}
    /\ BackoffBase \in Nat \ {0}
    /\ MaxBackoff \in Nat \ {0}
    /\ Retention \in Nat
    /\ MaxLag \in Nat /\ MaxLag > Retention
    /\ MaxRestarts \in Nat
    /\ MaxRetries \in Nat
    /\ DBFaults \in BOOLEAN

VARIABLES
    state,      \* state[j]: the row's state column, or that there is no row
    attempts,   \* attempts[j]: the row's attempts column
    wait,       \* wait[j]: next_run_at relative to now
    proc,       \* the server process
    worker,     \* where the worker goroutine stands
    claimed,    \* the worker's local copy of the row ClaimDueJob returned
    outcome,    \* what the handler returned
    wake,       \* the one-slot wake channel holds a token
    owed,       \* callers that have written a row but not yet signalled
    restarts,   \* how often the process has started again
    retries,    \* how often the operator has retried a failed job
    effected    \* history: jobs whose handler has returned nil

rowVars  == <<state, attempts, wait>>
procVars == <<proc, worker, claimed, outcome, wake, owed>>
vars == <<rowVars, procVars, restarts, retries, effected>>

Jobs == 1..MaxJobs
NoJob == [id |-> 0, attempts |-> 0]

RowState  == {"absent", "queued", "running", "done", "failed", "gone"}
ProcState == {"up", "stopping", "down"}

(* "claim" is drain about to call ClaimDueJob, "run" is inside the         *)
(* handler, "finish" is about to call FinishJob, "drained" is between a    *)
(* claim that found nothing and loop's select.  "wait" and "waitErr" are   *)
(* blocked in that select: after a drain that found nothing due, and after *)
(* one that ended on a database error.                                     *)
WorkerState == {"claim", "run", "finish", "drained", "wait", "waitErr", "exited"}

HasRow(j) == state[j] \notin {"absent", "gone"}

TypeOK ==
    /\ state \in [Jobs -> RowState]
    /\ attempts \in [Jobs -> Nat]
    /\ wait \in [Jobs -> -MaxLag..MaxBackoff]
    /\ proc \in ProcState
    /\ worker \in WorkerState
    /\ claimed \in [id : Jobs \cup {0}, attempts : Nat]
    /\ outcome \in {"ok", "error"}
    /\ wake \in BOOLEAN
    /\ owed \in Nat
    /\ restarts \in Nat
    /\ retries \in Nat
    /\ effected \in SUBSET Jobs

Init ==
    /\ state = [j \in Jobs |-> "absent"]
    /\ attempts = [j \in Jobs |-> 0]
    /\ wait = [j \in Jobs |-> 0]
    /\ proc = "up"
    /\ worker = "claim"
    /\ claimed = NoJob
    /\ outcome = "ok"
    /\ wake = FALSE
    /\ owed = 0
    /\ restarts = 0
    /\ retries = 0
    /\ effected = {}

-----------------------------------------------------------------------------
(* The HTTP side: callers write a row, then signal.                        *)

Serving == proc \in {"up", "stopping"}

(* InsertJob: AUTOINCREMENT hands out ids in order and never again.        *)
Enqueue(j) ==
    /\ Serving
    /\ state[j] = "absent"
    /\ \A i \in Jobs : i < j => state[i] # "absent"
    /\ state' = [state EXCEPT ![j] = "queued"]
    /\ attempts' = [attempts EXCEPT ![j] = 0]
    /\ wait' = [wait EXCEPT ![j] = 0]
    /\ owed' = owed + 1
    /\ UNCHANGED <<proc, worker, claimed, outcome, wake, restarts, retries, effected>>

(* Mutant: RetryFailedJob without AND state = 'failed'.                    *)
RetryableUnchecked(j) == HasRow(j)

(* WHERE id = ? AND state = 'failed'.                                      *)
Retryable(j) == state[j] = "failed"

(* The operator retries a job.                                             *)
Retry(j) ==
    /\ Serving
    /\ retries < MaxRetries
    /\ Retryable(j)
    /\ state' = [state EXCEPT ![j] = "queued"]
    /\ attempts' = [attempts EXCEPT ![j] = 0]
    /\ wait' = [wait EXCEPT ![j] = 0]
    /\ owed' = owed + 1
    /\ retries' = retries + 1
    /\ UNCHANGED <<proc, worker, claimed, outcome, wake, restarts, effected>>

(* Mutant: an unbuffered wake channel.                                     *)
TokenUnbuffered == worker \in {"wait", "waitErr"}

(* A channel of one slot: the send leaves a token whoever is listening.    *)
Token == TRUE

(* signal, which never blocks.                                             *)
Signal ==
    /\ owed > 0
    /\ owed' = owed - 1
    /\ wake' = (wake \/ Token)
    /\ UNCHANGED <<rowVars, proc, worker, claimed, outcome, restarts, retries, effected>>

Remove(S) ==
    /\ S # {}
    /\ state' = [j \in Jobs |-> IF j \in S THEN "gone" ELSE state[j]]
    /\ UNCHANGED <<attempts, wait, procVars, restarts, retries, effected>>

ClearFailed ==
    Serving /\ Remove({j \in Jobs : state[j] = "failed"})

(* Mutant: the prune looks at the age alone.                               *)
PrunableByAge(j) == HasRow(j) /\ wait[j] < -Retention

(* FinishJob leaves a done row with next_run_at = updated_at, so -wait is  *)
(* the row's age.                                                          *)
Prunable(j) == state[j] = "done" /\ wait[j] < -Retention

PruneDone ==
    proc = "up" /\ Remove({j \in Jobs : Prunable(j)})

-----------------------------------------------------------------------------
(* The worker goroutine.                                                   *)

Due(j) == state[j] = "queued" /\ wait[j] <= 0

(* ORDER BY next_run_at, id LIMIT 1.                                       *)
Oldest(j) ==
    /\ Due(j)
    /\ \A i \in Jobs : Due(i) => \/ wait[j] < wait[i]
                                 \/ wait[j] = wait[i] /\ j <= i

ClaimDueJob(j) ==
    /\ proc = "up"
    /\ worker = "claim"
    /\ Oldest(j)
    /\ state' = [state EXCEPT ![j] = "running"]
    /\ attempts' = [attempts EXCEPT ![j] = @ + 1]
    /\ claimed' = [id |-> j, attempts |-> attempts[j] + 1]
    /\ worker' = "run"
    /\ UNCHANGED <<wait, proc, outcome, wake, owed, restarts, retries, effected>>

(* drain returns: nothing is due, or the claim failed.                     *)
DrainEnds ==
    /\ proc = "up"
    /\ worker = "claim"
    /\ \/ (\A j \in Jobs : ~Due(j)) /\ worker' = "drained"
       \/ DBFaults /\ worker' = "waitErr"
    /\ UNCHANGED <<rowVars, proc, claimed, outcome, wake, owed, restarts, retries, effected>>

(* loop reaches its select: rows and tokens may have come in since the     *)
(* claim that found nothing.                                               *)
EnterSelect ==
    /\ worker = "drained"
    /\ worker' = "wait"
    /\ UNCHANGED <<rowVars, proc, claimed, outcome, wake, owed, restarts, retries, effected>>

(* run: the handler returns nil or an error; a panic, a missing handler    *)
(* and a cancelled context are errors.                                     *)
HandlerReturns(res) ==
    /\ worker = "run"
    /\ worker' = "finish"
    /\ outcome' = res
    /\ effected' = IF res = "ok" THEN effected \cup {claimed.id} ELSE effected
    /\ UNCHANGED <<rowVars, proc, claimed, wake, owed, restarts, retries>>

(* Mutant: the doubling has no cap.                                        *)
BackoffUncapped(a) == BackoffBase * 2^(a - 1)

(* base * 2^(a-1), at most MaxBackoff.                                     *)
Backoff(a) ==
    LET d == BackoffBase * 2^(a - 1)
    IN  IF d \in 0..MaxBackoff THEN d ELSE MaxBackoff

(* The state column after an attempt.                                      *)
FinishState ==
    IF outcome = "ok" THEN "done"
    ELSE IF claimed.attempts >= MaxAttempts THEN "failed" ELSE "queued"

(* The rest of RunOnce: FinishJob writes by id, whatever the row holds.    *)
Finish ==
    /\ worker = "finish"
    /\ state' = [state EXCEPT ![claimed.id] = FinishState]
    /\ wait' = [wait EXCEPT ![claimed.id] =
                    IF FinishState = "queued" THEN Backoff(claimed.attempts) ELSE 0]
    /\ worker' = "claim"
    /\ claimed' = NoJob
    /\ UNCHANGED <<attempts, proc, outcome, wake, owed, restarts, retries, effected>>

(* FinishJob fails: drain gives up and the row keeps saying running.       *)
FinishFails ==
    /\ DBFaults
    /\ worker = "finish"
    /\ worker' = "waitErr"
    /\ claimed' = NoJob
    /\ UNCHANGED <<rowVars, proc, outcome, wake, owed, restarts, retries, effected>>

(* loop's select on the wake token.                                        *)
WakeUp ==
    /\ proc = "up"
    /\ worker \in {"wait", "waitErr"}
    /\ wake
    /\ wake' = FALSE
    /\ worker' = "claim"
    /\ UNCHANGED <<rowVars, proc, claimed, outcome, owed, restarts, retries, effected>>

(* Mutant: loop selects on the wake channel alone.                         *)
PollTickMissing == WakeUp

(* loop's select on the 30-second ticker.                                  *)
PollTick ==
    /\ proc = "up"
    /\ worker \in {"wait", "waitErr"}
    /\ worker' = "claim"
    /\ UNCHANGED <<rowVars, proc, claimed, outcome, wake, owed, restarts, retries, effected>>

(* drain's ctx.Err() and loop's ctx.Done().                                *)
WorkerExits ==
    /\ proc = "stopping"
    /\ worker \in {"claim", "wait", "waitErr"}
    /\ worker' = "exited"
    /\ UNCHANGED <<rowVars, proc, claimed, outcome, wake, owed, restarts, retries, effected>>

-----------------------------------------------------------------------------
(* The process and the clock.                                              *)

(* SIGTERM cancels the root context; requests in flight go on.             *)
Shutdown ==
    /\ proc = "up"
    /\ restarts < MaxRestarts
    /\ proc' = "stopping"
    /\ UNCHANGED <<rowVars, worker, claimed, outcome, wake, owed, restarts, retries, effected>>

(* The end of main after e.Shutdown, which does not wait for the worker,   *)
(* or a crash or a kill: every goroutine stops where it is.                *)
ProcessEnds ==
    /\ proc # "down"
    /\ restarts < MaxRestarts
    /\ proc' = "down"
    /\ worker' = "exited"
    /\ claimed' = NoJob
    /\ wake' = FALSE
    /\ owed' = 0
    /\ UNCHANGED <<rowVars, outcome, restarts, retries, effected>>

(* Mutant: a start leaves running rows alone.                              *)
RequeuedNone == state

(* The rows RequeueRunningJobs leaves behind: attempts and next_run_at     *)
(* stay as they are.                                                       *)
Requeued == [j \in Jobs |-> IF state[j] = "running" THEN "queued" ELSE state[j]]

(* JobService.Start; an error from the requeue is only logged.             *)
Start ==
    /\ proc = "down"
    /\ proc' = "up"
    /\ worker' = "claim"
    /\ restarts' = restarts + 1
    /\ \/ state' = Requeued
       \/ DBFaults /\ UNCHANGED state
    /\ UNCHANGED <<attempts, wait, claimed, outcome, wake, owed, retries, effected>>

Tick ==
    /\ wait' = [j \in Jobs |-> IF HasRow(j) /\ wait[j] > -MaxLag
                               THEN wait[j] - 1 ELSE wait[j]]
    /\ UNCHANGED <<state, attempts, procVars, restarts, retries, effected>>

-----------------------------------------------------------------------------

Next ==
    \/ \E j \in Jobs : Enqueue(j) \/ Retry(j) \/ ClaimDueJob(j)
    \/ Signal
    \/ ClearFailed
    \/ PruneDone
    \/ DrainEnds
    \/ EnterSelect
    \/ \E res \in {"ok", "error"} : HandlerReturns(res)
    \/ Finish
    \/ FinishFails
    \/ WakeUp
    \/ PollTick
    \/ WorkerExits
    \/ Shutdown
    \/ ProcessEnds
    \/ Start
    \/ Tick

Spec == Init /\ [][Next]_vars

(* The worker never blocks between two steps, a handler returns (each has  *)
(* a timeout), the ticker fires, time passes, and a stopped process is     *)
(* started again by whatever supervises it.  Nothing is assumed of the     *)
(* operator, of the prune or of crashes.                                   *)
Fairness ==
    /\ WF_vars(\E j \in Jobs : ClaimDueJob(j))
    /\ WF_vars(DrainEnds \/ EnterSelect)
    /\ WF_vars(\E res \in {"ok", "error"} : HandlerReturns(res))
    /\ WF_vars(Finish)
    /\ WF_vars(PollTick)
    /\ WF_vars(proc = "stopping" /\ ProcessEnds)
    /\ WF_vars(Start)
    /\ WF_vars(Tick)

LiveSpec == Spec /\ Fairness

-----------------------------------------------------------------------------
(* Properties.                                                             *)

(* From the claim to the write of the outcome, nobody else changes the row *)
(* the worker runs: Retry, ClearFailed, PruneDone and a requeue all leave  *)
(* it alone, so the worker's local copy of attempts is not stale and       *)
(* FinishJob's UPDATE, which has no state in its WHERE, never resurrects a *)
(* deleted or settled row.                                                 *)
ClaimHeld ==
    worker \in {"run", "finish"} =>
        /\ claimed.id \in Jobs
        /\ state[claimed.id] = "running"
        /\ attempts[claimed.id] = claimed.attempts

(* With a database that answers, a row says running only while the worker  *)
(* of the live process runs it: jobs run one at a time, and the Job Queue  *)
(* card does not show a job as running that nobody runs.                   *)
SingleRunner ==
    (~DBFaults /\ proc # "down") =>
        \A j \in Jobs : state[j] = "running" => j = claimed.id

(* An attempt is counted at the claim and a requeue at start does not look *)
(* at the count, so a job may pass max_attempts, but only by one for each  *)
(* time the process was started again.                                     *)
AttemptsBounded ==
    \A j \in Jobs : attempts[j] <= MaxAttempts + restarts

(* A job is only reported failed when its attempts really are used up.     *)
FailedIsExhausted ==
    \A j \in Jobs : state[j] = "failed" => attempts[j] >= MaxAttempts

(* No wake-up is lost: a worker that went to sleep on an empty queue does  *)
(* not sit out the poll interval while a job just enqueued or retried is   *)
(* waiting (attempts still 0), unless its caller has yet to signal.        *)
NoLostWakeup ==
    (proc = "up" /\ worker = "wait" /\ ~wake /\ owed = 0) =>
        \A j \in Jobs : state[j] = "queued" => attempts[j] > 0

(* The job store as its callers see it.                                    *)
Status(j) == IF state[j] \in {"queued", "running"} THEN "pending" ELSE state[j]

Durable == INSTANCE DurableJobs WITH status <- [j \in Jobs |-> Status(j)]

(* Accepted jobs are never lost, done means the handler returned nil, and  *)
(* only done or failed rows disappear, through every crash and fault.      *)
KeepsPromise == Durable!Spec

(* With a database that answers, every accepted job ends done or failed    *)
(* whatever the handler returns and whenever the process restarts.         *)
EveryJobSettles ==
    \A j \in Jobs :
        state[j] \in {"queued", "running"} ~> state[j] \in {"done", "failed", "gone"}

=============================================================================
