----------------------------- MODULE CrossPost -----------------------------
(***************************************************************************)
(* Publishing a post and sending it to Instagram (services/post_publish.go *)
(* and the manual trigger in api/posts.go), on top of the durable queue.   *)
(* One post is modelled.  Its cross-posts are the jobs of JobQueue, run by *)
(* its worker, and the direct runs an administrator starts over HTTP.      *)
(*                                                                         *)
(* A run of CrossPostToInstagram is a sequence of steps, because each step *)
(* is a database or a Graph API call during which others move:             *)
(*   guard    the job reads instagram_media_id (jobs only),                *)
(*   prepare  the post is read again, the containers are created,          *)
(*   publish  PublishContainer, the call that makes the post appear,       *)
(*   record   the media id is written to the post,                         *)
(*   note     instagram_status = error is written, which clears the id,    *)
(*   ok, error   the run is over.                                          *)
(***************************************************************************)
EXTENDS Integers, TLAPS

CONSTANTS
    MaxJobs, MaxAttempts, BackoffBase, MaxBackoff, Retention, MaxLag,
    MaxRestarts, MaxRetries, DBFaults,
    MaxManual,     \* bound: direct runs the administrator starts
    MaxPublishes,  \* bound: how often the post is published
    LostReplies    \* whether Instagram may apply a publish and the reply be lost

VARIABLES
    state, attempts, wait, proc, worker, claimed, outcome, wake, owed,
    restarts, retries, effected,    \* the queue
    status,      \* the post: draft, published, or deleted for good
    share,       \* the post's instagram_share
    igStatus,    \* instagram_status; the media id is set iff "published"
    spawned,     \* goroutines on their way to Enqueue
    step,        \* step[r]: where run r of CrossPostToInstagram stands
    lapsed,      \* runs whose context has ended: 180 seconds, or the client is gone
    publishes,   \* how often the post was published
    manual,      \* direct runs started
    posted,      \* history: posts made on Instagram
    excuses,     \* history: events after which one more post is explained
    silent,      \* history: the job's last run failed and could not say so on the post
    forgotten    \* history: the process ended before a goroutine had enqueued

queue == <<state, attempts, wait, proc, worker, claimed, outcome, wake, owed,
           restarts, retries, effected>>
post == <<status, share, igStatus>>
ends == <<lapsed, silent, forgotten>>
vars == <<queue, post, spawned, step, publishes, manual, posted, excuses, ends>>

Q == INSTANCE JobQueue

ASSUME CrossPostAssumption ==
    /\ MaxManual \in Nat
    /\ MaxPublishes \in Nat
    /\ LostReplies \in BOOLEAN

Runs == {"job", "admin"}

StepName == {"idle", "guard", "prepare", "publish", "record", "note", "ok", "error"}

TypeOK ==
    /\ Q!TypeOK
    /\ status \in {"draft", "published", "gone"}
    /\ share \in BOOLEAN
    /\ igStatus \in {"none", "published", "error"}
    /\ spawned \in Nat
    /\ step \in [Runs -> StepName]
    /\ publishes \in Nat
    /\ manual \in Nat
    /\ posted \in Nat
    /\ excuses \in Nat
    /\ lapsed \subseteq Runs
    /\ {silent, forgotten} \subseteq BOOLEAN

Init ==
    /\ Q!Init
    /\ status = "draft"
    /\ share \in BOOLEAN
    /\ igStatus = "none"
    /\ spawned = 0
    /\ step = [r \in Runs |-> "idle"]
    /\ publishes = 0
    /\ manual = 0
    /\ posted = 0
    /\ excuses = 0
    /\ lapsed = {}
    /\ silent = FALSE
    /\ forgotten = FALSE

-----------------------------------------------------------------------------
(* The editor and the scheduler.                                           *)

(* PublishPost and PublishDueScheduledPosts: the row is committed, then a  *)
(* goroutine is started if the post is shared and the setting is on.  A    *)
(* post already published may be published again.                          *)
PublishPost(enabled) ==
    /\ Q!Serving
    /\ publishes < MaxPublishes
    /\ status # "gone"
    /\ status' = "published"
    /\ publishes' = publishes + 1
    /\ spawned' = IF share /\ enabled THEN spawned + 1 ELSE spawned
    /\ UNCHANGED <<queue, share, igStatus, step, manual, posted, excuses, ends>>

WithdrawPost ==
    /\ Q!Serving
    /\ status # "gone"
    /\ status' = "draft"
    /\ UNCHANGED <<queue, share, igStatus, spawned, step, publishes, manual, posted, excuses, ends>>

(* A save that turns instagram_share on or off.                            *)
ToggleShare ==
    /\ Q!Serving
    /\ status # "gone"
    /\ share' = ~share
    /\ UNCHANGED <<queue, status, igStatus, spawned, step, publishes, manual, posted, excuses, ends>>

PermanentlyDelete ==
    /\ Q!Serving
    /\ status # "gone"
    /\ status' = "gone"
    /\ UNCHANGED <<queue, share, igStatus, spawned, step, publishes, manual, posted, excuses, ends>>

(* crossPostToInstagramAsync; a failed insert is logged and the wish lost. *)
Enqueue(j) ==
    /\ spawned > 0
    /\ spawned' = spawned - 1
    /\ \/ Q!Enqueue(j)
       \/ DBFaults /\ UNCHANGED queue
    /\ UNCHANGED <<post, step, publishes, manual, posted, excuses, ends>>

-----------------------------------------------------------------------------
(* A run of CrossPostToInstagram.                                          *)

Goto(r, s) == step' = [step EXCEPT ![r] = s]

(* The worker has claimed a cross-post job.                                *)
JobStarts(j) ==
    /\ Q!ClaimDueJob(j)
    /\ Goto("job", "guard")
    /\ silent' = FALSE
    /\ UNCHANGED <<post, spawned, publishes, manual, posted, excuses, lapsed, forgotten>>

(* The context that a run's calls and writes share ends: its 180 seconds   *)
(* are over, or whoever asked for the direct run has gone.                 *)
ContextEnds(r) ==
    /\ step[r] \in {"prepare", "publish", "record", "note"}
    /\ r \notin lapsed
    /\ lapsed' = lapsed \cup {r}
    /\ UNCHANGED <<queue, post, spawned, step, publishes, manual, posted, excuses, silent,
                   forgotten>>

(* A read or a write may fail; a shutdown cancels the context too.         *)
MayFail(r) == DBFaults \/ proc = "stopping" \/ r \in lapsed

(* History: whether the job's run leaves no trace of its failure.          *)
Silenced(r, lost) == silent' = IF r = "job" THEN lost ELSE silent

(* PublishToInstagram: straight to CrossPostToInstagram, on the request's  *)
(* goroutine, whatever the media id says.                                  *)
AdminStarts ==
    /\ Q!Serving
    /\ manual < MaxManual
    /\ step["admin"] = "idle"
    /\ Goto("admin", "prepare")
    /\ manual' = manual + 1
    /\ excuses' = excuses + 1
    /\ UNCHANGED <<queue, post, spawned, publishes, posted, ends>>

(* Mutant: the retry does not look for an earlier success.                 *)
GuardStepUnchecked == IF status = "gone" THEN "ok" ELSE "prepare"

(* runInstagramCrossPostJob: no post, nothing to do; a media id, skip.     *)
GuardStep ==
    IF status = "gone" \/ igStatus = "published" THEN "ok" ELSE "prepare"

Guard ==
    /\ step["job"] = "guard"
    /\ \/ Goto("job", GuardStep)
       \/ (DBFaults \/ proc = "stopping") /\ Goto("job", "error")
    /\ Silenced("job", step'["job"] = "error")
    /\ UNCHANGED <<queue, post, spawned, publishes, manual, posted, excuses, lapsed, forgotten>>

(* The second read of the post, then every check and call up to the ready  *)
(* container: each of their failures but a read's is noted on the post.    *)
Prepare(r) ==
    /\ step[r] = "prepare"
    /\ \/ status = "gone" /\ Goto(r, "error")
       \/ status # "gone" /\ ~share /\ Goto(r, "ok")
       \/ status # "gone" /\ share /\ Goto(r, "note")
       \/ status # "gone" /\ share /\ r \notin lapsed /\ Goto(r, "publish")
       \/ MayFail(r) /\ Goto(r, "error")
    /\ Silenced(r, step'[r] = "error")
    /\ UNCHANGED <<queue, post, spawned, publishes, manual, posted, excuses, lapsed, forgotten>>

(* PublishContainer: applied and answered, refused, or applied with the    *)
(* answer lost to a timeout.                                               *)
Publish(r) ==
    /\ step[r] = "publish"
    /\ \/ r \notin lapsed /\ Goto(r, "record") /\ posted' = posted + 1 /\ UNCHANGED excuses
       \/ Goto(r, "note") /\ UNCHANGED <<posted, excuses>>
       \/ /\ LostReplies /\ r \notin lapsed
          /\ Goto(r, "note") /\ posted' = posted + 1 /\ excuses' = excuses + 1
    /\ UNCHANGED <<queue, post, spawned, publishes, manual, ends>>

(* The write of the media id, and what is lost when it fails: the run then *)
(* returns an error.  It is written under the context of the calls.        *)
Record(r) ==
    /\ step[r] = "record"
    /\ \/ /\ r \notin lapsed
          /\ Goto(r, "ok")
          /\ igStatus' = "published"
          /\ UNCHANGED excuses
       \/ /\ MayFail(r)
          /\ Goto(r, "error")
          /\ excuses' = excuses + 1
          /\ UNCHANGED igStatus
    /\ UNCHANGED <<queue, status, share, spawned, publishes, manual, posted, ends>>

(* Mutant: a failure leaves no trace on the post.                          *)
NoteSilent(r) ==
    /\ step[r] = "note"
    /\ Goto(r, "error")
    /\ UNCHANGED <<queue, post, spawned, publishes, manual, posted, excuses, ends>>

(* updateInstagramStatus(error), whose own error is dropped: under a       *)
(* context that has ended, the post keeps its old status.                  *)
Note(r) ==
    /\ step[r] = "note"
    /\ Goto(r, "error")
    /\ \/ r \notin lapsed /\ igStatus' = "error" /\ UNCHANGED silent
       \/ MayFail(r) /\ UNCHANGED igStatus /\ Silenced(r, TRUE)
    /\ UNCHANGED <<queue, status, share, spawned, publishes, manual, posted, excuses, lapsed,
                   forgotten>>

(* The handler returns to RunOnce.                                         *)
JobReturns ==
    /\ step["job"] \in {"ok", "error"}
    /\ Q!HandlerReturns(step["job"])
    /\ Goto("job", "idle")
    /\ lapsed' = lapsed \ {"job"}
    /\ UNCHANGED <<post, spawned, publishes, manual, posted, excuses, silent, forgotten>>

(* The request is answered with the post as it now is.                     *)
AdminReturns ==
    /\ step["admin"] \in {"ok", "error"}
    /\ Goto("admin", "idle")
    /\ lapsed' = lapsed \ {"admin"}
    /\ UNCHANGED <<queue, post, spawned, publishes, manual, posted, excuses, silent, forgotten>>

-----------------------------------------------------------------------------
(* The rest of the queue, which no run takes part in.                      *)
QueueStep ==
    /\ \/ \E j \in Q!Jobs : Q!Retry(j)
       \/ Q!Signal
       \/ Q!ClearFailed
       \/ Q!PruneDone
       \/ Q!DrainEnds
       \/ Q!EnterSelect
       \/ Q!Finish
       \/ Q!FinishFails
       \/ Q!WakeUp
       \/ Q!PollTick
       \/ Q!WorkerExits
       \/ Q!Shutdown
       \/ Q!Start
       \/ Q!Tick
    /\ UNCHANGED <<post, spawned, step, publishes, manual, posted, excuses, ends>>

(* The process ends: goroutines and runs vanish where they stand.          *)
ProcessEnds ==
    /\ Q!ProcessEnds
    /\ spawned' = 0
    /\ step' = [r \in Runs |-> "idle"]
    /\ excuses' = IF step["job"] = "record" THEN excuses + 1 ELSE excuses
    /\ lapsed' = {}
    /\ forgotten' = (forgotten \/ spawned > 0)
    /\ UNCHANGED <<post, publishes, manual, posted, silent>>

Next ==
    \/ \E enabled \in BOOLEAN : PublishPost(enabled)
    \/ WithdrawPost
    \/ ToggleShare
    \/ PermanentlyDelete
    \/ \E j \in Q!Jobs : Enqueue(j) \/ JobStarts(j)
    \/ AdminStarts
    \/ Guard
    \/ \E r \in Runs : Prepare(r) \/ Publish(r) \/ Record(r) \/ Note(r) \/ ContextEnds(r)
    \/ JobReturns
    \/ AdminReturns
    \/ QueueStep
    \/ ProcessEnds

Spec == Init /\ [][Next]_vars

(* The goroutines run, the Graph API answers or times out, the worker and  *)
(* its ticker run, and a stopped process is started again.                 *)
Fairness ==
    /\ WF_vars(\E j \in Q!Jobs : Enqueue(j))
    /\ WF_vars(\E j \in Q!Jobs : JobStarts(j))
    /\ WF_vars(Guard)
    /\ WF_vars(Prepare("job"))
    /\ WF_vars(Publish("job"))
    /\ WF_vars(Record("job"))
    /\ WF_vars(Note("job"))
    /\ WF_vars(JobReturns)
    /\ WF_vars(Q!Finish /\ QueueStep)
    /\ WF_vars((Q!DrainEnds \/ Q!EnterSelect) /\ QueueStep)
    /\ WF_vars(Q!PollTick /\ QueueStep)
    /\ WF_vars(Q!Tick /\ QueueStep)
    /\ WF_vars(Q!Start /\ QueueStep)
    /\ WF_vars(proc = "stopping" /\ ProcessEnds)

LiveSpec == Spec /\ Fairness

-----------------------------------------------------------------------------
(* Properties.                                                             *)

(* Every Instagram post beyond the first has a cause outside the job path: *)
(* an administrator's direct run, a lost reply, a failed write of the      *)
(* media id, or a process that ended between the publish and that write.   *)
(* Retries, withdrawals, republications and the error notes that clear the *)
(* media id never add one by themselves.                                   *)
DuplicatesExplained == posted <= 1 + excuses

(* post_publish.go:74: "A retry after a publish that did succeed must not  *)
(* post twice."                                                            *)
PostedOnce == posted <= 1

(* The job has used up its attempts, and the last of them ended with its   *)
(* context, under which the failure could not be noted either.             *)
FailedSilently == silent /\ \E j \in Q!Jobs : state[j] = "failed"

(* A shared post that was published with the setting on reaches Instagram, *)
(* across restarts and failed attempts, or the post says why not, as       *)
(* post_publish.go:53-55 has it; unless it is deleted or no longer shared, *)
(* the process ended before the job was in the database, or the last       *)
(* attempt ran out of its time.                                            *)
CrossPostArrives ==
    spawned > 0 ~>
        \/ posted > 0 \/ igStatus = "error" \/ status = "gone" \/ ~share
        \/ forgotten \/ FailedSilently

-----------------------------------------------------------------------------
(* The proof of DuplicatesExplained, for every number of jobs, attempts,   *)
(* restarts, publications and direct runs.  The argument is a ledger: a    *)
(* direct run is granted its post when it starts (Granted), and the one    *)
(* post that needs no excuse is either recorded on the post or in the      *)
(* hands of the job that is about to record it (Free).  A job that passed  *)
(* its guard has seen no media id, so for it the free post is still to     *)
(* come.                                                                   *)

Granted == IF step["admin"] \in {"prepare", "publish", "note"} THEN 1 ELSE 0

Free == IF step["job"] = "record" \/ igStatus = "published" THEN 1 ELSE 0

LedgerTypes ==
    /\ step \in [Runs -> StepName]
    /\ posted \in Nat
    /\ excuses \in Nat

Ledger ==
    /\ posted + Granted <= excuses + Free
    /\ step["job"] \in {"prepare", "publish", "note"} => posted + Granted <= excuses

(* A run of the job is the handler the live worker is inside.              *)
Coupled == step["job"] # "idle" => worker = "run" /\ proc # "down"

(* The steps that touch neither the runs nor what the ledger counts.       *)
Frame ==
    UNCHANGED <<step, igStatus, posted, excuses>>

LEMMA FrameKeeps ==
    ASSUME LedgerTypes, Ledger, Frame
    PROVE  LedgerTypes' /\ Ledger'
  BY DEF LedgerTypes, Ledger, Frame, Granted, Free

LEMMA NextTypes == LedgerTypes /\ [Next]_vars => LedgerTypes'
  <1> SUFFICES ASSUME LedgerTypes, [Next]_vars
               PROVE  LedgerTypes'
    OBVIOUS
  <1> USE DEF LedgerTypes, Runs, StepName, Goto
  <1>1. CASE \/ \E enabled \in BOOLEAN : PublishPost(enabled)
             \/ WithdrawPost
             \/ ToggleShare
             \/ PermanentlyDelete
             \/ \E j \in Q!Jobs : Enqueue(j)
             \/ QueueStep
             \/ UNCHANGED vars
    BY <1>1 DEF PublishPost, WithdrawPost, ToggleShare, PermanentlyDelete, Enqueue, QueueStep, vars
  <1>2. ASSUME NEW j \in Q!Jobs, JobStarts(j)
        PROVE  LedgerTypes'
    BY <1>2 DEF JobStarts
  <1>3. CASE AdminStarts \/ Guard \/ JobReturns \/ AdminReturns
    BY <1>3 DEF AdminStarts, Guard, GuardStep, JobReturns, AdminReturns
  <1>4. ASSUME NEW r \in Runs,
               Prepare(r) \/ Publish(r) \/ Record(r) \/ Note(r) \/ ContextEnds(r)
        PROVE  LedgerTypes'
    <2>1. CASE Prepare(r)
      BY <2>1 DEF Prepare
    <2>2. CASE Publish(r)
      BY <2>2 DEF Publish
    <2>3. CASE Record(r)
      BY <2>3 DEF Record
    <2>4. CASE Note(r)
      BY <2>4 DEF Note
    <2>5. CASE ContextEnds(r)
      BY <2>5 DEF ContextEnds
    <2>6. QED
      BY <1>4, <2>1, <2>2, <2>3, <2>4, <2>5
  <1>5. CASE ProcessEnds
    BY <1>5 DEF ProcessEnds
  <1> HIDE DEF LedgerTypes
  <1>6. QED
    BY <1>1, <1>2, <1>3, <1>4, <1>5 DEF Next

LEMMA NextCoupled == LedgerTypes /\ Coupled /\ [Next]_vars => Coupled'
  <1> SUFFICES ASSUME LedgerTypes, Coupled, [Next]_vars
               PROVE  Coupled'
    OBVIOUS
  <1> USE DEF LedgerTypes, Coupled, Runs, StepName
  <1>1. CASE \/ \E enabled \in BOOLEAN : PublishPost(enabled)
             \/ WithdrawPost
             \/ ToggleShare
             \/ PermanentlyDelete
             \/ AdminReturns
             \/ AdminStarts
             \/ Guard
             \/ UNCHANGED vars
    BY <1>1 DEF PublishPost, WithdrawPost, ToggleShare, PermanentlyDelete, AdminReturns, AdminStarts,
                Guard, Goto, vars, queue
  <1>2. ASSUME NEW j \in Q!Jobs, Enqueue(j)
        PROVE  Coupled'
    BY <1>2 DEF Enqueue, Q!Enqueue, queue
  <1>3. ASSUME NEW j \in Q!Jobs, JobStarts(j)
        PROVE  Coupled'
    BY <1>3 DEF JobStarts, Q!ClaimDueJob
  <1>4. ASSUME NEW r \in Runs,
               Prepare(r) \/ Publish(r) \/ Record(r) \/ Note(r) \/ ContextEnds(r)
        PROVE  Coupled'
    BY <1>4 DEF Prepare, Publish, Record, Note, ContextEnds, Goto, queue
  <1>5. CASE JobReturns \/ ProcessEnds
    BY <1>5 DEF JobReturns, ProcessEnds, Goto
  <1>6. CASE QueueStep
    <2>1. step' = step
      BY <1>6 DEF QueueStep
    <2>2. ASSUME worker = "run", proc # "down"
          PROVE  worker' = "run" /\ proc' # "down"
      BY <1>6, <2>2
         DEF QueueStep, Q!Retry, Q!Signal, Q!ClearFailed, Q!PruneDone, Q!Remove, Q!DrainEnds,
             Q!EnterSelect, Q!Finish, Q!FinishFails, Q!WakeUp, Q!PollTick, Q!WorkerExits,
             Q!Shutdown, Q!Start, Q!Tick, Q!procVars
    <2>3. QED
      BY <2>1, <2>2
  <1> HIDE DEF LedgerTypes, Coupled
  <1>7. QED
    BY <1>1, <1>2, <1>3, <1>4, <1>5, <1>6 DEF Next

LEMMA NextLedger == LedgerTypes /\ Coupled /\ Ledger /\ [Next]_vars => Ledger'
  <1> SUFFICES ASSUME LedgerTypes, Coupled, Ledger, [Next]_vars
               PROVE  Ledger'
    OBVIOUS
  <1> USE DEF LedgerTypes, Ledger, Runs, StepName, Granted, Free
  <1>1. CASE \/ \E enabled \in BOOLEAN : PublishPost(enabled)
             \/ WithdrawPost
             \/ ToggleShare
             \/ PermanentlyDelete
             \/ \E j \in Q!Jobs : Enqueue(j)
             \/ QueueStep
             \/ UNCHANGED vars
    <2>1. Frame
      BY <1>1 DEF PublishPost, WithdrawPost, ToggleShare, PermanentlyDelete, Enqueue, QueueStep,
                  vars, post, Frame
    <2>2. QED
      BY <2>1, FrameKeeps
  <1>2. ASSUME NEW j \in Q!Jobs, JobStarts(j)
        PROVE  Ledger'
    <2>1. step["job"] = "idle"
      BY <1>2 DEF JobStarts, Q!ClaimDueJob, Coupled
    <2>2. QED
      BY <1>2, <2>1 DEF JobStarts, Goto, post
  <1>3. CASE AdminStarts
    BY <1>3 DEF AdminStarts, Goto, post
  <1>4. CASE Guard
    BY <1>4 DEF Guard, GuardStep, Goto, post
  <1>5. CASE JobReturns
    BY <1>5 DEF JobReturns, Goto, post
  <1>6. CASE AdminReturns
    BY <1>6 DEF AdminReturns, Goto, post
  <1>7. ASSUME NEW r \in Runs, Prepare(r)
        PROVE  Ledger'
    BY <1>7 DEF Prepare, Goto, post
  <1>8. ASSUME NEW r \in Runs, Publish(r)
        PROVE  Ledger'
    BY <1>8 DEF Publish, Goto, post
  <1>9. ASSUME NEW r \in Runs, Record(r)
        PROVE  Ledger'
    BY <1>9 DEF Record, Goto
  <1>10. ASSUME NEW r \in Runs, Note(r)
        PROVE  Ledger'
    BY <1>10 DEF Note, Goto
  <1>11. CASE ProcessEnds
    BY <1>11 DEF ProcessEnds, post
  <1>12. ASSUME NEW r \in Runs, ContextEnds(r)
         PROVE  Ledger'
    BY <1>12 DEF ContextEnds, post
  <1> HIDE DEF LedgerTypes, Ledger
  <1>13. QED
    BY <1>1, <1>2, <1>3, <1>4, <1>5, <1>6, <1>7, <1>8, <1>9, <1>10, <1>11, <1>12 DEF Next

(* Every Instagram post after the first is accounted for by a direct run,  *)
(* a lost reply, a failed write of the media id, or a process that ended   *)
(* before that write.                                                      *)
THEOREM DuplicatesAreExplained == Spec => []DuplicatesExplained
  <1> DEFINE Inv == LedgerTypes /\ Coupled /\ Ledger
  <1>1. Init => Inv
    BY DEF Init, LedgerTypes, Coupled, Ledger, Granted, Free, Runs, StepName
  <1>2. Inv /\ [Next]_vars => Inv'
    BY NextTypes, NextCoupled, NextLedger
  <1>3. Inv => DuplicatesExplained
    BY DEF LedgerTypes, Ledger, Granted, Free, DuplicatesExplained
  <1>4. QED
    BY <1>1, <1>2, <1>3, PTL DEF Spec

=============================================================================
