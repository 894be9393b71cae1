----------------------------- MODULE SystemDesk -----------------------------
(***************************************************************************)
(* The system page (pages/light/SystemPage.ts): what it reads at once when *)
(* it is mounted, the job queue with its two actions, and the two buttons  *)
(* that start something long.  The queue runs on beside it: here a job is  *)
(* only in a state, and the worker moves it.                               *)
(***************************************************************************)
EXTENDS Naturals, Sequences, FiniteSets, SequencesExt

CONSTANTS
    Jobs,           \* the jobs there are
    MaxSystemActs   \* bound: what the owner does, the jobs' moves, and failures

VARIABLES
    queue,          \* the server: each job's state
    systemPhase,    \* "loading", "ready" or "error"
    jobList,        \* state.jobs: each job's state as read, or Unread
    jobReads,       \* requests of the list under way: what they have read
    orders,         \* requests to retry or to clear under way
    clearing,       \* the dialog: the failed jobs on the screen when it opened
    longRuns,       \* long requests under way: each with how often it was begun
    results,        \* what they have told
    systemActs,
    (* history *)
    spared,         \* failed jobs that were cleared without being on the screen
    drifts          \* why the list may differ from the queue

systemVars == <<queue, systemPhase, jobList, jobReads, orders, clearing, longRuns, results,
                systemActs, spared, drifts>>

State == {"none", "queued", "running", "failed", "done"}
List == [Jobs -> State]
Unread == [j \in Jobs |-> "?"]
Long == {"auditLinks", "updateCoords"}
Failed(list) == {j \in Jobs : list[j] = "failed"}
NoDialog == [open |-> FALSE, named |-> {}]

TypeOK ==
    /\ queue \in List /\ jobList \in List \cup {Unread}
    /\ systemPhase \in {"loading", "ready", "error"}
    /\ \A r \in ToSet(jobReads) : r.list \in List \cup {Unread}
    /\ \A o \in ToSet(orders) : o.kind \in {"retry", "clear"} /\ o.jobs \subseteq Jobs
    /\ clearing.open \in BOOLEAN /\ clearing.named \subseteq Jobs
    /\ longRuns \in [Long -> 0..MaxSystemActs]
    /\ results \in [Long -> {"none", "old", "new"}]
    /\ systemActs \in 0..MaxSystemActs
    /\ spared \subseteq Jobs /\ drifts \subseteq {"worker", "outrun", "unread", "lost"}

Act == systemActs < MaxSystemActs /\ systemActs' = systemActs + 1
Page == <<systemPhase, jobList, clearing, longRuns, results>>

(* Drawn once the five requests of _load have come.                        *)
Init ==
    /\ queue \in {q \in List : \A j \in Jobs : q[j] \in {"queued", "failed"}}
    /\ systemPhase = "loading" /\ jobList = Unread
    /\ jobReads = <<[list |-> Unread]>>
    /\ orders = <<>> /\ clearing = NoDialog
    /\ longRuns = [l \in Long |-> 0] /\ results = [l \in Long |-> "none"]
    /\ systemActs = 0 /\ spared = {} /\ drifts = {}

-----------------------------------------------------------------------------
(* The server.                                                             *)

WorkerMoves(j) ==
    /\ Act
    /\ \/ queue[j] = "queued" /\ queue' = [queue EXCEPT ![j] = "running"]
       \/ \E s \in {"failed", "done", "queued"} :
            queue[j] = "running" /\ queue' = [queue EXCEPT ![j] = s]
    /\ drifts' = drifts \cup {"worker"}
    /\ UNCHANGED <<Page, jobReads, orders, spared>>

ReadJobs(i) ==
    /\ jobReads[i].list = Unread /\ jobReads' = [jobReads EXCEPT ![i].list = queue]
    /\ UNCHANGED <<queue, Page, orders, systemActs, spared, drifts>>

(* A job that has not failed is not queued again.                          *)
ServeRetry(i) ==
    /\ orders[i].kind = "retry" /\ orders[i].reply = "none"
    /\ LET failed == orders[i].jobs \cap Failed(queue)
       IN  /\ orders' = [orders EXCEPT ![i].reply = IF failed = {} THEN "error" ELSE "ok"]
           /\ queue' = [j \in Jobs |-> IF j \in failed THEN "queued" ELSE queue[j]]
    /\ UNCHANGED <<Page, jobReads, systemActs, spared, drifts>>

(* Mutant: those that wait for another attempt are cleared too.            *)
ToClearWaiting(list) == {j \in Jobs : list[j] \in {"failed", "queued"}}

(* ClearFailed takes every job that has failed by now.                     *)
ToClear(list) == Failed(list)

ServeClear(i) ==
    /\ orders[i].kind = "clear" /\ orders[i].reply = "none"
    /\ orders' = [orders EXCEPT ![i].reply = "ok"]
    /\ spared' = spared \cup (ToClear(queue) \ orders[i].jobs)
    /\ queue' = [j \in Jobs |-> IF j \in ToClear(queue) THEN "none" ELSE queue[j]]
    /\ UNCHANGED <<Page, jobReads, systemActs, drifts>>

(* A request fails, or its answer is lost.                                 *)
OrderFails(i) ==
    /\ Act /\ orders[i].reply \in {"none", "ok"}
    /\ orders' = [orders EXCEPT ![i].reply = "error"]
    /\ UNCHANGED <<queue, Page, jobReads, spared, drifts>>

-----------------------------------------------------------------------------
(* The page.                                                               *)

(* An answer while another one tells of something else: the later stays.   *)
Crossing(i) ==
    IF \E k \in DOMAIN jobReads \ {i} : jobReads[k].list \notin {Unread, jobReads[i].list}
    THEN {"outrun"} ELSE {}

(* The list came, or did not: then it stays as it was, or is not drawn.    *)
JobsCome(i) ==
    LET r == jobReads[i]
    IN  /\ systemPhase # "error"
        /\ jobReads' = RemoveAt(jobReads, i)
        /\ systemPhase' = "ready"
        /\ IF r.list # Unread
           THEN jobList' = r.list /\ drifts' = drifts \cup Crossing(i) /\ UNCHANGED systemActs
           ELSE jobList' = jobList /\ drifts' = drifts \cup {"unread"} /\ Act
        /\ UNCHANGED <<queue, orders, clearing, longRuns, results, spared>>

(* Migrations, the disk or the photo library fail: there is only an error. *)
LoadFails ==
    /\ Act /\ systemPhase = "loading" /\ systemPhase' = "error" /\ jobReads' = <<>>
    /\ UNCHANGED <<queue, jobList, orders, clearing, longRuns, results, spared, drifts>>

Listed == systemPhase = "ready" /\ jobList # Unread

HandleRetryJob(j) ==
    /\ Act /\ Listed /\ ~clearing.open /\ jobList[j] = "failed"
    /\ orders' = Append(orders, [kind |-> "retry", jobs |-> {j}, reply |-> "none"])
    /\ UNCHANGED <<queue, Page, jobReads, spared, drifts>>

ConfirmClearFailedJobs ==
    /\ Act /\ Listed /\ ~clearing.open /\ Failed(jobList) # {}
    /\ clearing' = [open |-> TRUE, named |-> Failed(jobList)]
    /\ UNCHANGED <<queue, systemPhase, jobList, longRuns, results, jobReads, orders, spared,
                   drifts>>

Confirm ==
    /\ clearing.open /\ clearing' = NoDialog
    /\ orders' = Append(orders, [kind |-> "clear", jobs |-> clearing.named, reply |-> "none"])
    /\ UNCHANGED <<queue, systemPhase, jobList, longRuns, results, jobReads, systemActs, spared,
                   drifts>>

Cancel ==
    /\ clearing.open /\ clearing' = NoDialog
    /\ UNCHANGED <<queue, systemPhase, jobList, longRuns, results, jobReads, orders, systemActs,
                   spared, drifts>>

(* Mutant: the list is not read again after a retry.                       *)
ReadsAgainClears(o) == o.kind = "clear"

(* A retry that was refused leaves the list, a clearing never.             *)
ReadsAgain(o) == o.kind = "clear" \/ o.reply = "ok"

OrderDone(i) ==
    LET o == orders[i]
    IN  /\ o.reply # "none" /\ orders' = RemoveAt(orders, i)
        /\ IF ReadsAgain(o)
           THEN /\ jobReads' = Append(jobReads, [list |-> Unread])
                /\ drifts' = drifts
           ELSE /\ jobReads' = jobReads
                /\ drifts' = IF o.reply = "ok" THEN drifts ELSE drifts \cup {"lost"}
        /\ UNCHANGED <<queue, Page, systemActs, spared>>

(* The links' last report stays while they are scanned; the coordinates'   *)
(* goes.  The button is disabled meanwhile.                                *)
Start(l) ==
    /\ Act /\ systemPhase = "ready" /\ ~clearing.open /\ longRuns[l] = 0
    /\ longRuns' = [longRuns EXCEPT ![l] = @ + 1]
    /\ results' = [results EXCEPT ![l] =
                    IF l = "updateCoords" THEN "none" ELSE IF @ = "new" THEN "old" ELSE @]
    /\ UNCHANGED <<queue, systemPhase, jobList, clearing, jobReads, orders, spared, drifts>>

Ends(l, well) ==
    /\ longRuns[l] > 0 /\ longRuns' = [longRuns EXCEPT ![l] = @ - 1]
    /\ results' = IF well THEN [results EXCEPT ![l] = "new"] ELSE results
    /\ UNCHANGED <<queue, systemPhase, jobList, clearing, jobReads, orders, systemActs, spared,
                   drifts>>

Next ==
    \/ \E j \in Jobs : WorkerMoves(j) \/ HandleRetryJob(j)
    \/ \E i \in DOMAIN jobReads : ReadJobs(i) \/ JobsCome(i)
    \/ \E i \in DOMAIN orders : ServeRetry(i) \/ ServeClear(i) \/ OrderFails(i) \/ OrderDone(i)
    \/ LoadFails \/ ConfirmClearFailedJobs \/ Confirm \/ Cancel
    \/ \E l \in Long : Start(l) \/ (\E well \in BOOLEAN : Ends(l, well))

Spec == Init /\ [][Next]_systemVars

-----------------------------------------------------------------------------
(* Properties.                                                             *)

(* With no request under way the queue on the page is the server's: every  *)
(* action reads it again.  But for jobs that have moved by themselves, for *)
(* answers out of order, one that failed, and a retry's that was lost.     *)
ListIsQueue ==
    (systemPhase = "ready" /\ jobReads = <<>> /\ orders = <<>>)
    => jobList = queue \/ drifts \cap {"worker", "outrun", "unread", "lost"} # {}

(* What a clearing takes is what the dialog has counted, but for jobs that *)
(* failed since the list was read.                                         *)
ClearsTheCounted == spared # {} => "worker" \in drifts

=============================================================================
