---------------------------- MODULE DurableJobs ----------------------------
(***************************************************************************)
(* What Point's job store promises to the code that enqueues into it, with *)
(* the worker, the clock, the attempts and the process left out.  A job    *)
(* that was accepted stays pending until a run of its handler has returned *)
(* nil (done) or the attempts are used up (failed); only the operator      *)
(* brings a failed job back or removes it, and only a done or a failed row *)
(* is ever deleted.  JobQueue implements this.                             *)
(***************************************************************************)

CONSTANT Jobs

VARIABLES status,     \* status[j]: where the job stands
          effected    \* jobs whose handler has returned nil at least once

vars == <<status, effected>>

Status == {"absent", "pending", "done", "failed", "gone"}

Init ==
    /\ status = [j \in Jobs |-> "absent"]
    /\ effected = {}

Accept(j) ==
    /\ status[j] = "absent"
    /\ status' = [status EXCEPT ![j] = "pending"]
    /\ UNCHANGED effected

(* The handler's side effect: allowed any number of times while the job is *)
(* pending, which is what "at least once" means.                           *)
Effect(j) ==
    /\ status[j] = "pending"
    /\ effected' = effected \cup {j}
    /\ UNCHANGED status

Complete(j) ==
    /\ status[j] = "pending"
    /\ j \in effected
    /\ status' = [status EXCEPT ![j] = "done"]
    /\ UNCHANGED effected

GiveUp(j) ==
    /\ status[j] = "pending"
    /\ status' = [status EXCEPT ![j] = "failed"]
    /\ UNCHANGED effected

Reissue(j) ==
    /\ status[j] = "failed"
    /\ status' = [status EXCEPT ![j] = "pending"]
    /\ UNCHANGED effected

(* A prune or a clear removes many rows at once, all in the same state.    *)
Discard(S) ==
    /\ \/ \A j \in S : status[j] = "done"
       \/ \A j \in S : status[j] = "failed"
    /\ status' = [j \in Jobs |-> IF j \in S THEN "gone" ELSE status[j]]
    /\ UNCHANGED effected

Next ==
    \/ \E j \in Jobs : \/ Accept(j)
                       \/ Effect(j)
                       \/ Complete(j)
                       \/ GiveUp(j)
                       \/ Reissue(j)
    \/ \E S \in SUBSET Jobs : Discard(S)

Spec == Init /\ [][Next]_vars

=============================================================================
