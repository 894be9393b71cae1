------------------------------- MODULE MCJobs -------------------------------
(***************************************************************************)
(* For TLC: the durable queue, the cross-posts that feed it, and the       *)
(* plugin slots with their settings cache.  They share nothing that these  *)
(* modules keep, and each is checked as if it were alone: focus says which *)
(* one a behaviour is about.                                               *)
(***************************************************************************)
EXTENDS JobQueue, PluginSlots, TLC

CONSTANTS MaxPublishes, LostReplies

VARIABLES
    focus,
    status, share, igStatus, spawned, step, publishes, manual, posted, excuses, lapsed, silent,
    forgotten

Posts == INSTANCE CrossPost WITH MaxRetries <- 0, MaxManual <- 0

postVars == <<status, share, igStatus, spawned, step, publishes, manual, posted, excuses, lapsed,
              silent, forgotten>>

Interchangeable == Permutations(Reqs)

(* The part that is not looked at starts in one state only.                *)
PartsInit ==
    /\ Posts!Init /\ (focus # "cross-posts" => share)
    /\ SlotInit /\ (focus # "slot" => table = {Default})

(* The rules that must always hold: of the queue and of the slots.         *)
KeptNext ==
    /\ UNCHANGED <<focus, postVars>>
    /\ \/ focus = "jobs" /\ Next /\ UNCHANGED slotVars
       \/ focus = "slot" /\ SlotNext /\ UNCHANGED vars

KeptInit == focus \in {"jobs", "slot"} /\ Init /\ PartsInit

KeptSpec == KeptInit /\ [][KeptNext]_<<focus, vars, slotVars, postVars>>

(* What must eventually happen: of jobs of any kind, with a restart and a  *)
(* retry, or of the cross-posts of one post.                               *)
EitherNext ==
    /\ UNCHANGED <<focus, slotVars>>
    /\ \/ focus = "jobs" /\ Next /\ UNCHANGED postVars
       \/ focus = "cross-posts" /\ Posts!Next

EitherInit == focus \in {"jobs", "cross-posts"} /\ Posts!Init /\ PartsInit

EitherSpec ==
    /\ EitherInit
    /\ [][EitherNext]_<<focus, vars, slotVars, postVars>>
    /\ focus = "jobs" => Fairness
    /\ focus = "cross-posts" => Posts!Fairness

(* A post that should be on Instagram gets there or shows an error: the    *)
(* property of CrossPost, for the behaviours of this module.               *)
CrossPostArrives == Posts!CrossPostArrives

=============================================================================
