---------------------------- MODULE OfflineSync ----------------------------
(***************************************************************************)
(* Writes made offline in the admin app: the queue in IndexedDB            *)
(* (frontend/src/utils/mutationQueue.ts) and its replay                    *)
(* (frontend/src/utils/sync.ts).  Tabs share the queue; each has its own   *)
(* isSyncing flag, and syncQueue awaits getQueue between the test of the   *)
(* flag and setting it, so several runs may be under way.                  *)
(*                                                                         *)
(* Operations are numbered in the order of their timestamps.  An operation *)
(* may mention another one by its local id, as the edit of a post that was *)
(* created offline does.                                                   *)
(***************************************************************************)
EXTENDS Naturals, FiniteSets

CONSTANTS
    Tabs,      \* open pages of the admin app
    Runs,      \* bound: <<t, i>>, the i-th call of syncQueue in tab t
    MaxOps,    \* bound: operations ever queued
    MaxDrops,  \* bound: how often the connection is lost
    NoOp

Ops == 1..MaxOps
Tab(r) == r[1]

ASSUME SyncAssumption ==
    /\ {MaxOps, MaxDrops} \subseteq Nat
    /\ NoOp \notin Ops
    /\ \A r \in Runs : Tab(r) \in Tabs

VARIABLES
    online,      \* navigator.onLine
    drops,       \* how often it became false
    writing,     \* tabs with a call of enqueue under way
    queued,      \* how many operations were queued
    status,      \* status[o] in IndexedDB
    mentions,    \* mentions[o]: the operation whose local id o contains
    syncing,     \* syncing[t]: the flag isSyncing of tab t
    pc,          \* pc[r]: where a call of syncQueue stands
    todo,        \* todo[r]: operations of its list it has not dealt with
    current,     \* current[r]: the one it is sending
    idMap,       \* idMap[r]: operations whose real id it knows
    applied,     \* history: operations the server applied
    doubted,     \* history: those it applied last with the reply lost
    repeated,    \* history: those it applied again without such a doubt
    overtaken,   \* history: operations a younger one was applied before
    overlapped,  \* history: two runs worked on the queue at the same time
    excused      \* history: operations some event left in the queue

network == <<online, drops>>
store == <<writing, queued, status, mentions>>
local == <<syncing, pc, todo, current, idMap>>
server == <<applied, doubted, repeated, overtaken>>
history == <<server, overlapped, excused>>
vars == <<network, store, local, history>>

Waiting == {o \in Ops : status[o] \in {"pending", "failed"}}
Pending == {o \in Ops : status[o] = "pending"}

(* A run that has its list.                                                *)
Working(r) == pc[r] \in {"loop", "send", "delete", "fail"}

TypeOK ==
    /\ online \in BOOLEAN
    /\ drops \in Nat
    /\ writing \subseteq Tabs
    /\ queued \in 0..MaxOps
    /\ status \in [Ops -> {"none", "pending", "syncing", "failed", "deleted"}]
    /\ \A o \in Ops : status[o] = "none" <=> o > queued
    /\ mentions \in [Ops -> Ops \cup {NoOp}]
    /\ syncing \in [Tabs -> BOOLEAN]
    /\ pc \in [Runs -> {"idle", "read", "loop", "send", "delete", "fail"}]
    /\ todo \in [Runs -> SUBSET Ops]
    /\ current \in [Runs -> Ops \cup {NoOp}]
    /\ \A r \in Runs : pc[r] \in {"send", "delete", "fail"} => current[r] \in todo[r]
    /\ idMap \in [Runs -> SUBSET Ops]
    /\ {applied, doubted, repeated, overtaken, excused} \subseteq SUBSET Ops
    /\ overlapped \in BOOLEAN

Init ==
    /\ online \in BOOLEAN
    /\ drops = 0
    /\ writing = {}
    /\ queued = 0
    /\ status = [o \in Ops |-> "none"]
    /\ mentions = [o \in Ops |-> NoOp]
    /\ syncing = [t \in Tabs |-> FALSE]
    /\ pc = [r \in Runs |-> "idle"]
    /\ todo = [r \in Runs |-> {}]
    /\ current = [r \in Runs |-> NoOp]
    /\ idMap = [r \in Runs |-> {}]
    /\ applied = {}
    /\ doubted = {}
    /\ repeated = {}
    /\ overtaken = {}
    /\ overlapped = FALSE
    /\ excused = {}

-----------------------------------------------------------------------------
(* The browser and the user.                                               *)

(* api.post, put, patch, delete or upload finds that there is no           *)
(* connection.                                                             *)
Request(t) ==
    /\ ~online
    /\ t \notin writing
    /\ queued < MaxOps
    /\ writing' = writing \cup {t}
    /\ UNCHANGED <<network, queued, status, mentions, local, history>>

(* enqueue's transaction completes, with or without a connection by then.  *)
Enqueue(t, m) ==
    /\ t \in writing
    /\ queued < MaxOps
    /\ m \in 1..queued \cup {NoOp}
    /\ writing' = writing \ {t}
    /\ queued' = queued + 1
    /\ status' = [status EXCEPT ![queued + 1] = "pending"]
    /\ mentions' = [mentions EXCEPT ![queued + 1] = m]
    /\ excused' = IF online THEN excused \cup {queued + 1} ELSE excused
    /\ UNCHANGED <<network, local, server, overlapped>>

GoOffline ==
    /\ online
    /\ drops < MaxDrops
    /\ online' = FALSE
    /\ drops' = drops + 1
    /\ UNCHANGED <<store, local, history>>

(* The calls of syncQueue that pass its first line, one in each tab of T.  *)
Called(T, before) ==
    \E R \in SUBSET {r \in Runs : before[r] = "idle"} :
        /\ \A t \in Tabs : Cardinality({r \in R : Tab(r) = t}) = IF t \in T THEN 1 ELSE 0
        /\ pc' = [r \in Runs |-> IF r \in R THEN "read" ELSE before[r]]

(* The online event.  A tab that is syncing ignores it; if all do, what is *)
(* pending has to wait for another event.                                  *)
GoOnline ==
    /\ ~online
    /\ online' = TRUE
    /\ Called({t \in Tabs : ~syncing[t]}, pc)
    /\ excused' = IF \A t \in Tabs : syncing[t] THEN excused \cup Pending ELSE excused
    /\ UNCHANGED <<drops, store, syncing, todo, current, idMap, server, overlapped>>

(* The pill, the button and the first line of syncQueue.                   *)
SyncNow(t) ==
    /\ online
    /\ ~syncing[t]
    /\ Called({t}, pc)
    /\ UNCHANGED <<network, store, syncing, todo, current, idMap, history>>

(* resetFailedOps, one transaction; it starts no run.                      *)
ResetFailed ==
    /\ \E o \in Ops : status[o] = "failed"
    /\ status' = [o \in Ops |-> IF status[o] = "failed" THEN "pending" ELSE status[o]]
    /\ excused' = excused \cup {o \in Ops : status[o] = "failed"}
    /\ UNCHANGED <<network, writing, queued, mentions, local, server, overlapped>>

Mine(t) == {r \in Runs : Tab(r) = t}

(* The page is loaded again: its runs end where they are, and mount calls  *)
(* syncQueue when there is a connection.                                   *)
Reload(t) ==
    /\ t \in writing \/ \E r \in Mine(t) : pc[r] # "idle"
    /\ writing' = writing \ {t}
    /\ syncing' = [syncing EXCEPT ![t] = FALSE]
    /\ todo' = [r \in Runs |-> IF Tab(r) = t THEN {} ELSE todo[r]]
    /\ current' = [r \in Runs |-> IF Tab(r) = t THEN NoOp ELSE current[r]]
    /\ idMap' = [r \in Runs |-> IF Tab(r) = t THEN {} ELSE idMap[r]]
    /\ Called(IF online THEN {t} ELSE {},
              [r \in Runs |-> IF Tab(r) = t THEN "idle" ELSE pc[r]])
    /\ UNCHANGED <<network, queued, status, mentions, history>>

-----------------------------------------------------------------------------
(* syncQueue.                                                              *)

Leave(r) ==
    /\ pc' = [pc EXCEPT ![r] = "idle"]
    /\ todo' = [todo EXCEPT ![r] = {}]
    /\ current' = [current EXCEPT ![r] = NoOp]
    /\ idMap' = [idMap EXCEPT ![r] = {}]

(* Mutant: the list also takes what another run is sending.                *)
ListedAll == {o \in Ops : status[o] \in {"pending", "failed", "syncing"}}

Listed == Waiting

(* getQueue has answered.                                                  *)
Read(r) ==
    /\ pc[r] = "read"
    /\ IF Listed = {}
          THEN Leave(r) /\ UNCHANGED <<syncing, overlapped>>
          ELSE /\ pc' = [pc EXCEPT ![r] = "loop"]
               /\ todo' = [todo EXCEPT ![r] = Listed]
               /\ syncing' = [syncing EXCEPT ![Tab(r)] = TRUE]
               /\ overlapped' = (overlapped \/ \E s \in Runs : Working(s))
               /\ UNCHANGED <<current, idMap>>
    /\ UNCHANGED <<network, store, server, excused>>

(* updateOpStatus, which does nothing for an operation that is gone.       *)
SetStatus(o, s) ==
    status' = [status EXCEPT ![o] = IF @ = "deleted" THEN @ ELSE s]

(* Mutant: an operation leaves the list when it is marked.                 *)
MarkTakes(r, o) ==
    /\ pc[r] = "loop"
    /\ o \in todo[r]
    /\ \A p \in todo[r] : o <= p
    /\ SetStatus(o, "syncing")
    /\ todo' = [todo EXCEPT ![r] = @ \ {o}]
    /\ current' = [current EXCEPT ![r] = o]
    /\ pc' = [pc EXCEPT ![r] = "send"]
    /\ UNCHANGED <<network, writing, queued, mentions, syncing, idMap, history>>

(* The oldest of the list is marked; the run sends it, there or not.       *)
Mark(r, o) ==
    /\ pc[r] = "loop"
    /\ o \in todo[r]
    /\ \A p \in todo[r] : o <= p
    /\ SetStatus(o, "syncing")
    /\ current' = [current EXCEPT ![r] = o]
    /\ pc' = [pc EXCEPT ![r] = "send"]
    /\ UNCHANGED <<network, writing, queued, mentions, syncing, todo, idMap, history>>

(* resolveUrl and resolveTempIds: what is left of a local id, the server   *)
(* does not know.                                                          *)
Resolved(r, o) == mentions[o] \in idMap[r] \cup {NoOp}

Older(o) == {p \in Ops : p < o /\ status[p] \in {"pending", "syncing", "failed"}} \ applied

(* The server applies o, and its reply arrives or is lost.                 *)
Apply(o, arrives) ==
    /\ applied' = applied \cup {o}
    /\ doubted' = IF arrives THEN doubted \ {o} ELSE doubted \cup {o}
    /\ repeated' = IF o \in applied \ doubted THEN repeated \cup {o} ELSE repeated
    /\ overtaken' = overtaken \cup Older(o)

(* api.request: the operation is applied and answered, refused or not      *)
(* delivered, or applied and the answer lost.                              *)
Send(r) ==
    LET o == current[r] IN
    /\ pc[r] = "send"
    /\ \/ /\ online
          /\ Resolved(r, o)
          /\ Apply(o, TRUE)
          /\ pc' = [pc EXCEPT ![r] = "delete"]
          /\ idMap' = [idMap EXCEPT ![r] = @ \cup {o}]
       \/ /\ pc' = [pc EXCEPT ![r] = "fail"]
          /\ UNCHANGED <<idMap, server>>
       \/ /\ Resolved(r, o)
          /\ Apply(o, FALSE)
          /\ pc' = [pc EXCEPT ![r] = "fail"]
          /\ UNCHANGED idMap
    /\ UNCHANGED <<network, store, syncing, todo, current, overlapped, excused>>

(* deleteOp and the next turn of the loop.                                 *)
Delete(r) ==
    /\ pc[r] = "delete"
    /\ status' = [status EXCEPT ![current[r]] = "deleted"]
    /\ todo' = [todo EXCEPT ![r] = @ \ {current[r]}]
    /\ current' = [current EXCEPT ![r] = NoOp]
    /\ pc' = [pc EXCEPT ![r] = "loop"]
    /\ UNCHANGED <<network, writing, queued, mentions, syncing, idMap, history>>

(* Mutant: a failure does not halt the run.                                *)
FailGoesOn(r) ==
    /\ pc[r] = "fail"
    /\ SetStatus(current[r], "failed")
    /\ todo' = [todo EXCEPT ![r] = @ \ {current[r]}]
    /\ current' = [current EXCEPT ![r] = NoOp]
    /\ pc' = [pc EXCEPT ![r] = "loop"]
    /\ UNCHANGED <<network, writing, queued, mentions, syncing, idMap, history>>

(* The operation is marked as failed and the run halts.                    *)
Fail(r) ==
    /\ pc[r] = "fail"
    /\ SetStatus(current[r], "failed")
    /\ syncing' = [syncing EXCEPT ![Tab(r)] = FALSE]
    /\ excused' = excused \cup todo[r]
    /\ Leave(r)
    /\ UNCHANGED <<network, writing, queued, mentions, server, overlapped>>

(* finally, after the last operation.                                      *)
Finish(r) ==
    /\ pc[r] = "loop"
    /\ todo[r] = {}
    /\ syncing' = [syncing EXCEPT ![Tab(r)] = FALSE]
    /\ Leave(r)
    /\ UNCHANGED <<network, store, history>>

-----------------------------------------------------------------------------

Step(r) ==
    \/ Read(r)
    \/ \E o \in Ops : Mark(r, o)
    \/ Send(r)
    \/ Delete(r)
    \/ Fail(r)
    \/ Finish(r)

Next ==
    \/ \E t \in Tabs : Request(t) \/ \E m \in Ops \cup {NoOp} : Enqueue(t, m)
    \/ GoOffline
    \/ GoOnline
    \/ \E t \in Tabs : SyncNow(t) \/ Reload(t)
    \/ ResetFailed
    \/ \E r \in Runs : Step(r)

Spec == Init /\ [][Next]_vars

-----------------------------------------------------------------------------
(* Properties.                                                             *)

(* An operation whose run ended with a reload while it was being sent.     *)
Stuck == {o \in Ops : status[o] = "syncing" /\ \A r \in Runs : Working(r) => current[r] # o}

(* As long as no two runs overlap, the server applies an operation twice   *)
(* only when the reply to the first request was lost: a failed run, a      *)
(* reload at any point and a later run repeat nothing by themselves.       *)
AppliedOnce == ~overlapped => repeated = {}

(* As long as no two runs overlap, no operation is applied before an older *)
(* one, unless the older one is stuck in syncing after a reload, where no  *)
(* later run looks at it again.                                            *)
InOrder == ~overlapped => overtaken \subseteq Stuck

(* docs/plugins/offline-sync.md: the buffer is synced "whenever the        *)
(* browser comes back online (or immediately, if already online at         *)
(* mount)".  With a connection and no run under way, an operation is only  *)
(* pending because a run failed, because the online event found every tab  *)
(* syncing or came while the operation was being queued, or because the    *)
(* user reset it and has not pressed Sync Now.                             *)
NothingForgotten ==
    (online /\ \A r \in Runs : pc[r] = "idle") => Pending \subseteq excused

(* mutationQueue.ts and sync.ts: what is written offline gets to the       *)
(* server once and in order, and nothing waits without a reason.           *)
QueueKept == AppliedOnce /\ InOrder /\ NothingForgotten

=============================================================================
