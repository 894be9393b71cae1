---------------------------- MODULE PagesProofs ----------------------------
(***************************************************************************)
(* Proofs about components that the pages' run puts together: OfflineSync, *)
(* for any number of tabs, calls of syncQueue, operations and losses of    *)
(* the connection, SwipePager, for any number of pages, loads and acts,    *)
(* and MediaBrowser, for any number of files, listings and uses.           *)
(*                                                                         *)
(* QueueKept is no invariant by itself.  While no runs overlap (Alone),    *)
(* there is one run at most; what it has in its list and does not send is  *)
(* waiting in the queue, nothing older waits outside of its list, and what *)
(* was applied without doubt is never waiting again.  Heard holds with any *)
(* overlaps: whatever is pending has a run that has read it or is to read. *)
(*                                                                         *)
(* Nor is PagerKept.  Before the pager is quiet, a grid that is not in its *)
(* place is under a finger, or its page is still to come (Pulled); a ghost *)
(* is held for a page that is still to come (Held); while a slide is under *)
(* way the lock is on and nothing is loaded (Locking); and the ghosts,     *)
(* there or to come, are the neighbours of the page that the listeners     *)
(* were made for (Aligned).                                                *)
(*                                                                         *)
(* Nor is MediaKept, which speaks of a library at rest and of a new post.  *)
(* Either the listing that was asked for last is still to be answered, or  *)
(* it was and what else is under way is overtaken (LastListing); a file    *)
(* that is listed or held under its new name has it (Renamed); and what is *)
(* selected is held unless a long press selected it (Picking).             *)
(***************************************************************************)
EXTENDS OfflineSync, SwipePager, MediaBrowser, FiniteSetTheorems, SequenceTheorems, TLAPS

Sending(r) == pc[r] \in {"send", "delete", "fail"}

(* A run's list.                                                           *)
Lists ==
    \A r \in Runs :
        /\ ~Working(r) => todo[r] = {}
        /\ ~Sending(r) => current[r] = NoOp
        /\ \A o \in todo[r] : o <= queued /\ (Sending(r) => current[r] <= o)

OneRun == \A r, s \in Runs : Working(r) /\ Working(s) => r = s

(* What a run sends is marked, what else it has in its list waits.         *)
Marked ==
    \A r \in Runs : \A o \in todo[r] :
        IF o = current[r] THEN status[o] = "syncing" ELSE o \in Waiting

(* What was applied without doubt is not sent again.                       *)
Sure ==
    \A o \in applied \ doubted :
        /\ status[o] \in {"syncing", "deleted"}
        /\ \A r \in Runs : pc[r] \in {"send", "fail"} => current[r] # o

(* Nothing older than an operation of a list waits outside of the list.    *)
Whole == \A r \in Runs : \A o \in todo[r], p \in Waiting : p < o => p \in todo[r]

Alone == OneRun /\ Marked /\ Sure /\ Whole /\ repeated = {} /\ overtaken \subseteq Stuck

(* With a connection, what is pending is in a list or about to be read.    *)
Heard ==
    online => \A p \in Pending \ excused : \E r \in Runs : pc[r] = "read" \/ p \in todo[r]

IInv == TypeOK /\ Lists /\ (~overlapped => Alone) /\ Heard

-----------------------------------------------------------------------------
(* The operators.                                                          *)

LEMMA NoOpIsNone == NoOp \notin Ops /\ Ops \subseteq Nat
  BY SyncAssumption DEF Ops

(* What a call of syncQueue in some tabs does to the runs' places.         *)
LEMMA CalledRuns ==
    ASSUME NEW T \in SUBSET Tabs,
           NEW before \in [Runs -> {"idle", "read", "loop", "send", "delete", "fail"}],
           Called(T, before)
    PROVE  /\ pc' \in [Runs -> {"idle", "read", "loop", "send", "delete", "fail"}]
           /\ \A r \in Runs : \/ pc'[r] = before[r]
                              \/ before[r] = "idle" /\ pc'[r] = "read"
           /\ T # {} => \E r \in Runs : pc'[r] = "read"
<1>1. PICK R \in SUBSET {r \in Runs : before[r] = "idle"} :
        /\ \A t \in Tabs : Cardinality({r \in R : Tab(r) = t}) = IF t \in T THEN 1 ELSE 0
        /\ pc' = [r \in Runs |-> IF r \in R THEN "read" ELSE before[r]]
  BY DEF Called
<1>2. ASSUME NEW t \in T
      PROVE  \E r \in Runs : pc'[r] = "read"
  <2>1. Cardinality({r \in R : Tab(r) = t}) = 1
    BY <1>1
  <2>2. {r \in R : Tab(r) = t} # {}
    BY <2>1, FS_EmptySet
  <2> QED BY <1>1, <2>2
<1> QED BY <1>1, <1>2

(* What a marking does to the operations.                                  *)
LEMMA StatusSet ==
    ASSUME TypeOK, NEW o \in Ops, o <= queued, NEW s \in {"syncing", "failed"}, SetStatus(o, s)
    PROVE  /\ status' \in [Ops -> {"none", "pending", "syncing", "failed", "deleted"}]
           /\ \A p \in Ops : p # o => status'[p] = status[p]
           /\ status'[o] = IF status[o] = "deleted" THEN "deleted" ELSE s
           /\ \A p \in Ops : status'[p] = "none" <=> p > queued
<1>1. status[o] # "none"
  BY NoOpIsNone DEF TypeOK
<1> QED BY <1>1 DEF TypeOK, SetStatus

-----------------------------------------------------------------------------
(* Types, and what a run's list is.                                        *)

Base == TypeOK /\ Lists

LEMMA BaseStarts == Init => Base
<1>1. Init => TypeOK
  <2> SUFFICES ASSUME Init PROVE TypeOK
    OBVIOUS
  <2>1. \A o \in Ops : status[o] = "none" /\ o > queued
    BY SyncAssumption DEF Init, Ops
  <2>2. queued \in 0..MaxOps /\ drops \in Nat
    BY SyncAssumption DEF Init
  <2> QED BY <2>1, <2>2 DEF Init, TypeOK
<1>2. Init => Lists
  BY DEF Init, Lists, Working, Sending
<1> QED BY <1>1, <1>2 DEF Base

LEMMA RequestBase ==
    ASSUME Base, NEW t \in Tabs, Request(t)
    PROVE  Base'
  BY DEF Base, TypeOK, Lists, Request, network, local, history, server, Working, Sending

LEMMA EnqueueBase ==
    ASSUME Base, NEW t \in Tabs, NEW m \in Ops \cup {NoOp}, Enqueue(t, m)
    PROVE  Base'
<1> USE DEF Base, Enqueue, network, local, server
<1>1. queued + 1 \in Ops /\ queued \in Nat /\ queued + 1 \in 0..MaxOps
  BY SyncAssumption DEF TypeOK, Ops
<1>2. TypeOK'
  <2>1. status' \in [Ops -> {"none", "pending", "syncing", "failed", "deleted"}]
    BY <1>1 DEF TypeOK
  <2>2. \A o \in Ops : status'[o] = "none" <=> o > queued'
    BY <1>1, NoOpIsNone DEF TypeOK
  <2>3. mentions' \in [Ops -> Ops \cup {NoOp}] /\ excused' \subseteq Ops
    BY <1>1 DEF TypeOK
  <2> QED BY <1>1, <2>1, <2>2, <2>3 DEF TypeOK
<1>3. \A r \in Runs : \A o \in todo[r] : o <= queued => o <= queued'
  BY <1>1, NoOpIsNone DEF TypeOK
<1>4. Lists'
  BY <1>3 DEF Lists, Working, Sending
<1> QED BY <1>2, <1>4

LEMMA GoOfflineBase ==
    ASSUME Base, GoOffline
    PROVE  Base'
<1>1. /\ online' = FALSE /\ drops' = drops + 1
      /\ UNCHANGED <<writing, queued, status, mentions, syncing, pc, todo, current, idMap,
                     applied, doubted, repeated, overtaken, overlapped, excused>>
  BY DEF GoOffline, store, local, history, server
<1>2. TypeOK'
  <2>1. online' \in BOOLEAN
    BY <1>1
  <2>2. drops' \in Nat
    BY <1>1 DEF Base, TypeOK
  <2> QED BY <1>1, <2>1, <2>2 DEF Base, TypeOK
<1>3. Lists'
  BY <1>1 DEF Base, Lists, Working, Sending
<1> QED BY <1>2, <1>3 DEF Base

LEMMA GoOnlineBase ==
    ASSUME Base, GoOnline
    PROVE  Base'
<1> USE DEF Base, GoOnline, store, server
<1>1. /\ pc' \in [Runs -> {"idle", "read", "loop", "send", "delete", "fail"}]
      /\ \A r \in Runs : pc'[r] = pc[r] \/ (pc[r] = "idle" /\ pc'[r] = "read")
  BY CalledRuns DEF TypeOK
<1>2. TypeOK'
  BY <1>1 DEF TypeOK, Pending
<1>3. Lists'
  BY <1>1 DEF Lists, Working, Sending
<1> QED BY <1>2, <1>3

LEMMA SyncNowBase ==
    ASSUME Base, NEW t \in Tabs, SyncNow(t)
    PROVE  Base'
<1> USE DEF Base, SyncNow, network, store, history, server
<1>1. /\ pc' \in [Runs -> {"idle", "read", "loop", "send", "delete", "fail"}]
      /\ \A r \in Runs : pc'[r] = pc[r] \/ (pc[r] = "idle" /\ pc'[r] = "read")
  BY CalledRuns DEF TypeOK
<1>2. TypeOK'
  BY <1>1 DEF TypeOK
<1>3. Lists'
  BY <1>1 DEF Lists, Working, Sending
<1> QED BY <1>2, <1>3

LEMMA ResetFailedBase ==
    ASSUME Base, ResetFailed
    PROVE  Base'
<1> USE DEF Base, ResetFailed, network, local, server
<1>1. TypeOK'
  BY DEF TypeOK
<1>2. Lists'
  BY DEF Lists, Working, Sending
<1> QED BY <1>1, <1>2

(* The runs of a tab that is loaded again are gone.                        *)
LEMMA ReloadRuns ==
    ASSUME TypeOK, NEW t \in Tabs, Reload(t)
    PROVE  /\ pc' \in [Runs -> {"idle", "read", "loop", "send", "delete", "fail"}]
           /\ online => \E r \in Runs : pc'[r] = "read"
           /\ \A r \in Runs :
                IF Tab(r) = t
                THEN /\ pc'[r] \in {"idle", "read"} /\ todo'[r] = {} /\ current'[r] = NoOp
                     /\ idMap'[r] = {}
                ELSE /\ pc'[r] = pc[r] \/ (pc[r] = "idle" /\ pc'[r] = "read")
                     /\ todo'[r] = todo[r] /\ current'[r] = current[r] /\ idMap'[r] = idMap[r]
<1> DEFINE before == [r \in Runs |-> IF Tab(r) = t THEN "idle" ELSE pc[r]]
           T == IF online THEN {t} ELSE {}
<1>1. before \in [Runs -> {"idle", "read", "loop", "send", "delete", "fail"}]
  BY DEF TypeOK
<1>2. T \in SUBSET Tabs /\ Called(T, before)
  BY DEF Reload
<1> HIDE DEF before, T
<1>3. /\ pc' \in [Runs -> {"idle", "read", "loop", "send", "delete", "fail"}]
      /\ \A r \in Runs : pc'[r] = before[r] \/ (before[r] = "idle" /\ pc'[r] = "read")
      /\ T # {} => \E r \in Runs : pc'[r] = "read"
  BY <1>1, <1>2, CalledRuns
<1>4. \A r \in Runs :
        /\ todo'[r] = IF Tab(r) = t THEN {} ELSE todo[r]
        /\ current'[r] = IF Tab(r) = t THEN NoOp ELSE current[r]
        /\ idMap'[r] = IF Tab(r) = t THEN {} ELSE idMap[r]
  BY DEF Reload
<1> QED BY <1>3, <1>4 DEF before, T

LEMMA ReloadBase ==
    ASSUME Base, NEW t \in Tabs, Reload(t)
    PROVE  Base'
<1> USE DEF Base
<1>1. /\ writing' \subseteq writing /\ syncing' = [syncing EXCEPT ![t] = FALSE]
      /\ UNCHANGED <<online, drops, queued, status, mentions, applied, doubted, repeated,
                     overtaken, overlapped, excused>>
      /\ todo' = [r \in Runs |-> IF Tab(r) = t THEN {} ELSE todo[r]]
      /\ current' = [r \in Runs |-> IF Tab(r) = t THEN NoOp ELSE current[r]]
      /\ idMap' = [r \in Runs |-> IF Tab(r) = t THEN {} ELSE idMap[r]]
  BY DEF Reload, network, history, server
<1>2. TypeOK'
  BY <1>1, ReloadRuns DEF TypeOK
<1>3. Lists'
  BY <1>1, ReloadRuns DEF Lists, Working, Sending
<1> QED BY <1>2, <1>3

(* The first step of a run that finds something waiting.                   *)
LEMMA ReadBase ==
    ASSUME Base, NEW r \in Runs, Read(r)
    PROVE  Base'
<1> USE DEF Base, Read, network, store, server
<1>1. CASE Listed = {}
  <2>1. /\ pc' = [pc EXCEPT ![r] = "idle"] /\ todo' = [todo EXCEPT ![r] = {}]
        /\ current' = [current EXCEPT ![r] = NoOp] /\ idMap' = [idMap EXCEPT ![r] = {}]
        /\ UNCHANGED <<syncing, overlapped>>
    BY <1>1 DEF Leave
  <2>2. TypeOK'
    BY <2>1 DEF TypeOK
  <2>3. Lists'
    BY <2>1 DEF TypeOK, Lists, Working, Sending
  <2> QED BY <2>2, <2>3
<1>2. CASE Listed # {}
  <2>1. /\ pc' = [pc EXCEPT ![r] = "loop"] /\ todo' = [todo EXCEPT ![r] = Waiting]
        /\ syncing' = [syncing EXCEPT ![Tab(r)] = TRUE] /\ overlapped' \in BOOLEAN
        /\ UNCHANGED <<current, idMap>>
    BY <1>2 DEF Listed, TypeOK
  <2>2. Waiting \subseteq Ops
    BY DEF Waiting
  <2>3. TypeOK'
    BY <2>1, <2>2, SyncAssumption DEF TypeOK
  <2>4. \A o \in Waiting : o <= queued
    BY NoOpIsNone DEF TypeOK, Waiting
  <2>5. Lists'
    BY <2>1, <2>4 DEF TypeOK, Lists, Working, Sending
  <2> QED BY <2>3, <2>5
<1> QED BY <1>1, <1>2

LEMMA MarkBase ==
    ASSUME Base, NEW r \in Runs, NEW o \in Ops, Mark(r, o)
    PROVE  Base'
<1> USE DEF Base, Mark, network, history, server
<1>1. o <= queued
  BY DEF Lists
<1>2. /\ status' \in [Ops -> {"none", "pending", "syncing", "failed", "deleted"}]
      /\ \A p \in Ops : status'[p] = "none" <=> p > queued
  BY <1>1, StatusSet
<1>3. TypeOK'
  BY <1>2 DEF TypeOK
<1>4. Lists'
  BY DEF TypeOK, Lists, Working, Sending
<1> QED BY <1>3, <1>4

LEMMA SendBase ==
    ASSUME Base, NEW r \in Runs, Send(r)
    PROVE  Base'
<1> USE DEF Base
<1>1. /\ pc[r] = "send" /\ (pc' = [pc EXCEPT ![r] = "delete"] \/ pc' = [pc EXCEPT ![r] = "fail"])
      /\ current[r] \in Ops
      /\ UNCHANGED <<online, drops, writing, queued, status, mentions, syncing, todo, current,
                     overlapped, excused>>
  BY DEF Send, TypeOK, network, store
<1>2. \/ Apply(current[r], TRUE) /\ idMap' = [idMap EXCEPT ![r] = @ \cup {current[r]}]
      \/ UNCHANGED <<idMap, server>>
      \/ Apply(current[r], FALSE) /\ UNCHANGED idMap
  BY DEF Send
<1>3. idMap' \in [Runs -> SUBSET Ops]
  <2>1. idMap' = idMap \/ idMap' = [idMap EXCEPT ![r] = @ \cup {current[r]}]
    BY <1>2
  <2>2. idMap \in [Runs -> SUBSET Ops]
    BY DEF TypeOK
  <2> QED BY <1>1, <2>1, <2>2
<1>4. /\ applied' \subseteq Ops /\ doubted' \subseteq Ops /\ repeated' \subseteq Ops
      /\ overtaken' \subseteq Ops
  BY <1>1, <1>2 DEF TypeOK, Apply, server, Older
<1>5. TypeOK'
  BY <1>1, <1>3, <1>4 DEF TypeOK
<1>6. Lists'
  BY <1>1 DEF TypeOK, Lists, Working, Sending
<1> QED BY <1>5, <1>6

LEMMA DeleteBase ==
    ASSUME Base, NEW r \in Runs, Delete(r)
    PROVE  Base'
<1> USE DEF Base, Delete, network, history, server
<1>1. current[r] \in todo[r] /\ current[r] \in Ops /\ current[r] <= queued
  BY DEF TypeOK, Lists
<1>2. TypeOK'
  <2>1. \A o \in Ops : status'[o] = "none" <=> o > queued
    BY <1>1, NoOpIsNone DEF TypeOK
  <2>2. /\ status' \in [Ops -> {"none", "pending", "syncing", "failed", "deleted"}]
        /\ todo' \in [Runs -> SUBSET Ops] /\ current' \in [Runs -> Ops \cup {NoOp}]
        /\ \A s \in Runs : pc'[s] \in {"send", "delete", "fail"} => current'[s] \in todo'[s]
        /\ pc' \in [Runs -> {"idle", "read", "loop", "send", "delete", "fail"}]
    BY DEF TypeOK
  <2> QED BY <2>1, <2>2 DEF TypeOK
<1>3. Lists'
  BY DEF TypeOK, Lists, Working, Sending
<1> QED BY <1>2, <1>3

LEMMA EndBase ==
    ASSUME Base, NEW r \in Runs, Fail(r) \/ Finish(r)
    PROVE  Base'
<1> USE DEF Base
<1>1. /\ pc' = [pc EXCEPT ![r] = "idle"] /\ todo' = [todo EXCEPT ![r] = {}]
      /\ current' = [current EXCEPT ![r] = NoOp] /\ idMap' = [idMap EXCEPT ![r] = {}]
      /\ syncing' = [syncing EXCEPT ![Tab(r)] = FALSE]
      /\ UNCHANGED <<online, drops, writing, queued, mentions, applied, doubted, repeated,
                     overtaken, overlapped>>
  BY DEF Fail, Finish, Leave, network, store, server, history
<1>2. /\ status' \in [Ops -> {"none", "pending", "syncing", "failed", "deleted"}]
      /\ \A p \in Ops : status'[p] = "none" <=> p > queued
      /\ excused' \subseteq Ops
  <2>1. CASE Fail(r)
    <3>1. current[r] \in Ops /\ current[r] <= queued /\ SetStatus(current[r], "failed")
      BY <2>1 DEF Fail, TypeOK, Lists
    <3>2. excused' = excused \cup todo[r]
      BY <2>1 DEF Fail
    <3> QED BY <3>1, <3>2, StatusSet DEF TypeOK
  <2>2. CASE Finish(r)
    BY <2>2 DEF Finish, store, history, TypeOK
  <2> QED BY <2>1, <2>2
<1>3. TypeOK'
  BY <1>1, <1>2, SyncAssumption DEF TypeOK
<1>4. Lists'
  BY <1>1 DEF TypeOK, Lists, Working, Sending
<1> QED BY <1>3, <1>4

LEMMA BaseInductive == Base /\ [Next]_vars => Base'
<1> SUFFICES ASSUME Base, [Next]_vars PROVE Base'
  OBVIOUS
<1>1. CASE UNCHANGED vars
  BY <1>1 DEF vars, network, store, local, history, server, Base, TypeOK, Lists, Working, Sending
<1>2. ASSUME NEW t \in Tabs, Request(t) \/ SyncNow(t) \/ Reload(t)
      PROVE  Base'
  BY <1>2, RequestBase, SyncNowBase, ReloadBase
<1>3. ASSUME NEW t \in Tabs, NEW m \in Ops \cup {NoOp}, Enqueue(t, m)
      PROVE  Base'
  BY <1>3, EnqueueBase
<1>4. CASE GoOffline \/ GoOnline \/ ResetFailed
  BY <1>4, GoOfflineBase, GoOnlineBase, ResetFailedBase
<1>5. ASSUME NEW r \in Runs, Step(r)
      PROVE  Base'
  BY <1>5, ReadBase, MarkBase, SendBase, DeleteBase, EndBase DEF Step
<1> QED BY <1>1, <1>2, <1>3, <1>4, <1>5 DEF Next

(* Types: a run that sends, deletes or fails has the operation in its list *)
(* (sync.ts, syncQueue), and what has a status was queued.                 *)
THEOREM SyncTypes == Spec => []TypeOK
<1>1. Spec => []Base
  BY BaseStarts, BaseInductive, PTL DEF Spec
<1> QED BY <1>1, PTL DEF Base

-----------------------------------------------------------------------------
(* One run at a time.                                                      *)

(* As long as the runs that work stay where they are, and the queue too.   *)
LEMMA StillAlone ==
    ASSUME Base, Base', Alone, UNCHANGED <<status, server>>,
           \A r \in Runs : Working(r)' =>
               pc'[r] = pc[r] /\ todo'[r] = todo[r] /\ current'[r] = current[r]
    PROVE  Alone'
<1>1. UNCHANGED <<status, applied, doubted, repeated, overtaken>> /\ Waiting' = Waiting
  BY DEF server, Waiting
<1>2. \A r \in Runs :
        /\ Working(r)' => Working(r) /\ pc'[r] = pc[r] /\ todo'[r] = todo[r]
             /\ current'[r] = current[r]
        /\ ~Working(r)' => todo'[r] = {}
  BY DEF Working, Base, Lists
<1>3. OneRun'
  BY <1>2 DEF Alone, OneRun
<1>4. Marked' /\ Whole'
  BY <1>1, <1>2 DEF Alone, Marked, Whole
<1>5. \A r \in Runs : pc'[r] \in {"send", "fail"} => pc'[r] = pc[r] /\ current'[r] = current[r]
  BY <1>2 DEF Working
<1>6. Sure'
  BY <1>1, <1>5 DEF Alone, Sure
<1>7. Stuck \subseteq Stuck'
  BY <1>1, <1>2 DEF Stuck
<1> QED BY <1>1, <1>3, <1>4, <1>6, <1>7 DEF Alone

(* The other runs have nothing to do with the queue.                       *)
LEMMA OneWorks ==
    ASSUME Base, Alone, NEW r \in Runs, Working(r), NEW s \in Runs, s # r
    PROVE  ~Working(s) /\ ~Sending(s) /\ todo[s] = {} /\ current[s] = NoOp
<1>1. ~Working(s)
  BY DEF Alone, OneRun
<1> QED BY <1>1 DEF Working, Sending, Base, Lists

LEMMA EnqueueAlone ==
    ASSUME Base, Alone, NEW t \in Tabs, NEW m \in Ops \cup {NoOp}, Enqueue(t, m)
    PROVE  Alone'
<1> USE DEF Enqueue, local, server
<1> DEFINE n == queued + 1
<1>1. n \in Ops /\ queued \in Nat /\ status[n] = "none"
  BY SyncAssumption DEF Base, TypeOK, Ops
<1>2. status'[n] = "pending" /\ \A o \in Ops : o # n => status'[o] = status[o]
  BY <1>1 DEF Base, TypeOK
<1>3. \A r \in Runs : \A o \in todo[r] : o \in Ops /\ o < n
  BY <1>1, NoOpIsNone DEF Base, TypeOK, Lists
<1> HIDE DEF n
<1>4. Waiting' = Waiting \cup {n}
  BY <1>1, <1>2 DEF Waiting
<1>5. OneRun'
  BY DEF Alone, OneRun, Working
<1>6. Marked'
  <2> SUFFICES ASSUME NEW r \in Runs, NEW o \in todo[r]
               PROVE  IF o = current[r] THEN status'[o] = "syncing" ELSE o \in Waiting'
    BY DEF Marked
  <2>1. o \in Ops /\ o # n
    BY <1>1, <1>3, NoOpIsNone
  <2> QED BY <1>2, <1>4, <2>1 DEF Alone, Marked
<1>7. Sure'
  <2> SUFFICES ASSUME NEW o \in applied \ doubted
               PROVE  /\ status'[o] \in {"syncing", "deleted"}
                      /\ \A r \in Runs : pc[r] \in {"send", "fail"} => current[r] # o
    BY DEF Sure
  <2>1. o \in Ops /\ o # n
    BY <1>1 DEF Base, TypeOK, Alone, Sure
  <2> QED BY <1>2, <2>1 DEF Alone, Sure
<1>8. Whole'
  <2> SUFFICES ASSUME NEW r \in Runs, NEW o \in todo[r], NEW p \in Waiting', p < o
               PROVE  p \in todo[r]
    BY DEF Whole
  <2>1. o \in Nat /\ n \in Nat /\ o < n
    BY <1>1, <1>3, NoOpIsNone
  <2>2. p # n
    BY <2>1
  <2> QED BY <1>4, <2>2 DEF Alone, Whole
<1>9. Stuck \subseteq Stuck'
  BY <1>1, <1>2 DEF Stuck, Working
<1>10. repeated' = {} /\ overtaken' = overtaken
  BY DEF Alone
<1> QED BY <1>5, <1>6, <1>7, <1>8, <1>9, <1>10 DEF Alone

LEMMA ResetFailedAlone ==
    ASSUME Base, Alone, ResetFailed
    PROVE  Alone'
<1> USE DEF ResetFailed, local, server
<1>1. /\ Waiting' = Waiting
      /\ \A o \in Ops : status[o] \in {"syncing", "deleted"} => status'[o] = status[o]
  BY DEF Waiting
<1>2. OneRun' /\ Whole'
  BY <1>1 DEF Alone, OneRun, Whole, Working
<1>3. Marked'
  BY <1>1 DEF Alone, Marked, Base, TypeOK
<1>4. Sure'
  BY <1>1 DEF Alone, Sure, Base, TypeOK
<1>5. Stuck \subseteq Stuck'
  BY <1>1 DEF Stuck, Working
<1> QED BY <1>2, <1>3, <1>4, <1>5 DEF Alone

LEMMA ReadAlone ==
    ASSUME Base, Base', ~overlapped => Alone, NEW r \in Runs, Read(r), ~overlapped'
    PROVE  Alone'
<1> USE DEF Read, store, server
<1>1. ~overlapped /\ Alone
  BY DEF Base, TypeOK
<1>2. CASE Listed = {}
  <2>1. pc' = [pc EXCEPT ![r] = "idle"] /\ todo' = [todo EXCEPT ![r] = {}]
        /\ current' = [current EXCEPT ![r] = NoOp]
    BY <1>2 DEF Leave
  <2>2. \A s \in Runs : Working(s)' =>
            pc'[s] = pc[s] /\ todo'[s] = todo[s] /\ current'[s] = current[s]
    BY <2>1 DEF Working, Base, TypeOK
  <2> QED BY <1>1, <2>2, StillAlone
<1>3. CASE Listed # {}
  <2>1. /\ pc' = [pc EXCEPT ![r] = "loop"] /\ todo' = [todo EXCEPT ![r] = Waiting]
        /\ UNCHANGED <<current, status, applied, doubted, repeated, overtaken>>
        /\ \A s \in Runs : ~Working(s)
    BY <1>3 DEF Listed
  <2>2. \A s \in Runs : s # r => ~Working(s)' /\ todo'[s] = {}
    BY <2>1 DEF Working, Base, TypeOK, Lists
  <2>3. todo'[r] = Waiting /\ pc'[r] = "loop" /\ current'[r] = NoOp /\ Waiting' = Waiting
    BY <2>1 DEF Base, TypeOK, Lists, Working, Sending, Waiting
  <2>4. OneRun'
    BY <2>2 DEF OneRun
  <2>5. Marked' /\ Whole'
    BY <2>2, <2>3, NoOpIsNone DEF Marked, Whole, Waiting
  <2>6. \A s \in Runs : pc'[s] \notin {"send", "fail"}
    BY <2>2, <2>3 DEF Working
  <2>7. Sure'
    BY <1>1, <2>1, <2>6 DEF Alone, Sure
  <2>8. Stuck \subseteq Stuck'
    BY <2>1, <2>2, <2>3, NoOpIsNone DEF Stuck
  <2> QED BY <1>1, <2>1, <2>4, <2>5, <2>7, <2>8 DEF Alone
<1> QED BY <1>2, <1>3

LEMMA MarkAlone ==
    ASSUME Base, Alone, NEW r \in Runs, NEW o \in Ops, Mark(r, o)
    PROVE  Alone'
<1> USE DEF Mark, server
<1>1. /\ pc[r] = "loop" /\ pc' = [pc EXCEPT ![r] = "send"] /\ Working(r)
      /\ current' = [current EXCEPT ![r] = o] /\ current[r] = NoOp
      /\ UNCHANGED <<todo, applied, doubted, repeated, overtaken>>
  BY DEF Base, Lists, Working, Sending, history
<1>2. o \in Waiting /\ o <= queued
  BY <1>1, NoOpIsNone DEF Alone, Marked, Base, Lists
<1>3. status'[o] = "syncing" /\ \A p \in Ops : p # o => status'[p] = status[p]
  BY <1>2, StatusSet DEF Base, Waiting
<1>4. Waiting' = Waiting \ {o}
  BY <1>2, <1>3 DEF Waiting
<1>5. \A s \in Runs : s # r => ~Working(s)' /\ todo'[s] = {}
  BY <1>1, OneWorks DEF Working, Base, TypeOK
<1>6. pc'[r] = "send" /\ current'[r] = o
  BY <1>1 DEF Base, TypeOK
<1>7. OneRun'
  BY <1>5 DEF OneRun
<1>8. Marked'
  <2>1. \A p \in todo[r] : p # o => p \in Waiting'
    BY <1>1, <1>4, NoOpIsNone DEF Alone, Marked, Base, TypeOK
  <2> QED BY <1>1, <1>3, <1>5, <1>6, <2>1 DEF Marked
<1>9. Sure'
  <2>1. \A p \in applied \ doubted : p \in Ops /\ p # o /\ status[p] \in {"syncing", "deleted"}
    BY <1>2 DEF Alone, Sure, Base, TypeOK, Waiting
  <2>2. \A s \in Runs : pc'[s] \in {"send", "fail"} => s = r
    BY <1>5 DEF Working
  <2> QED BY <1>1, <1>3, <1>6, <2>1, <2>2 DEF Sure
<1>10. Whole'
  BY <1>1, <1>4 DEF Alone, Whole
<1>11. Stuck \subseteq Stuck'
  <2> SUFFICES ASSUME NEW p \in Stuck PROVE p \in Stuck'
    OBVIOUS
  <2>1. p \in Ops /\ p # o /\ status'[p] = "syncing"
    BY <1>2, <1>3 DEF Stuck, Waiting
  <2> QED BY <1>5, <1>6, <2>1 DEF Stuck
<1> QED BY <1>1, <1>7, <1>8, <1>9, <1>10, <1>11 DEF Alone

(* What is older than the operation that is sent is stuck.                 *)
LEMMA SendAlone ==
    ASSUME Base, Alone, NEW r \in Runs, Send(r)
    PROVE  Alone'
<1> DEFINE o == current[r]
<1>1. /\ pc[r] = "send" /\ Working(r) /\ Sending(r) /\ o \in Ops /\ o \in todo[r]
      /\ UNCHANGED <<status, todo, current>>
  BY DEF Send, Base, TypeOK, Working, Sending, store
<1>2. pc'[r] \in {"delete", "fail"} /\ \A s \in Runs : s # r => pc'[s] = pc[s]
  BY DEF Send, Base, TypeOK
<1>3. \A s \in Runs : (Working(s)' <=> Working(s)) /\ (Working(s) => s = r)
  BY <1>1, <1>2 DEF Working, Alone, OneRun
<1>4. Waiting' = Waiting
  BY <1>1 DEF Waiting
<1>5. OneRun' /\ Marked' /\ Whole'
  BY <1>1, <1>3, <1>4 DEF Alone, OneRun, Marked, Whole
<1>6. Stuck' = Stuck
  BY <1>1, <1>3 DEF Stuck
<1>7. status[o] = "syncing" /\ o \notin applied \ doubted
  BY <1>1 DEF Alone, Marked, Sure
<1>8. Older(o) \subseteq Stuck
  <2> SUFFICES ASSUME NEW p \in Older(o) PROVE p \in Stuck
    OBVIOUS
  <2>1. p \in Ops /\ p < o /\ status[p] \in {"pending", "syncing", "failed"}
    BY DEF Older
  <2>2. ~(p \in todo[r])
    <3>1. \A q \in todo[r] : o <= q BY <1>1 DEF Base, Lists
    <3>2. o \in Nat /\ p \in Nat BY <1>1, <2>1, NoOpIsNone
    <3> QED BY <2>1, <3>1, <3>2
  <2>3. p \notin Waiting
    BY <1>1, <2>1, <2>2 DEF Alone, Whole
  <2>4. status[p] = "syncing"
    BY <2>1, <2>3 DEF Waiting
  <2>5. p # o
    BY <2>1, NoOpIsNone
  <2> QED BY <1>3, <2>1, <2>4, <2>5 DEF Stuck
<1>9. CASE UNCHANGED server
  <2>1. \A s \in Runs : pc'[s] \in {"send", "fail"} => pc[s] \in {"send", "fail"}
    BY <1>1, <1>2
  <2>2. Sure'
    BY <1>1, <1>9, <2>1 DEF server, Alone, Sure
  <2> QED BY <1>5, <1>6, <1>9, <2>2 DEF server, Alone
<1>10. ASSUME NEW arrives \in BOOLEAN, Apply(o, arrives),
              pc'[r] = IF arrives THEN "delete" ELSE "fail"
       PROVE  Alone'
  <2>1. repeated' = {} /\ overtaken' \subseteq Stuck'
    BY <1>6, <1>7, <1>8, <1>10 DEF Apply, Alone
  <2>2. applied' \ doubted' = IF arrives THEN (applied \ doubted) \cup {o} ELSE applied \ doubted
    BY <1>7, <1>10 DEF Apply
  <2>3. \A s \in Runs : pc'[s] \in {"send", "fail"} => s = r /\ ~arrives
    BY <1>2, <1>3, <1>10 DEF Working
  <2>4. Sure'
    BY <1>1, <1>7, <2>2, <2>3 DEF Alone, Sure
  <2> QED BY <1>5, <2>1, <2>4 DEF Alone
<1>11. \/ UNCHANGED server
       \/ \E arrives \in BOOLEAN :
            Apply(o, arrives) /\ pc'[r] = IF arrives THEN "delete" ELSE "fail"
  BY DEF Send, Base, TypeOK
<1> QED BY <1>9, <1>10, <1>11

LEMMA DeleteAlone ==
    ASSUME Base, Alone, NEW r \in Runs, Delete(r)
    PROVE  Alone'
<1> USE DEF Delete, server, history
<1> DEFINE o == current[r]
<1>1. /\ pc[r] = "delete" /\ Working(r) /\ Sending(r) /\ o \in Ops /\ o \in todo[r]
      /\ pc'[r] = "loop" /\ current'[r] = NoOp /\ todo'[r] = todo[r] \ {o}
      /\ status'[o] = "deleted" /\ \A p \in Ops : p # o => status'[p] = status[p]
  BY DEF Base, TypeOK, Working, Sending
<1>2. \A s \in Runs : s # r => ~Working(s)' /\ todo'[s] = {} /\ current'[s] = current[s]
  BY <1>1, OneWorks DEF Working, Base, TypeOK
<1>3. status[o] = "syncing"
  BY <1>1 DEF Alone, Marked
<1>4. Waiting' = Waiting
  BY <1>1, <1>3 DEF Waiting
<1>5. OneRun'
  BY <1>2 DEF OneRun
<1>6. Marked'
  <2>1. \A p \in todo[r] : p # o => p \in Waiting /\ p # NoOp
    BY <1>1, NoOpIsNone DEF Alone, Marked, Base, TypeOK
  <2> QED BY <1>1, <1>2, <1>4, <2>1 DEF Marked
<1>7. Sure'
  <2>1. \A s \in Runs : pc'[s] \notin {"send", "fail"}
    BY <1>1, <1>2 DEF Working
  <2> QED BY <1>1, <2>1 DEF Alone, Sure, Base, TypeOK
<1>8. Whole'
  <2>1. o \notin Waiting
    BY <1>3 DEF Waiting
  <2> QED BY <1>1, <1>2, <1>4, <2>1 DEF Alone, Whole
<1>9. Stuck \subseteq Stuck'
  BY <1>1, <1>2, NoOpIsNone DEF Stuck
<1> QED BY <1>5, <1>6, <1>7, <1>8, <1>9 DEF Alone

LEMMA FailAlone ==
    ASSUME Base, Base', Alone, NEW r \in Runs, Fail(r)
    PROVE  Alone'
<1> USE DEF Fail, Leave, server
<1> DEFINE o == current[r]
<1>1. /\ pc[r] = "fail" /\ Working(r) /\ o \in Ops /\ o \in todo[r] /\ o <= queued
      /\ pc'[r] = "idle" /\ todo'[r] = {}
      /\ UNCHANGED <<applied, doubted, repeated, overtaken>>
  BY DEF Base, TypeOK, Lists, Working
<1>2. status[o] = "syncing"
  BY <1>1 DEF Alone, Marked
<1>3. status'[o] = "failed" /\ \A p \in Ops : p # o => status'[p] = status[p]
  BY <1>1, <1>2, StatusSet DEF Base
<1>4. \A s \in Runs : s # r => pc'[s] = pc[s] /\ ~Working(s)
  BY <1>1, OneWorks DEF Base, TypeOK
<1>5. \A s \in Runs : ~Working(s)' /\ todo'[s] = {}
  BY <1>1, <1>4 DEF Working, Base, Lists
<1>6. OneRun' /\ Marked' /\ Whole'
  BY <1>5 DEF OneRun, Marked, Whole
<1>7. Sure'
  <2>1. o \notin applied \ doubted
    BY <1>1 DEF Alone, Sure
  <2>2. \A s \in Runs : pc'[s] \notin {"send", "fail"}
    BY <1>5 DEF Working
  <2> QED BY <1>1, <1>3, <2>1, <2>2 DEF Alone, Sure, Base, TypeOK
<1>8. Stuck \subseteq Stuck'
  BY <1>1, <1>3, <1>5 DEF Stuck
<1> QED BY <1>1, <1>6, <1>7, <1>8 DEF Alone

LEMMA ReloadAlone ==
    ASSUME Base, Base', Alone, NEW t \in Tabs, Reload(t)
    PROVE  Alone'
<1>1. UNCHANGED <<status, server>>
  BY DEF Reload, history
<1>2. \A r \in Runs : Working(r)' =>
        pc'[r] = pc[r] /\ todo'[r] = todo[r] /\ current'[r] = current[r]
  BY ReloadRuns DEF Base, Working
<1> QED BY <1>1, <1>2, StillAlone

LEMMA FinishAlone ==
    ASSUME Base, Base', Alone, NEW r \in Runs, Finish(r)
    PROVE  Alone'
<1>1. UNCHANGED <<status, server>>
  BY DEF Finish, store, history
<1>2. \A s \in Runs : Working(s)' =>
        pc'[s] = pc[s] /\ todo'[s] = todo[s] /\ current'[s] = current[s]
  BY DEF Finish, Leave, Base, TypeOK, Working
<1> QED BY <1>1, <1>2, StillAlone

(* The steps that leave the runs that work and the queue alone.            *)
LEMMA OutsideAlone ==
    ASSUME Base, Base', Alone,
           \/ GoOffline
           \/ GoOnline
           \/ \E t \in Tabs : Request(t) \/ SyncNow(t)
           \/ UNCHANGED vars
    PROVE  Alone'
<1>1. UNCHANGED <<status, todo, current>> /\ UNCHANGED server
  BY DEF GoOffline, GoOnline, Request, SyncNow, vars, network, store, local, history
<1>2. \A r \in Runs : pc'[r] = pc[r] \/ pc'[r] = "read"
  <2>1. CASE UNCHANGED pc
    BY <2>1
  <2>2. CASE GoOnline \/ \E t \in Tabs : SyncNow(t)
    <3>1. PICK T \in SUBSET Tabs : Called(T, pc)
      BY <2>2 DEF GoOnline, SyncNow
    <3> QED BY <3>1, CalledRuns DEF Base, TypeOK
  <2> QED BY <2>1, <2>2 DEF GoOffline, Request, vars, local
<1>3. \A r \in Runs : Working(r)' =>
        pc'[r] = pc[r] /\ todo'[r] = todo[r] /\ current'[r] = current[r]
  BY <1>1, <1>2 DEF Working
<1> QED BY <1>1, <1>3, StillAlone

(* Only the first step of a run makes two of them overlap.                 *)
LEMMA AloneInductive ==
    ASSUME Base, Base', ~overlapped => Alone, [Next]_vars
    PROVE  ~overlapped' => Alone'
<1> SUFFICES ASSUME ~overlapped' PROVE Alone'
  OBVIOUS
<1>1. ASSUME NEW r \in Runs, Read(r)
      PROVE  Alone'
  BY <1>1, ReadAlone
<1>2. ASSUME UNCHANGED overlapped
      PROVE  Alone'
  <2>1. Alone
    BY <1>2
  <2>2. CASE \E t \in Tabs, m \in Ops \cup {NoOp} : Enqueue(t, m)
    BY <2>1, <2>2, EnqueueAlone
  <2>3. CASE ResetFailed
    BY <2>1, <2>3, ResetFailedAlone
  <2>4. CASE \E t \in Tabs : Reload(t)
    BY <2>1, <2>4, ReloadAlone
  <2>5. ASSUME NEW r \in Runs, Step(r)
        PROVE  Alone'
    BY <1>1, <2>1, <2>5, MarkAlone, SendAlone, DeleteAlone, FailAlone, FinishAlone DEF Step
  <2>6. CASE GoOffline \/ GoOnline \/ (\E t \in Tabs : Request(t) \/ SyncNow(t)) \/ UNCHANGED vars
    BY <2>1, <2>6, OutsideAlone
  <2> QED BY <2>2, <2>3, <2>4, <2>5, <2>6 DEF Next
<1>3. (\E r \in Runs : Read(r)) \/ UNCHANGED overlapped
  BY DEF Next, Step, Request, Enqueue, GoOffline, GoOnline, SyncNow, Reload, ResetFailed, Mark,
         Send, Delete, Fail, Finish, vars, history
<1> QED BY <1>1, <1>2, <1>3

-----------------------------------------------------------------------------
(* What is pending has a run.                                              *)

(* A run that stays where it is, or comes to read.                         *)
Goes(r) == pc'[r] = pc[r] \/ pc'[r] = "read"

LEMMA StillHeard ==
    ASSUME Heard, online' => online, Pending' \ excused' \subseteq Pending \ excused,
           \A r \in Runs : Goes(r) /\ todo[r] \subseteq todo'[r]
    PROVE  Heard'
BY DEF Heard, Goes

LEMMA OutsideHeard ==
    ASSUME Base, Heard,
           \/ GoOffline
           \/ ResetFailed
           \/ \E t \in Tabs :
                Request(t) \/ SyncNow(t) \/ \E m \in Ops \cup {NoOp} : Enqueue(t, m)
           \/ UNCHANGED vars
    PROVE  Heard'
<1>1. online' => online
  BY DEF GoOffline, ResetFailed, Request, SyncNow, Enqueue, vars, network, Base, TypeOK
<1>2. todo' = todo
  BY DEF GoOffline, ResetFailed, Request, SyncNow, Enqueue, vars, local
<1>3. \A r \in Runs : Goes(r)
  <2>1. CASE UNCHANGED pc
    BY <2>1 DEF Goes
  <2>2. CASE \E t \in Tabs : SyncNow(t)
    BY <2>2, CalledRuns DEF SyncNow, Base, TypeOK, Goes
  <2> QED BY <2>1, <2>2 DEF GoOffline, ResetFailed, Request, Enqueue, vars, local
<1>4. CASE UNCHANGED <<status, excused>>
  <2>1. Pending' \ excused' = Pending \ excused
    BY <1>4 DEF Pending
  <2> QED BY <1>1, <1>2, <1>3, <2>1, StillHeard
<1>5. CASE ResetFailed
  <2>1. Pending' \ excused' \subseteq Pending \ excused
    BY <1>5 DEF ResetFailed, Pending
  <2> QED BY <1>1, <1>2, <1>3, <2>1, StillHeard
<1>6. ASSUME NEW t \in Tabs, NEW m \in Ops \cup {NoOp}, Enqueue(t, m)
      PROVE  Heard'
  <2>1. CASE online
    <3>1. Pending' \ excused' \subseteq Pending \ excused
      BY <1>6, <2>1 DEF Enqueue, Pending
    <3> QED BY <1>1, <1>2, <1>3, <3>1, StillHeard
  <2>2. CASE ~online
    BY <1>6, <2>2 DEF Enqueue, network, Heard
  <2> QED BY <2>1, <2>2
<1> QED BY <1>4, <1>5, <1>6 DEF GoOffline, Request, SyncNow, vars, store, history

LEMMA GoOnlineHeard ==
    ASSUME Base, GoOnline
    PROVE  Heard'
<1> DEFINE T == {t \in Tabs : ~syncing[t]}
<1>1. T = {} => Pending' \ excused' = {}
  BY DEF GoOnline, store, Pending
<1>2. T # {} => \E r \in Runs : pc'[r] = "read"
  BY CalledRuns DEF GoOnline, Base, TypeOK
<1> QED BY <1>1, <1>2 DEF Heard

LEMMA ReloadHeard ==
    ASSUME Base, NEW t \in Tabs, Reload(t)
    PROVE  Heard'
<1>1. online' = online
  BY DEF Reload, network
<1> QED BY <1>1, ReloadRuns DEF Base, Heard

LEMMA StepHeard ==
    ASSUME Base, Heard, NEW r \in Runs, Step(r)
    PROVE  Heard'
<1>1. online' = online /\ \A s \in Runs : s # r => pc'[s] = pc[s] /\ todo'[s] = todo[s]
  BY DEF Step, Read, Mark, Send, Delete, Fail, Finish, Leave, network, Base, TypeOK
<1>2. pc[r] = "read" => Read(r)
  BY DEF Step, Mark, Send, Delete, Fail, Finish
<1>3. CASE Read(r)
  <2>1. Pending' = Pending /\ excused' = excused /\ Pending \subseteq Waiting
    BY <1>3 DEF Read, store, Pending, Waiting
  <2>2. Waiting = {} \/ todo'[r] = Waiting
    BY <1>3 DEF Read, Listed, Base, TypeOK
  <2> QED BY <2>1, <2>2 DEF Heard
<1>4. ASSUME ~Read(r), \A p \in Pending' \ excused' :
                         p \in Pending \ excused /\ (p \in todo[r] => p \in todo'[r])
      PROVE  Heard'
  <2> SUFFICES ASSUME online', NEW p \in Pending' \ excused'
               PROVE  \E s \in Runs : pc'[s] = "read" \/ p \in todo'[s]
    BY DEF Heard
  <2>1. PICK s \in Runs : pc[s] = "read" \/ p \in todo[s]
    BY <1>1, <1>4 DEF Heard
  <2> QED BY <1>1, <1>2, <1>4, <2>1
<1>5. ASSUME NEW o \in Ops, Mark(r, o), ~Read(r)
      PROVE  Heard'
  <2>1. todo' = todo /\ excused' = excused /\ SetStatus(o, "syncing")
    BY <1>5 DEF Mark, history
  <2>2. Pending' \subseteq Pending
    BY <2>1 DEF Pending, SetStatus, Base, TypeOK
  <2> QED BY <1>4, <1>5, <2>1, <2>2
<1>6. CASE Send(r) /\ ~Read(r)
  <2>1. UNCHANGED <<todo, excused, status>>
    BY <1>6 DEF Send, store
  <2> QED BY <1>4, <1>6, <2>1 DEF Pending
<1>7. CASE Delete(r) /\ ~Read(r)
  <2>1. /\ excused' = excused /\ todo'[r] = todo[r] \ {current[r]}
        /\ status' = [status EXCEPT ![current[r]] = "deleted"]
    BY <1>7 DEF Delete, history, Base, TypeOK
  <2>2. Pending' \subseteq Pending \ {current[r]}
    BY <2>1 DEF Pending, Base, TypeOK
  <2> QED BY <1>4, <1>7, <2>1, <2>2
<1>8. CASE Fail(r) /\ ~Read(r)
  <2>1. excused' = excused \cup todo[r] /\ SetStatus(current[r], "failed")
    BY <1>8 DEF Fail
  <2>2. Pending' \subseteq Pending
    BY <2>1 DEF Pending, SetStatus, Base, TypeOK
  <2> QED BY <1>4, <1>8, <2>1, <2>2
<1>9. CASE Finish(r) /\ ~Read(r)
  <2>1. todo[r] = {} /\ excused' = excused /\ Pending' = Pending
    BY <1>9 DEF Finish, store, history, Pending
  <2> QED BY <1>4, <1>9, <2>1
<1> QED BY <1>3, <1>5, <1>6, <1>7, <1>8, <1>9 DEF Step

LEMMA HeardInductive ==
    ASSUME Base, Heard, [Next]_vars
    PROVE  Heard'
BY OutsideHeard, GoOnlineHeard, ReloadHeard, StepHeard DEF Next

-----------------------------------------------------------------------------

LEMMA IInvStarts == Init => IInv
<1> SUFFICES ASSUME Init PROVE IInv
  OBVIOUS
<1>1. Base
  BY BaseStarts
<1>2. Pending = {} /\ \A r \in Runs : ~Working(r) /\ todo[r] = {}
  BY DEF Init, Pending, Working
<1>3. Alone
  BY <1>2 DEF Init, Alone, OneRun, Marked, Sure, Whole
<1>4. Heard
  BY <1>2 DEF Heard
<1> QED BY <1>1, <1>3, <1>4 DEF IInv, Base

LEMMA IInvInductive == IInv /\ [Next]_vars => IInv'
<1> SUFFICES ASSUME IInv, [Next]_vars PROVE IInv'
  OBVIOUS
<1>1. Base /\ Base'
  BY BaseInductive DEF IInv, Base
<1>2. ~overlapped' => Alone'
  BY <1>1, AloneInductive DEF IInv
<1>3. Heard'
  BY <1>1, HeardInductive DEF IInv
<1> QED BY <1>1, <1>2, <1>3 DEF IInv, Base

LEMMA KeptByIInv == IInv => QueueKept
<1> SUFFICES ASSUME IInv PROVE QueueKept
  OBVIOUS
<1>1. AppliedOnce /\ InOrder
  BY DEF IInv, Alone, AppliedOnce, InOrder
<1>2. NothingForgotten
  BY DEF IInv, Lists, Working, Heard, NothingForgotten
<1> QED BY <1>1, <1>2 DEF QueueKept

(* Unless two runs overlapped, no operation is applied twice without a     *)
(* lost reply, nor before an older one that is not stuck; and whatever     *)
(* waits while there is a connection and no run has a reason to            *)
(* (mutationQueue.ts and sync.ts, syncQueue).                              *)
THEOREM OfflineQueue == Spec => []QueueKept
<1>1. Spec => []IInv
  BY IInvStarts, IInvInductive, PTL DEF Spec
<1> QED BY <1>1, KeptByIInv, PTL

(***************************************************************************)
(* SwipePager.                                                             *)
(***************************************************************************)

Finger == touch.at \in {"h", "v"}

(* A touch is heard by the grid on the screen; elsewhere nothing is moved. *)
Listens ==
    /\ touch.at # "idle" => hearing
    /\ touch.at = "h" => touch.dir \in Dir
    /\ hearing => mounted /\ stage = "grid" /\ armed # 0
    /\ mounted /\ stage # "grid" => shift = "in place"

(* The ghosts, there and to come, are the neighbours of a page.            *)
Neighbours(page, filter) ==
    /\ \A d \in Dir : ghosts[d] # NoGhost =>
        ghosts[d].page = Beside(page, d) /\ ghosts[d].filter = filter
    /\ \A b \in building : b.fresh => b.page = Beside(page, b.dir) /\ b.filter = filter

Aligned ==
    /\ hearing /\ fetches = <<>> => Neighbours(armed, sought)
    /\ ghostKey.page # 0 => deck = "media" /\ Neighbours(ghostKey.page, ghostKey.filter)

Fetching ==
    \A c \in DOMAIN fetches :
        /\ fetches[c].refit => ~fetches[c].seamless
        /\ deck = "media" => ~fetches[c].refit

Locking ==
    /\ mounted /\ handoffs # <<>> /\ "crossed" \notin slips => locked /\ fetches = <<>>
    /\ OneSlide

(* A grid that is not in its place is under a finger, or its page is still *)
(* to come.                                                                *)
Pulled ==
    mounted =>
        /\ shift = "pulled" =>
            \/ Finger /\ ~locked
            \/ "curved" \in slips
            \/ deck = "grid" /\ "cut" \in slips
        /\ shift = "away" => handoffs # <<>> \/ \E c \in DOMAIN fetches : ~fetches[c].refit
        /\ peek # "none" => (Finger /\ ~locked) \/ slips \cap {"cut", "curved", "crossed"} # {}

(* So is the page that a ghost is held for.                                *)
Held ==
    mounted =>
        \/ slips \cap {"crossed", "late", "failed"} # {}
        \/ /\ litter = 0
           /\ committed # NoGhost =>
               /\ stage # "error"
               /\ deck = "grid" => stage = "grid"
               /\ handoffs # <<>> \/ \E c \in DOMAIN fetches : deck = "media" \/ fetches[c].seamless

Acts ==
    /\ litter + (IF touch.at = "idle" THEN 0 ELSE 1) <= pagerActs
    /\ edition <= pagerActs
    /\ lookup => deck = "media"

PagerShapes ==
    /\ deck \in {"grid", "media"} /\ stage \in {"grid", "spinner", "error"}
    /\ list \in [page : Page, filter : Filter] /\ sought \in Filter /\ per \in 1..2
    /\ fetches \in Seq(Fetch) /\ Len(fetches) <= Fetches
    /\ armed \in 0..Pages /\ ghostKey \in [page : 0..Pages, filter : Filter, per : 1..2]
    /\ ghosts \in [Dir -> Ghost] /\ committed \in Ghost
    /\ building \subseteq [dir : Dir, page : Page, filter : Filter, fresh : BOOLEAN]
    /\ peek \in Dir \cup {"none"}
    /\ litter \in 0..MaxPagerActs
    /\ touch \in [at : {"idle", "single", "h", "v", "multi", "pinching"}, dir : Dir \cup {"none"},
                  far : BOOLEAN]
    /\ shift \in {"in place", "pulled", "away"}
    /\ handoffs \in Seq(Page) /\ cols \in 1..2
    /\ edition \in 0..MaxPagerActs /\ pagerActs \in 0..MaxPagerActs
    /\ slips \subseteq {"cut", "curved", "crossed", "late", "failed"}

PagerFlags ==
    /\ mounted \in BOOLEAN /\ lookup \in BOOLEAN /\ hearing \in BOOLEAN
    /\ locked \in BOOLEAN /\ zoomDue \in BOOLEAN /\ misled \in BOOLEAN

LEMMA PagerTypeIs == PagerTypeOK <=> PagerShapes /\ PagerFlags
<1>1. PagerFlags <=> {mounted, lookup, hearing, locked, zoomDue, misled} \subseteq BOOLEAN
  BY Zenon DEF PagerFlags
<1>2. PagerShapes /\ {mounted, lookup, hearing, locked, zoomDue, misled} \subseteq BOOLEAN
      <=> PagerTypeOK
  BY Zenon DEF PagerShapes, PagerTypeOK
<1> QED BY <1>1, <1>2

PagerInv ==
    /\ PagerShapes /\ PagerFlags
    /\ Listens /\ Aligned /\ Fetching /\ Locking /\ Pulled /\ Held /\ Acts /\ GhostTells

Touch == [at : {"idle", "single", "h", "v", "multi", "pinching"}, dir : Dir \cup {"none"},
          far : BOOLEAN]

LEMMA PagerSizes == Pages \in Nat \ {0} /\ Fetches \in Nat /\ MaxPagerActs \in Nat
BY PagerAssumption DEF PagerAssumption

LEMMA PagerCounts ==
    ASSUME PagerShapes
    PROVE  /\ litter \in Nat /\ edition \in Nat /\ pagerActs \in Nat
           /\ litter <= MaxPagerActs /\ edition <= MaxPagerActs /\ pagerActs <= MaxPagerActs
           /\ pagerActs \in pagerActs..MaxPagerActs
           /\ pagerActs < MaxPagerActs => pagerActs + 1 \in pagerActs..MaxPagerActs
<1>1. litter \in 0..MaxPagerActs /\ edition \in 0..MaxPagerActs /\ pagerActs \in 0..MaxPagerActs
  BY Zenon DEF PagerShapes
<1> QED BY <1>1, PagerSizes

(* What a step says of counters; the rest of Acts is a matter of types.    *)
LEMMA ActsNext ==
    ASSUME PagerShapes, Acts, pagerActs' \in pagerActs..MaxPagerActs,
           touch'.at = "idle" \/ touch.at # "idle" \/ pagerActs' = pagerActs + 1,
           \/ litter' = litter
           \/ litter' = 0
           \/ litter' = litter + 1 /\ touch.at # "idle" /\ touch'.at = "idle",
           edition' = edition \/ (edition' = edition + 1 /\ pagerActs' = pagerActs + 1),
           lookup' => deck' = "media"
    PROVE  Acts' /\ litter' \in 0..MaxPagerActs /\ edition' \in 0..MaxPagerActs
           /\ pagerActs' \in 0..MaxPagerActs
<1>1. MaxPagerActs \in Nat BY PagerSizes
<1>2. litter \in Nat /\ edition \in Nat /\ pagerActs \in Nat /\ pagerActs' \in Nat
      /\ pagerActs <= pagerActs' /\ pagerActs' <= MaxPagerActs
  BY <1>1, PagerCounts
<1> DEFINE t == IF touch.at = "idle" THEN 0 ELSE 1
           u == IF touch'.at = "idle" THEN 0 ELSE 1
<1>3. litter + t <= pagerActs /\ edition <= pagerActs BY DEF Acts
<1>4. litter' + u <= pagerActs'
  <2>1. CASE litter' = litter BY <2>1, <1>2, <1>3
  <2>2. CASE litter' = 0 BY <2>2, <1>2, <1>3
  <2>3. CASE litter' = litter + 1 /\ touch.at # "idle" /\ touch'.at = "idle" BY <2>3, <1>2, <1>3
  <2> QED BY <2>1, <2>2, <2>3
<1>5. edition' <= pagerActs' /\ edition' \in Nat BY <1>2, <1>3
<1>6. litter' \in Nat BY <1>2
<1>7. u \in {0, 1} OBVIOUS
<1>8. Acts' BY <1>4, <1>5 DEF Acts
<1>9. litter' \in 0..MaxPagerActs
  <2> HIDE DEF u
  <2>1. PICK l \in Nat, n \in Nat, p \in Nat : l = litter' /\ n = u /\ p = pagerActs'
    BY <1>2, <1>6, <1>7
  <2>2. l + n <= p /\ p <= MaxPagerActs BY <2>1, <1>2, <1>4
  <2>3. l <= MaxPagerActs BY <2>2, <1>1
  <2> QED BY <2>1, <2>3, <1>1
<1>10. edition' \in 0..MaxPagerActs
  <2>1. PICK e \in Nat, p \in Nat : e = edition' /\ p = pagerActs' BY <1>2, <1>5
  <2>2. e <= p /\ p <= MaxPagerActs BY <2>1, <1>2, <1>5
  <2> QED BY <2>1, <2>2, <1>1
<1> QED BY <1>1, <1>2, <1>8, <1>9, <1>10

LEMMA TouchDownKeeps == ASSUME PagerInv, TouchDown PROVE PagerInv'
<1> USE DEF PagerInv
<1>1. /\ pagerActs' = pagerActs + 1 /\ pagerActs < MaxPagerActs
      /\ touch' = [touch EXCEPT !.at = "single"] /\ touch.at = "idle" /\ hearing
      /\ UNCHANGED <<deck, mounted, list, sought, edition, lookup, building, armed, cols>>
      /\ UNCHANGED <<stage, per, fetches, hearing, ghosts, ghostKey, committed, litter, handoffs, misled>>
      /\ UNCHANGED <<peek, shift, locked, zoomDue, slips>>
  BY DEF TouchDown, Elsewhere, Unasked
<1>2. touch' \in Touch /\ touch'.at = "single" BY <1>1 DEF PagerShapes, Touch
<1>3. pagerActs' \in pagerActs..MaxPagerActs BY <1>1, PagerCounts
<1>4. Acts' /\ litter' \in 0..MaxPagerActs /\ edition' \in 0..MaxPagerActs
      /\ pagerActs' \in 0..MaxPagerActs
  BY <1>1, <1>2, <1>3, ActsNext DEF Acts
<1>5. PagerShapes' BY <1>1, <1>2, <1>4 DEF PagerShapes, Touch
<1>6. PagerFlags' BY Zenon, <1>1 DEF PagerFlags
<1>7. Listens' BY <1>1, <1>2 DEF Listens
<1>8. Aligned' BY <1>1 DEF Aligned, Neighbours
<1>9. Fetching' BY <1>1 DEF Fetching
<1>10. Locking' BY <1>1 DEF Locking, OneSlide
<1>11. Pulled' BY <1>1 DEF Pulled, Finger
<1>12. Held' BY <1>1 DEF Held
<1>13. GhostTells' BY <1>1 DEF GhostTells
<1> QED BY <1>4, <1>5, <1>6, <1>7, <1>8, <1>9, <1>10, <1>11, <1>12, <1>13

(* The side of the finger decides where the grid goes and who looks in.    *)
LEMMA TouchMoveKeeps == ASSUME PagerInv, TouchMove PROVE PagerInv'
<1> USE DEF PagerInv
<1>1. /\ UNCHANGED <<deck, mounted, list, sought, edition, lookup, building, armed, cols>>
      /\ UNCHANGED <<stage, per, fetches, hearing, ghosts, ghostKey, committed, litter, handoffs, misled>>
      /\ UNCHANGED <<locked, zoomDue, pagerActs, slips>>
  BY DEF TouchMove, Elsewhere, Unasked
<1>2. /\ touch.at # "idle" /\ touch' \in Touch /\ (touch'.at = "h" => touch'.dir \in Dir)
      /\ \/ touch.at = "single" /\ UNCHANGED <<shift, peek>>
         \/ /\ touch'.at \in {"h", "v"}
            /\ \/ locked /\ UNCHANGED <<shift, peek>>
               \/ ~locked /\ shift' = "pulled" /\ peek' \in Dir \cup {"none"}
  <2>1. CASE touch.at = "single" /\ touch' \in {Untouched, [touch EXCEPT !.at = "v"]}
             /\ UNCHANGED <<shift, peek>>
    <3>1. /\ Untouched \in Touch /\ [touch EXCEPT !.at = "v"] \in Touch
          /\ Untouched.at # "h" /\ [touch EXCEPT !.at = "v"].at # "h"
      BY DEF PagerShapes, Touch, Untouched
    <3> QED BY <3>1, <2>1
  <2>2. ASSUME NEW dir \in Dir, NEW far \in BOOLEAN, touch.at \in {"single", "h", "v"},
               touch' = [at |-> IF touch.at = "v" THEN "v" ELSE "h", dir |-> dir, far |-> far],
               Dragged(dir)
        PROVE  /\ touch.at # "idle" /\ touch' \in Touch /\ touch'.at \in {"h", "v"}
               /\ touch'.dir \in Dir
               /\ \/ locked /\ UNCHANGED <<shift, peek>>
                  \/ ~locked /\ shift' = "pulled" /\ peek' \in Dir \cup {"none"}
    BY <2>2 DEF Dragged, Touch, PagerShapes
  <2> QED BY <2>1, <2>2 DEF TouchMove
<1>3. pagerActs' \in pagerActs..MaxPagerActs BY <1>1, PagerCounts
<1>4. Acts' /\ litter' \in 0..MaxPagerActs /\ edition' \in 0..MaxPagerActs
      /\ pagerActs' \in 0..MaxPagerActs
  BY <1>1, <1>2, <1>3, ActsNext DEF Acts
<1>5. PagerShapes' BY <1>1, <1>2, <1>4 DEF PagerShapes, Touch
<1>6. PagerFlags' BY Zenon, <1>1 DEF PagerFlags
<1>7. Listens' BY <1>1, <1>2 DEF Listens
<1>8. Aligned' BY <1>1 DEF Aligned, Neighbours
<1>9. Fetching' BY <1>1 DEF Fetching
<1>10. Locking' BY <1>1 DEF Locking, OneSlide
<1>11. Pulled' BY <1>1, <1>2 DEF Pulled, Finger
<1>12. Held' BY <1>1 DEF Held
<1>13. GhostTells' BY <1>1 DEF GhostTells
<1> QED BY <1>4, <1>5, <1>6, <1>7, <1>8, <1>9, <1>10, <1>11, <1>12, <1>13

LEMMA SecondFingerKeeps == ASSUME PagerInv, SecondFinger PROVE PagerInv'
<1> USE DEF PagerInv
<1>1. /\ UNCHANGED <<deck, mounted, list, sought, edition, lookup, building, armed, cols>>
      /\ UNCHANGED <<stage, per, fetches, hearing, ghosts, ghostKey, committed, litter, handoffs, misled>>
      /\ UNCHANGED <<locked, zoomDue, pagerActs, slips>>
      /\ touch' = [Untouched EXCEPT !.at = "multi"] /\ touch.at # "idle"
      /\ IF touch.at = "single" THEN UNCHANGED <<shift, peek>>
         ELSE shift' = "in place" /\ peek' = "none"
  BY DEF SecondFinger, Elsewhere, Unasked, Reset
<1>2. touch' \in Touch /\ touch'.at = "multi" BY <1>1 DEF Touch, Untouched
<1>3. pagerActs' \in pagerActs..MaxPagerActs BY <1>1, PagerCounts
<1>4. Acts' /\ litter' \in 0..MaxPagerActs /\ edition' \in 0..MaxPagerActs
      /\ pagerActs' \in 0..MaxPagerActs
  BY <1>1, <1>2, <1>3, ActsNext DEF Acts
<1>5. PagerShapes' BY <1>1, <1>2, <1>4 DEF PagerShapes, Touch
<1>6. PagerFlags' BY Zenon, <1>1 DEF PagerFlags
<1>7. Listens' BY <1>1, <1>2 DEF Listens
<1>8. Aligned' BY <1>1 DEF Aligned, Neighbours
<1>9. Fetching' BY <1>1 DEF Fetching
<1>10. Locking' BY <1>1 DEF Locking, OneSlide
<1>11. Pulled' BY <1>1, <1>2 DEF Pulled, Finger
<1>12. Held' BY <1>1 DEF Held
<1>13. GhostTells' BY <1>1 DEF GhostTells
<1> QED BY <1>4, <1>5, <1>6, <1>7, <1>8, <1>9, <1>10, <1>11, <1>12, <1>13

Build == [dir : Dir, page : Page, filter : Filter, fresh : BOOLEAN]

(* What is under way is of an old version when its ghosts are cleared.     *)
LEMMA ExpiredIs ==
    ASSUME building \subseteq Build
    PROVE  Expired \subseteq Build /\ \A b \in Expired : ~b.fresh
<1>1. ASSUME NEW b \in building PROVE [b EXCEPT !.fresh = FALSE] \in Build /\ ~[b EXCEPT !.fresh = FALSE].fresh
  <2>1. b \in Build BY <1>1
  <2>2. [b EXCEPT !.fresh = FALSE] \in Build BY <2>1 DEF Build
  <2>3. [b EXCEPT !.fresh = FALSE].fresh = FALSE BY <2>1 DEF Build
  <2> QED BY <2>2, <2>3
<1> QED BY <1>1 DEF Expired

LEMMA NoGhostIs == NoGhost \in Ghost /\ [d \in Dir |-> NoGhost] \in [Dir -> Ghost]
<1>1. 0 \in 0..Pages /\ 0 \in 0..MaxPagerActs BY PagerSizes
<1>2. NoGhost \in Ghost BY <1>1 DEF NoGhost, Ghost, Filter
<1> QED BY <1>2

LEMMA BuiltKeeps == ASSUME PagerInv, Built PROVE PagerInv'
<1> USE DEF PagerInv
<1>1. PICK b \in building :
        /\ building' = building \ {b}
        /\ ghosts' = IF ~Fits(b) THEN ghosts
                     ELSE [ghosts EXCEPT ![b.dir] =
                         [page |-> b.page, filter |-> b.filter, edition |-> edition]]
        /\ UNCHANGED <<deck, mounted, stage, list, sought, per, edition, fetches, lookup, armed,
                       hearing, ghostKey, peek, committed, litter, touch, shift, locked, handoffs,
                       cols, zoomDue, pagerActs, slips, misled>>
  BY DEF Built
<1> DEFINE g == [page |-> b.page, filter |-> b.filter, edition |-> edition]
<1>2. /\ b.dir \in Dir /\ b.page \in Page /\ b.filter \in Filter
      /\ edition \in 0..MaxPagerActs /\ ghosts \in [Dir -> Ghost]
      /\ building \subseteq Build
  BY Zenon DEF PagerShapes, Build
<1>3. g \in Ghost
  <2>1. b.page \in 0..Pages BY <1>2, PagerSizes DEF Page
  <2> QED BY <1>2, <2>1 DEF Ghost
<1>4. ghosts' \in [Dir -> Ghost]
      /\ \A d \in Dir : ghosts'[d] = ghosts[d] \/ (b.fresh /\ d = b.dir /\ ghosts'[d] = g)
  <2> HIDE DEF g
  <2>1. CASE ~Fits(b) BY <2>1, <1>1, <1>2
  <2>2. CASE Fits(b)
    <3>1. ghosts' = [ghosts EXCEPT ![b.dir] = g] BY <2>2, <1>1 DEF g
    <3> QED BY <3>1, <2>2, <1>2, <1>3 DEF Fits
  <2> QED BY <2>1, <2>2
<1>5. building' \subseteq building BY <1>1
<1>6. ASSUME NEW page, NEW filter, Neighbours(page, filter) PROVE Neighbours(page, filter)'
  <2>1. ASSUME b.fresh PROVE g.page = Beside(page, b.dir) /\ g.filter = filter
    BY <2>1, <1>6 DEF Neighbours
  <2> HIDE DEF g
  <2>2. ASSUME NEW d \in Dir, ghosts'[d] # NoGhost
        PROVE  ghosts'[d].page = Beside(page, d) /\ ghosts'[d].filter = filter
    BY <2>1, <2>2, <1>4, <1>6 DEF Neighbours
  <2>3. \A c \in building' : c.fresh => c.page = Beside(page, c.dir) /\ c.filter = filter
    BY <1>5, <1>6 DEF Neighbours
  <2> QED BY <2>2, <2>3 DEF Neighbours
<1> HIDE DEF g
<1>7. Aligned'
  <2>1. hearing' /\ fetches' = <<>> => Neighbours(armed, sought)'
    <3>1. PICK page, filter : page = armed /\ filter = sought OBVIOUS
    <3>2. hearing /\ fetches = <<>> => Neighbours(page, filter) BY <3>1 DEF Aligned
    <3>3. hearing /\ fetches = <<>> => Neighbours(page, filter)' BY <3>2, <1>6
    <3>4. armed' = page /\ sought' = filter BY <3>1, <1>1
    <3> QED BY <3>3, <3>4, <1>1 DEF Neighbours
  <2>2. ghostKey'.page # 0 => deck' = "media" /\ Neighbours(ghostKey.page, ghostKey.filter)'
    <3>1. PICK page, filter : page = ghostKey.page /\ filter = ghostKey.filter OBVIOUS
    <3>2. ghostKey.page # 0 => deck = "media" /\ Neighbours(page, filter) BY <3>1 DEF Aligned
    <3>3. ghostKey.page # 0 => Neighbours(page, filter)' BY <3>2, <1>6
    <3>4. ghostKey' = ghostKey /\ deck' = deck BY <1>1
    <3>5. ghostKey'.page = page /\ ghostKey'.filter = filter BY <3>1, <3>4
    <3> QED BY <3>1, <3>2, <3>3, <3>4, <3>5 DEF Neighbours
  <2> QED BY <2>1, <2>2 DEF Aligned
<1>8. pagerActs' \in pagerActs..MaxPagerActs BY <1>1, PagerCounts
<1>9. Acts' /\ litter' \in 0..MaxPagerActs /\ edition' \in 0..MaxPagerActs
      /\ pagerActs' \in 0..MaxPagerActs
  BY <1>1, <1>8, ActsNext DEF Acts
<1>10. PagerShapes'
  <2>1. building' \subseteq Build BY <1>2, <1>5
  <2> QED BY <1>1, <1>4, <1>9, <2>1 DEF PagerShapes, Build
<1>11. PagerFlags' BY Zenon, <1>1 DEF PagerFlags
<1>12. Listens' BY <1>1 DEF Listens
<1>13. Fetching' BY <1>1 DEF Fetching
<1>14. Locking' BY <1>1 DEF Locking, OneSlide
<1>15. Pulled' BY <1>1 DEF Pulled, Finger
<1>16. Held' BY <1>1 DEF Held
<1>17. GhostTells' BY <1>1 DEF GhostTells
<1> QED BY <1>7, <1>9, <1>10, <1>11, <1>12, <1>13, <1>14, <1>15, <1>16, <1>17

LEMMA NotBuiltKeeps == ASSUME PagerInv, NotBuilt PROVE PagerInv'
<1> USE DEF PagerInv
<1>1. /\ pagerActs < MaxPagerActs /\ pagerActs' = pagerActs + 1 /\ building' \subseteq building
      /\ UNCHANGED <<deck, mounted, stage, list, sought, per, edition, fetches, lookup, armed,
                     hearing, ghosts, ghostKey, peek, committed, litter, touch, shift, locked,
                     handoffs, cols, zoomDue, slips, misled>>
  BY DEF NotBuilt
<1>2. pagerActs' \in pagerActs..MaxPagerActs BY <1>1, PagerCounts
<1>3. Acts' /\ litter' \in 0..MaxPagerActs /\ edition' \in 0..MaxPagerActs
      /\ pagerActs' \in 0..MaxPagerActs
  BY <1>1, <1>2, ActsNext DEF Acts
<1>4. PagerShapes' BY <1>1, <1>3 DEF PagerShapes
<1>5. PagerFlags' BY Zenon, <1>1 DEF PagerFlags
<1>6. Listens' BY <1>1 DEF Listens
<1>7. Aligned' BY <1>1 DEF Aligned, Neighbours
<1>8. Fetching' BY <1>1 DEF Fetching
<1>9. Locking' BY <1>1 DEF Locking, OneSlide
<1>10. Pulled' BY <1>1 DEF Pulled, Finger
<1>11. Held' BY <1>1 DEF Held
<1>12. GhostTells' BY <1>1 DEF GhostTells
<1> QED BY <1>3, <1>4, <1>5, <1>6, <1>7, <1>8, <1>9, <1>10, <1>11, <1>12

(* A lock that nothing took back in time.                                  *)
LEMMA WatchdogKeeps == ASSUME PagerInv, Watchdog PROVE PagerInv'
<1> USE DEF PagerInv
<1>1. /\ UNCHANGED <<deck, mounted, list, sought, edition, lookup, building, armed, cols>>
      /\ UNCHANGED <<stage, per, fetches, hearing, ghosts, ghostKey, committed, litter, handoffs, misled>>
      /\ UNCHANGED <<touch, zoomDue, pagerActs>>
      /\ handoffs = <<>> /\ locked' = FALSE /\ shift' = "in place" /\ peek' = "none"
      /\ slips' = slips \cup (IF committed = NoGhost THEN {} ELSE {"late"})
  BY DEF Watchdog, Elsewhere, Unasked, Reset
<1>2. pagerActs' \in pagerActs..MaxPagerActs BY <1>1, PagerCounts
<1>3. Acts' /\ litter' \in 0..MaxPagerActs /\ edition' \in 0..MaxPagerActs
      /\ pagerActs' \in 0..MaxPagerActs
  BY <1>1, <1>2, ActsNext DEF Acts
<1>4. slips \subseteq slips' /\ (committed # NoGhost => "late" \in slips') BY <1>1
<1>5. PagerShapes'
  <2>1. slips' \subseteq {"cut", "curved", "crossed", "late", "failed"}
    <3>1. slips \subseteq {"cut", "curved", "crossed", "late", "failed"} BY Zenon DEF PagerShapes
    <3> QED BY <1>1, <3>1
  <2> QED BY <1>1, <1>3, <2>1 DEF PagerShapes
<1>6. PagerFlags' BY Zenon, <1>1 DEF PagerFlags
<1>7. Listens' BY <1>1 DEF Listens
<1>8. Aligned' BY <1>1 DEF Aligned, Neighbours
<1>9. Fetching' BY <1>1 DEF Fetching
<1>10. Locking' BY <1>1, <1>4 DEF Locking, OneSlide
<1>11. Pulled' BY <1>1 DEF Pulled
<1>12. Held' BY <1>1, <1>4 DEF Held
<1>13. GhostTells' BY <1>1 DEF GhostTells
<1> QED BY <1>3, <1>5, <1>6, <1>7, <1>8, <1>9, <1>10, <1>11, <1>12, <1>13

LEMMA ZoomKeeps == ASSUME PagerInv, Zoom PROVE PagerInv'
<1> USE DEF PagerInv
<1>1. /\ UNCHANGED <<deck, mounted, list, sought, edition, lookup, building, armed, peek, shift,
                     locked, slips>>
      /\ UNCHANGED <<stage, per, fetches, hearing, ghosts, ghostKey, committed, litter, handoffs, misled>>
      /\ zoomDue' = TRUE /\ cols' = 3 - cols
      /\ pagerActs < MaxPagerActs /\ pagerActs' = pagerActs + 1
      /\ \/ touch.at \in {"multi", "pinching"} /\ touch' = [touch EXCEPT !.at = "pinching"]
         \/ UNCHANGED touch
  BY DEF Zoom, Unasked
<1>2. touch' \in Touch /\ (touch.at \in {"multi", "pinching"} => touch'.at \in {"multi", "pinching"})
      /\ (touch.at \notin {"multi", "pinching"} => touch' = touch)
  BY <1>1 DEF PagerShapes, Touch
<1>3. cols' \in 1..2
  <2>1. cols \in 1..2 BY Zenon DEF PagerShapes
  <2> QED BY <1>1, <2>1
<1>4. pagerActs' \in pagerActs..MaxPagerActs BY <1>1, PagerCounts
<1>5. Acts' /\ litter' \in 0..MaxPagerActs /\ edition' \in 0..MaxPagerActs
      /\ pagerActs' \in 0..MaxPagerActs
  BY <1>1, <1>4, ActsNext DEF Acts
<1>6. PagerShapes' BY <1>1, <1>2, <1>3, <1>5 DEF PagerShapes, Touch
<1>7. PagerFlags' BY Zenon, <1>1 DEF PagerFlags
<1>8. Listens' BY <1>1, <1>2 DEF Listens
<1>9. Aligned' BY <1>1 DEF Aligned, Neighbours
<1>10. Fetching' BY <1>1 DEF Fetching
<1>11. Locking' BY <1>1 DEF Locking, OneSlide
<1>12. Pulled' BY <1>1, <1>2 DEF Pulled, Finger
<1>13. Held' BY <1>1 DEF Held
<1>14. GhostTells' BY <1>1 DEF GhostTells
<1> QED BY <1>5, <1>6, <1>7, <1>8, <1>9, <1>10, <1>11, <1>12, <1>13, <1>14

LEMMA LeaveGridKeeps == ASSUME PagerInv, LeaveGrid PROVE PagerInv'
<1> USE DEF PagerInv
<1>1. /\ mounted' = FALSE /\ pagerActs < MaxPagerActs /\ pagerActs' = pagerActs + 1
      /\ touch' = Untouched /\ locked' = FALSE /\ zoomDue' = FALSE
      /\ armed' = 0 /\ hearing' = FALSE
      /\ ghosts' = [d \in Dir |-> NoGhost] /\ peek' = "none"
      /\ building' = Expired /\ committed' = NoGhost
      /\ litter' = litter \/ litter' = 0
      /\ UNCHANGED <<deck, stage, list, sought, per, edition, fetches, lookup, ghostKey, shift,
                     handoffs, cols, slips, misled>>
  BY DEF LeaveGrid, Command, Cleared
<1>2. touch' \in Touch /\ touch'.at = "idle" BY <1>1 DEF Touch, Untouched
<1>3. pagerActs' \in pagerActs..MaxPagerActs BY <1>1, PagerCounts
<1>4. Acts' /\ litter' \in 0..MaxPagerActs /\ edition' \in 0..MaxPagerActs
      /\ pagerActs' \in 0..MaxPagerActs
  BY <1>1, <1>2, <1>3, ActsNext DEF Acts
<1>5. building' \subseteq Build /\ \A b \in building' : ~b.fresh
  <2>1. building \subseteq Build BY Zenon DEF PagerShapes, Build
  <2> QED BY <2>1, <1>1, ExpiredIs
<1>6. PagerShapes'
  <2>1. armed' \in 0..Pages BY <1>1, PagerSizes
  <2> QED BY <1>1, <1>2, <1>4, <1>5, <2>1, NoGhostIs DEF PagerShapes, Touch, Build
<1>7. PagerFlags' BY Zenon, <1>1 DEF PagerFlags
<1>8. Listens' BY <1>1, <1>2 DEF Listens
<1>9. Aligned' BY <1>1, <1>5 DEF Aligned, Neighbours
<1>10. Fetching' BY <1>1 DEF Fetching
<1>11. Locking' BY <1>1 DEF Locking, OneSlide
<1>12. Pulled' BY <1>1 DEF Pulled
<1>13. Held' BY <1>1 DEF Held
<1>14. GhostTells' BY <1>1 DEF GhostTells
<1> QED BY <1>4, <1>6, <1>7, <1>8, <1>9, <1>10, <1>11, <1>12, <1>13, <1>14

(***************************************************************************)
(* Requests.                                                               *)
(***************************************************************************)
LEMMA FetchesAre ==
    ASSUME PagerShapes
    PROVE  /\ fetches \in Seq(Fetch) /\ Len(fetches) \in Nat /\ Len(fetches) <= Fetches
           /\ DOMAIN fetches = 1..Len(fetches)
           /\ \A c \in DOMAIN fetches : fetches[c] \in Fetch
<1>1. fetches \in Seq(Fetch) /\ Len(fetches) <= Fetches BY Zenon DEF PagerShapes
<1> QED BY <1>1, LenProperties, ElementOfSeq

(* A request joins those that are under way.                               *)
LEMMA AskIs ==
    ASSUME PagerShapes, Fetching, deck' = deck, sought' \in Filter,
           NEW p \in Page, NEW swiped \in BOOLEAN, NEW refit \in BOOLEAN, ~(swiped /\ refit),
           Ask(p, swiped, refit)
    PROVE  /\ fetches' \in Seq(Fetch) /\ Len(fetches') <= Fetches /\ fetches' # <<>>
           /\ Fetching'
           /\ \A c \in DOMAIN fetches : c \in DOMAIN fetches' /\ fetches'[c] = fetches[c]
           /\ \E c \in DOMAIN fetches' :
                /\ ~refit => ~fetches'[c].refit
                /\ swiped /\ deck = "grid" /\ stage = "grid" => fetches'[c].seamless
           /\ stage' \in {"grid", "spinner", "error"} /\ stage' # "error"
           /\ deck = "media" \/ stage # "grid" => stage' = "spinner"
           /\ deck = "grid" /\ stage = "grid" => stage' = "grid"
<1> DEFINE whole == deck = "media" \/ stage # "grid"
           q == [page |-> p, filter |-> sought', seamless |-> swiped /\ ~whole,
                 refit |-> refit /\ ~whole, whole |-> whole]
           n == Len(fetches)
<1>1. /\ fetches' = Append(fetches, q) /\ Len(fetches) < Fetches
      /\ stage' = IF whole THEN "spinner" ELSE stage
  BY DEF Ask
<1>2. q \in Fetch
  <2>1. (swiped /\ ~whole) \in BOOLEAN /\ (refit /\ ~whole) \in BOOLEAN /\ whole \in BOOLEAN
    BY Zenon
  <2> HIDE DEF whole
  <2>2. PICK a \in BOOLEAN, b \in BOOLEAN, w \in BOOLEAN :
          a = (swiped /\ ~whole) /\ b = (refit /\ ~whole) /\ w = whole
    BY <2>1, Zenon
  <2>3. [page |-> p, filter |-> sought', seamless |-> a, refit |-> b, whole |-> w] \in Fetch
    BY Zenon DEF Fetch
  <2>4. q = [page |-> p, filter |-> sought', seamless |-> a, refit |-> b, whole |-> w]
    BY <2>2, Zenon
  <2> QED BY <2>3, <2>4, Zenon
<1>3. /\ q.refit = (refit /\ ~whole) /\ q.seamless = (swiped /\ ~whole)
  BY Zenon
<1>4. n \in Nat /\ DOMAIN fetches = 1..n /\ fetches \in Seq(Fetch) BY FetchesAre
<1> HIDE DEF q, n
<1>5. /\ fetches' \in Seq(Fetch) /\ Len(fetches') = n + 1 /\ DOMAIN fetches' = 1..(n + 1)
      /\ fetches'[n + 1] = q /\ \A c \in 1..n : fetches'[c] = fetches[c]
  BY <1>1, <1>2, <1>4 DEF n
<1>6. Len(fetches') <= Fetches /\ fetches' # <<>>
  <2>1. n + 1 <= Fetches BY <1>1, <1>4, PagerSizes DEF n
  <2> QED BY <2>1, <1>4, <1>5
<1>7. \A c \in DOMAIN fetches : c \in DOMAIN fetches' /\ fetches'[c] = fetches[c]
  BY <1>4, <1>5
<1>8. Fetching'
  <2> SUFFICES ASSUME NEW c \in DOMAIN fetches'
               PROVE  /\ fetches'[c].refit => ~fetches'[c].seamless
                      /\ deck = "media" => ~fetches'[c].refit
    BY DEF Fetching
  <2>1. CASE c = n + 1
    <3>1. fetches'[c] = q BY <2>1, <1>5
    <3> QED BY <3>1, <1>3, Zenon
  <2>2. CASE c # n + 1
    <3>1. c \in DOMAIN fetches /\ fetches'[c] = fetches[c] BY <2>2, <1>4, <1>5
    <3> QED BY <3>1, Zenon DEF Fetching
  <2> QED BY <2>1, <2>2
<1>9. \E c \in DOMAIN fetches' :
        /\ ~refit => ~fetches'[c].refit
        /\ swiped /\ deck = "grid" /\ stage = "grid" => fetches'[c].seamless
  <2>1. n + 1 \in DOMAIN fetches' /\ fetches'[n + 1] = q BY <1>4, <1>5
  <2>2. (~refit => ~q.refit) /\ (swiped /\ deck = "grid" /\ stage = "grid" => q.seamless)
    BY <1>3, Zenon
  <2> QED BY <2>1, <2>2, Zenon
<1>10. stage \in {"grid", "spinner", "error"} /\ deck \in {"grid", "media"}
  BY Zenon DEF PagerShapes
<1> QED BY <1>1, <1>5, <1>6, <1>7, <1>8, <1>9, <1>10

LEMMA UntouchedIs == Untouched \in Touch /\ Untouched.at = "idle"
BY DEF Untouched, Touch

(* A key, a commit of a zoom, an edit: a request that no swipe promised.   *)
LEMMA AskKeeps ==
    ASSUME PagerInv, mounted,
           NEW p \in Page, NEW refit \in BOOLEAN, Ask(p, FALSE, refit),
           sought' \in Filter, per' \in 1..2, zoomDue' \in BOOLEAN,
           pagerActs' \in pagerActs..MaxPagerActs,
           edition' = edition \/ (edition' = edition + 1 /\ pagerActs' = pagerActs + 1),
           hearing' = (hearing /\ deck = "grid"),
           touch' = Untouched \/ (deck = "grid" /\ touch' = touch),
           deck = "grid" \/ shift' = "in place",
           shift' = shift \/ shift' = "in place",
           slips' = slips \cup Crossing,
           touch' = touch \/ touch.at \notin {"h", "v"} \/ deck = "media",
           UNCHANGED <<deck, mounted, list, lookup, armed, ghosts, ghostKey, building, peek,
                       committed, litter, locked, handoffs, cols, misled>>
    PROVE  PagerInv'
<1> USE DEF PagerInv
<1>1. /\ fetches' \in Seq(Fetch) /\ Len(fetches') <= Fetches /\ fetches' # <<>>
      /\ Fetching'
      /\ \A c \in DOMAIN fetches : c \in DOMAIN fetches' /\ fetches'[c] = fetches[c]
      /\ \E c \in DOMAIN fetches' : ~refit => ~fetches'[c].refit
      /\ stage' \in {"grid", "spinner", "error"} /\ stage' # "error"
      /\ deck = "media" \/ stage # "grid" => stage' = "spinner"
      /\ deck = "grid" /\ stage = "grid" => stage' = "grid"
  BY AskIs
<1>2. slips \subseteq slips' /\ (handoffs # <<>> => "crossed" \in slips')
      /\ (deck = "media" /\ Dragging => "cut" \in slips')
      /\ slips' \subseteq slips \cup {"crossed", "cut"}
  BY DEF Crossing
<1>3. touch' \in Touch /\ (touch' = Untouched => touch'.at = "idle")
  <2>1. touch \in Touch BY Zenon DEF PagerShapes, Touch
  <2>2. touch' = Untouched \/ touch' = touch BY Zenon
  <2> QED BY <2>1, <2>2, UntouchedIs
<1>4. Acts' /\ litter' \in 0..MaxPagerActs /\ edition' \in 0..MaxPagerActs
      /\ pagerActs' \in 0..MaxPagerActs
  BY <1>3, ActsNext DEF Acts
<1>5. PagerShapes'
  <2>1. slips' \subseteq {"cut", "curved", "crossed", "late", "failed"}
    <3>1. slips \subseteq {"cut", "curved", "crossed", "late", "failed"} BY Zenon DEF PagerShapes
    <3> QED BY <1>2, <3>1
  <2>2. shift' \in {"in place", "pulled", "away"} BY DEF PagerShapes
  <2> QED BY <1>1, <1>3, <1>4, <2>1, <2>2 DEF PagerShapes, Touch
<1>6. PagerFlags'
  <2>1. (hearing /\ deck = "grid") \in BOOLEAN BY Zenon
  <2>2. hearing' \in BOOLEAN BY Zenon, <2>1
  <2> QED BY Zenon, <2>2 DEF PagerFlags
<1>7. Listens'
  <2>1. deck \in {"grid", "media"} BY DEF PagerShapes
  <2>2. hearing' => hearing /\ deck = "grid" BY Zenon
  <2>3. touch'.at # "idle" => hearing'
    <3>1. ASSUME touch'.at # "idle" PROVE deck = "grid" /\ hearing BY <3>1, <1>3 DEF Listens
    <3> QED BY <3>1, Zenon
  <2>4. hearing' => mounted' /\ stage' = "grid" /\ armed' # 0 BY <2>2, <1>1 DEF Listens
  <2>5. mounted' /\ stage' # "grid" => shift' = "in place" BY <1>1, <2>1 DEF Listens
  <2>6. touch'.at = "h" => touch'.dir \in Dir
    <3>1. touch' = Untouched \/ touch' = touch BY Zenon
    <3> QED BY <3>1, UntouchedIs DEF Listens
  <2> QED BY <2>3, <2>4, <2>5, <2>6 DEF Listens
<1>8. Aligned' BY <1>1 DEF Aligned, Neighbours
<1>9. Locking' BY <1>2 DEF Locking, OneSlide
<1>10. Pulled'
  <2>1. deck \in {"grid", "media"} BY DEF PagerShapes
  <2>2. shift' = "away" => handoffs' # <<>> \/ \E c \in DOMAIN fetches' : ~fetches'[c].refit
    BY <1>1 DEF Pulled
  <2>3. Finger /\ ~locked => (Finger' /\ ~locked') \/ deck = "media" BY DEF Finger
  <2>4. shift' = "pulled" =>
            \/ Finger' /\ ~locked'
            \/ "curved" \in slips'
            \/ deck' = "grid" /\ "cut" \in slips'
    BY <2>1, <2>3, <1>2 DEF Pulled
  <2>5. peek' # "none" => (Finger' /\ ~locked') \/ slips' \cap {"cut", "curved", "crossed"} # {}
    <3>1. CASE Finger /\ ~locked /\ deck = "media" /\ peek # "none"
      BY <3>1, <1>2 DEF Dragging, Finger
    <3> QED BY <3>1, <2>1, <2>3, <1>2 DEF Pulled
  <2> QED BY <2>2, <2>4, <2>5 DEF Pulled
<1>11. Held'
  <2>1. deck \in {"grid", "media"} BY DEF PagerShapes
  <2>2. slips \cap {"crossed", "late", "failed"} # {} => slips' \cap {"crossed", "late", "failed"} # {}
    BY <1>2
  <2>3. ASSUME handoffs # <<>> PROVE slips' \cap {"crossed", "late", "failed"} # {} BY <1>2, <2>3
  <2>4. (\E c \in DOMAIN fetches : deck = "media" \/ fetches[c].seamless) =>
        \E c \in DOMAIN fetches' : deck' = "media" \/ fetches'[c].seamless
    BY <1>1
  <2>5. CASE litter = 0 /\ (committed # NoGhost =>
               /\ stage # "error"
               /\ deck = "grid" => stage = "grid"
               /\ handoffs # <<>> \/ \E c \in DOMAIN fetches : deck = "media" \/ fetches[c].seamless)
    BY <2>3, <2>4, <2>5, <1>1 DEF Held
  <2>6. CASE slips \cap {"crossed", "late", "failed"} # {} BY <2>2, <2>6 DEF Held
  <2> QED BY <2>5, <2>6 DEF Held
<1>12. GhostTells' BY DEF GhostTells
<1> QED BY <1>1, <1>4, <1>5, <1>6, <1>7, <1>8, <1>9, <1>10, <1>11, <1>12


(* A finger is lifted, and nothing is asked for.                           *)
LEMMA LiftKeeps ==
    ASSUME PagerInv, touch' = Untouched, touch.at # "idle",
           \/ shift' = "in place" /\ peek' = "none" /\ slips' = slips
           \/ /\ UNCHANGED <<shift, peek>>
              /\ slips' = slips \/ slips' = slips \cup {"curved"}
              /\ Finger /\ ~locked /\ Dragging => "curved" \in slips',
           UNCHANGED <<deck, mounted, list, sought, edition, lookup, building, armed, cols>>,
           UNCHANGED <<stage, per, fetches, hearing, ghosts, ghostKey, committed, litter, handoffs,
                       misled, locked, zoomDue, pagerActs>>
    PROVE  PagerInv'
<1> USE DEF PagerInv
<1>1. slips \subseteq slips' /\ slips' \subseteq slips \cup {"curved"} OBVIOUS
<1>2. touch' \in Touch /\ touch'.at = "idle" BY UntouchedIs
<1>3. pagerActs' \in pagerActs..MaxPagerActs BY PagerCounts
<1>4. Acts' /\ litter' \in 0..MaxPagerActs /\ edition' \in 0..MaxPagerActs
      /\ pagerActs' \in 0..MaxPagerActs
  BY <1>2, <1>3, ActsNext DEF Acts
<1>5. PagerShapes'
  <2>1. slips' \subseteq {"cut", "curved", "crossed", "late", "failed"}
    <3>1. slips \subseteq {"cut", "curved", "crossed", "late", "failed"} BY Zenon DEF PagerShapes
    <3> QED BY <1>1, <3>1
  <2> QED BY <1>2, <1>4, <2>1 DEF PagerShapes, Touch
<1>6. PagerFlags' BY Zenon DEF PagerFlags
<1>7. Listens' BY <1>2 DEF Listens
<1>8. Aligned' BY DEF Aligned, Neighbours
<1>9. Fetching' BY DEF Fetching
<1>10. Locking' BY <1>1 DEF Locking, OneSlide
<1>11. Pulled'
  <2>1. shift' = "away" /\ mounted => handoffs' # <<>> \/ \E c \in DOMAIN fetches' : ~fetches'[c].refit
    BY DEF Pulled
  <2>2. shift' = "pulled" /\ mounted => "curved" \in slips' \/ (deck' = "grid" /\ "cut" \in slips')
    BY <1>1 DEF Pulled, Dragging, Finger
  <2>3. peek' # "none" /\ mounted => slips' \cap {"cut", "curved", "crossed"} # {}
    BY <1>1 DEF Pulled, Dragging, Finger
  <2> QED BY <2>1, <2>2, <2>3 DEF Pulled
<1>12. Held' BY <1>1 DEF Held
<1>13. GhostTells' BY DEF GhostTells
<1> QED BY <1>4, <1>5, <1>6, <1>7, <1>8, <1>9, <1>10, <1>11, <1>12, <1>13

(* A swipe that no ghost accompanies.                                      *)
LEMMA CommitPlainlyKeeps ==
    ASSUME PagerInv, touch.at = "h", touch' = Untouched, ~locked, locked' = TRUE,
           NEW p \in Page, CommitPlainly(p),
           UNCHANGED <<deck, mounted, list, sought, edition, lookup, building, armed, cols>>,
           UNCHANGED <<per, zoomDue, pagerActs>>
    PROVE  PagerInv'
<1> USE DEF PagerInv
<1>1. /\ Ask(p, FALSE, FALSE) /\ hearing' = (hearing /\ deck = "grid")
      /\ shift' = "in place" /\ peek' = "none"
      /\ UNCHANGED <<ghosts, ghostKey, committed, litter, handoffs, slips, misled>>
  BY DEF CommitPlainly, Deafened, Reset
<1>2. /\ fetches' \in Seq(Fetch) /\ Len(fetches') <= Fetches /\ fetches' # <<>>
      /\ Fetching'
      /\ \A c \in DOMAIN fetches : c \in DOMAIN fetches' /\ fetches'[c] = fetches[c]
      /\ stage' \in {"grid", "spinner", "error"} /\ stage' # "error"
      /\ deck = "grid" /\ stage = "grid" => stage' = "grid"
  <2>1. sought' \in Filter BY DEF PagerShapes
  <2> QED BY <2>1, <1>1, AskIs
<1>3. hearing /\ mounted /\ stage = "grid" /\ armed # 0 BY DEF Listens
<1>4. handoffs # <<>> => "crossed" \in slips BY <1>3 DEF Locking
<1>5. touch' \in Touch /\ touch'.at = "idle" BY UntouchedIs
<1>6. pagerActs' \in pagerActs..MaxPagerActs BY PagerCounts
<1>7. Acts' /\ litter' \in 0..MaxPagerActs /\ edition' \in 0..MaxPagerActs
      /\ pagerActs' \in 0..MaxPagerActs
  BY <1>1, <1>5, <1>6, ActsNext DEF Acts
<1>8. PagerShapes' BY <1>1, <1>2, <1>5, <1>7 DEF PagerShapes, Touch
<1>9. PagerFlags'
  <2>1. (hearing /\ deck = "grid") \in BOOLEAN BY Zenon
  <2>2. hearing' \in BOOLEAN BY Zenon, <2>1, <1>1
  <2> QED BY Zenon, <2>2, <1>1 DEF PagerFlags
<1>10. Listens'
  <2>1. hearing' => deck = "grid" BY Zenon, <1>1
  <2> QED BY <2>1, <1>1, <1>2, <1>3, <1>5 DEF Listens
<1>11. Aligned' BY <1>1, <1>2 DEF Aligned, Neighbours
<1>12. Locking' BY <1>1, <1>4 DEF Locking, OneSlide
<1>13. Pulled' BY <1>1 DEF Pulled
<1>14. Held' BY <1>1, <1>2, <1>3, <1>4 DEF Held
<1>15. GhostTells' BY <1>1 DEF GhostTells
<1> QED BY <1>2, <1>7, <1>8, <1>9, <1>10, <1>11, <1>12, <1>13, <1>14, <1>15

(* A swipe that slides a ghost in: the ghost is the neighbour's, unless a  *)
(* load under way will draw another page.                                  *)
LEMMA CommitGhostKeeps ==
    ASSUME PagerInv, touch.at = "h", touch' = Untouched, ~locked, locked' = TRUE,
           NEW dir \in Dir, Beside(armed, dir) \in Page, ghosts[dir] # NoGhost,
           CommitGhost(dir, Beside(armed, dir)),
           UNCHANGED <<deck, mounted, list, sought, edition, lookup, building, armed, cols>>,
           UNCHANGED <<per, zoomDue, pagerActs>>
    PROVE  PagerInv'
<1> USE DEF PagerInv
<1> DEFINE ghost == ghosts[dir]
           target == Beside(armed, dir)
<1>1. /\ shift' = "away" /\ peek' = "none" /\ committed' = ghost
      /\ litter' = IF committed = NoGhost THEN litter ELSE litter + 1
      /\ ghosts' = [ghosts EXCEPT ![dir] = NoGhost]
      /\ ghostKey' = [ghostKey EXCEPT !.page = 0]
      /\ handoffs' = Append(handoffs, target)
      /\ slips' = slips \cup (IF fetches = <<>> THEN {} ELSE {"crossed"})
      /\ misled' = (misled \/ (fetches = <<>> /\ ghost.edition = edition
                               /\ <<ghost.page, ghost.filter>> # <<target, sought>>))
      /\ UNCHANGED <<stage, fetches, hearing>>
  BY DEF CommitGhost
<1>2. hearing /\ mounted /\ stage = "grid" /\ armed # 0 BY DEF Listens
<1>3. handoffs # <<>> => "crossed" \in slips BY <1>2 DEF Locking
<1>4. fetches = <<>> => ghost.page = target /\ ghost.filter = sought
  BY <1>2 DEF Aligned, Neighbours
<1>5. ghosts \in [Dir -> Ghost] /\ handoffs \in Seq(Page) BY Zenon DEF PagerShapes
<1>6. ghosts' \in [Dir -> Ghost] /\ committed' \in Ghost
      /\ \A d \in Dir : ghosts'[d] = NoGhost \/ ghosts'[d] = ghosts[d]
  BY <1>1, <1>5, NoGhostIs
<1>7. handoffs' \in Seq(Page) /\ handoffs' # <<>> /\ Len(handoffs') = Len(handoffs) + 1
  <2> HIDE DEF target
  <2>1. target \in Page BY DEF target
  <2> QED BY <1>1, <1>5, <2>1
<1>8. ghostKey' \in [page : 0..Pages, filter : Filter, per : 1..2] /\ ghostKey'.page = 0
  <2>1. ghostKey \in [page : 0..Pages, filter : Filter, per : 1..2] BY Zenon DEF PagerShapes
  <2>2. 0 \in 0..Pages BY PagerSizes
  <2> QED BY <1>1, <2>1, <2>2
<1>9. misled' = FALSE BY <1>1, <1>4 DEF GhostTells
<1> HIDE DEF ghost, target
<1>10. touch' \in Touch /\ touch'.at = "idle" BY UntouchedIs
<1>11. pagerActs' \in pagerActs..MaxPagerActs BY PagerCounts
<1>12. Acts' /\ litter' \in 0..MaxPagerActs /\ edition' \in 0..MaxPagerActs
      /\ pagerActs' \in 0..MaxPagerActs
  BY <1>1, <1>10, <1>11, ActsNext DEF Acts
<1>13. slips \subseteq slips' /\ slips' \subseteq slips \cup {"crossed"}
       /\ (fetches # <<>> => "crossed" \in slips')
  BY <1>1
<1>14. PagerShapes'
  <2>1. slips' \subseteq {"cut", "curved", "crossed", "late", "failed"}
    <3>1. slips \subseteq {"cut", "curved", "crossed", "late", "failed"} BY Zenon DEF PagerShapes
    <3> QED BY <1>13, <3>1
  <2> QED BY <1>1, <1>6, <1>7, <1>8, <1>10, <1>12, <2>1 DEF PagerShapes, Touch
<1>15. PagerFlags' BY Zenon, <1>1, <1>9 DEF PagerFlags
<1>16. Listens' BY <1>1, <1>2, <1>10 DEF Listens
<1>17. Aligned' BY <1>1, <1>6, <1>8 DEF Aligned, Neighbours
<1>18. Fetching' BY <1>1 DEF Fetching
<1>19. Locking'
  <2>1. handoffs = <<>> => Len(handoffs') = 1
    <3>1. Len(<<>>) = 0 OBVIOUS
    <3> QED BY <3>1, <1>7
  <2> QED BY <2>1, <1>1, <1>3, <1>13 DEF Locking, OneSlide
<1>20. Pulled' BY <1>1, <1>7 DEF Pulled
<1>21. Held'
  <2>1. CASE slips' \cap {"crossed", "late", "failed"} # {} BY <2>1 DEF Held
  <2>2. CASE slips' \cap {"crossed", "late", "failed"} = {}
    <3>1. slips \cap {"crossed", "late", "failed"} = {} /\ fetches = <<>> /\ handoffs = <<>>
      BY <2>2, <1>3, <1>13
    <3>2. DOMAIN fetches = {} BY <3>1
    <3>3. committed = NoGhost /\ litter = 0 BY <3>1, <3>2, <1>2 DEF Held
    <3> QED BY <3>3, <1>1, <1>2, <1>7 DEF Held
  <2> QED BY <2>1, <2>2
<1>22. GhostTells' BY <1>9 DEF GhostTells
<1> QED BY <1>12, <1>14, <1>15, <1>16, <1>17, <1>18, <1>19, <1>20, <1>21, <1>22

LEMMA TouchUpKeeps == ASSUME PagerInv, TouchUp PROVE PagerInv'
<1>1. /\ touch.at \in {"single", "h", "v"} /\ touch' = Untouched
      /\ UNCHANGED <<deck, mounted, list, sought, edition, lookup, building, armed, cols>>
      /\ UNCHANGED <<per, zoomDue, pagerActs>>
  BY DEF TouchUp, Elsewhere
<1> DEFINE Idle == UNCHANGED <<stage, per, fetches, hearing, ghosts, ghostKey, committed, litter,
                               handoffs, misled>>
<1>2. CASE touch.at = "single" /\ Idle /\ UNCHANGED <<shift, peek, locked, slips>>
  BY <1>1, <1>2, LiftKeeps DEF Finger
<1>3. CASE touch.at = "v" /\ Idle /\ UNCHANGED <<shift, peek, locked>>
           /\ slips' = slips \cup (IF Dragging THEN {"curved"} ELSE {})
  BY <1>1, <1>3, LiftKeeps
<1>4. CASE Reset /\ Idle /\ UNCHANGED <<locked, slips>>
  BY <1>1, <1>4, LiftKeeps DEF Reset
<1>5. CASE locked /\ Idle /\ UNCHANGED <<shift, peek, locked, slips>>
  BY <1>1, <1>5, LiftKeeps
<1>6. CASE /\ touch.at = "h" /\ Takes(touch.dir) /\ locked' = TRUE
           /\ IF ghosts[touch.dir] = NoGhost THEN CommitPlainly(Beside(armed, touch.dir))
              ELSE CommitGhost(touch.dir, Beside(armed, touch.dir))
  <2>1. ~locked /\ Beside(armed, touch.dir) \in Page BY <1>6 DEF Takes, Blocked
  <2>2. touch.dir \in Dir BY <1>6 DEF PagerInv, Listens
  <2>3. CASE ghosts[touch.dir] = NoGhost
    BY <1>1, <1>6, <2>1, <2>3, CommitPlainlyKeeps
  <2>4. CASE ghosts[touch.dir] # NoGhost
    <3>1. PICK dir \in Dir : dir = touch.dir BY <2>2
    <3> QED BY <1>1, <1>6, <2>1, <2>4, <3>1, CommitGhostKeeps
  <2> QED BY <2>3, <2>4
<1> QED BY <1>2, <1>3, <1>4, <1>5, <1>6 DEF TouchUp, Unasked

(* 280 ms after a swipe, its page is asked for.                            *)
LEMMA HandoffKeeps == ASSUME PagerInv, Handoff PROVE PagerInv'
<1> USE DEF PagerInv
<1>1. /\ handoffs # <<>> /\ handoffs' = Tail(handoffs) /\ UNCHANGED <<sought, per>>
      /\ IF mounted THEN Ask(Head(handoffs), TRUE, FALSE) /\ Released
         ELSE UNCHANGED <<stage, fetches, hearing, touch, shift>>
      /\ UNCHANGED <<deck, mounted, list, edition, lookup, armed, ghosts, ghostKey, building,
                     peek, committed, litter, locked, cols, zoomDue, pagerActs, slips, misled>>
  BY DEF Handoff, pagePreloads
<1>2. /\ handoffs \in Seq(Page) /\ Head(handoffs) \in Page /\ handoffs' \in Seq(Page)
      /\ Len(handoffs') = Len(handoffs) - 1 /\ Len(handoffs) \in Nat
  <2>1. handoffs \in Seq(Page) BY Zenon DEF PagerShapes
  <2> QED BY <2>1, <1>1
<1>3. pagerActs' \in pagerActs..MaxPagerActs BY <1>1, PagerCounts
<1>4. OneSlide' /\ (handoffs' # <<>> => "crossed" \in slips')
  <2>1. OneSlide BY DEF Locking
  <2>2. Len(handoffs) <= 1 => handoffs' = <<>>
    BY <1>1, <1>2
  <2> QED BY <2>1, <2>2, <1>1, <1>2 DEF OneSlide
<1>5. Locking' BY <1>4 DEF Locking
<1>6. GhostTells' BY <1>1 DEF GhostTells
<1>7. CASE ~mounted
  <2>1. UNCHANGED <<stage, fetches, hearing, touch, shift>> BY <1>1, <1>7
  <2>2. Acts' /\ litter' \in 0..MaxPagerActs /\ edition' \in 0..MaxPagerActs
        /\ pagerActs' \in 0..MaxPagerActs
    BY <2>1, <1>1, <1>3, ActsNext DEF Acts
  <2>3. PagerShapes' BY <2>1, <2>2, <1>1, <1>2 DEF PagerShapes
  <2>4. PagerFlags' BY Zenon, <2>1, <1>1 DEF PagerFlags
  <2>5. Listens' BY <2>1, <1>1 DEF Listens
  <2>6. Aligned' BY <2>1, <1>1 DEF Aligned, Neighbours
  <2>7. Fetching' BY <2>1, <1>1 DEF Fetching
  <2>8. Pulled' BY <1>7, <1>1 DEF Pulled
  <2>9. Held' BY <1>7, <1>1 DEF Held
  <2> QED BY <2>2, <2>3, <2>4, <2>5, <2>6, <2>7, <2>8, <2>9, <1>5, <1>6
<1>8. CASE mounted
  <2>1. /\ Ask(Head(handoffs), TRUE, FALSE) /\ hearing' = (hearing /\ deck = "grid")
        /\ touch' = IF deck = "media" THEN Untouched ELSE touch
        /\ shift' = IF deck = "media" THEN "in place" ELSE shift
    BY <1>1, <1>8 DEF Released, Deafened
  <2>2. /\ fetches' \in Seq(Fetch) /\ Len(fetches') <= Fetches /\ fetches' # <<>>
        /\ Fetching'
        /\ \A c \in DOMAIN fetches : c \in DOMAIN fetches' /\ fetches'[c] = fetches[c]
        /\ \E c \in DOMAIN fetches' :
             /\ ~fetches'[c].refit
             /\ deck = "grid" /\ stage = "grid" => fetches'[c].seamless
        /\ stage' \in {"grid", "spinner", "error"} /\ stage' # "error"
        /\ deck = "media" \/ stage # "grid" => stage' = "spinner"
        /\ deck = "grid" /\ stage = "grid" => stage' = "grid"
    <3>1. sought' \in Filter BY <1>1 DEF PagerShapes
    <3> QED BY <3>1, <2>1, <1>1, <1>2, AskIs
  <2>3. deck \in {"grid", "media"} BY Zenon DEF PagerShapes
  <2>4. touch' \in Touch /\ (deck = "media" => touch'.at = "idle")
        /\ (deck = "grid" => touch' = touch)
    <3>1. touch \in Touch BY Zenon DEF PagerShapes, Touch
    <3> QED BY <3>1, <2>1, <2>3, UntouchedIs
  <2>5. Acts' /\ litter' \in 0..MaxPagerActs /\ edition' \in 0..MaxPagerActs
        /\ pagerActs' \in 0..MaxPagerActs
    BY <1>1, <1>3, <2>3, <2>4, ActsNext DEF Acts
  <2>6. PagerShapes'
    <3>1. shift' \in {"in place", "pulled", "away"} BY <2>1 DEF PagerShapes
    <3> QED BY <3>1, <1>1, <1>2, <2>2, <2>4, <2>5 DEF PagerShapes, Touch
  <2>7. PagerFlags'
    <3>1. (hearing /\ deck = "grid") \in BOOLEAN BY Zenon
    <3>2. hearing' \in BOOLEAN BY Zenon, <3>1, <2>1
    <3> QED BY Zenon, <3>2, <1>1 DEF PagerFlags
  <2>8. Listens'
    <3>1. hearing' => hearing /\ deck = "grid" BY Zenon, <2>1
    <3>2. touch'.at # "idle" => hearing'
      <4>1. ASSUME touch'.at # "idle" PROVE deck = "grid" /\ hearing BY <4>1, <2>3, <2>4 DEF Listens
      <4> QED BY <4>1, <2>1, Zenon
    <3>3. hearing' => mounted' /\ stage' = "grid" /\ armed' # 0 BY <3>1, <1>1, <2>2 DEF Listens
    <3>4. mounted' /\ stage' # "grid" => shift' = "in place"
      BY <1>1, <2>1, <2>2, <2>3 DEF Listens
    <3>5. touch'.at = "h" => touch'.dir \in Dir BY <2>3, <2>4 DEF Listens
    <3> QED BY <3>2, <3>3, <3>4, <3>5 DEF Listens
  <2>9. Aligned' BY <1>1, <2>2 DEF Aligned, Neighbours
  <2>10. Pulled'
    <3>1. shift' = "away" => \E c \in DOMAIN fetches' : ~fetches'[c].refit BY <2>2
    <3>2. "crossed" \notin slips => locked BY <1>1, <1>8 DEF Locking
    <3>3. CASE deck = "media"
      <4>1. shift' = "in place" BY <2>1, <3>3
      <4>2. peek' # "none" => slips' \cap {"cut", "curved", "crossed"} # {}
        BY <1>1, <1>8, <3>2 DEF Pulled
      <4> QED BY <4>1, <4>2 DEF Pulled
    <3>4. CASE deck = "grid"
      <4>1. shift' = shift /\ touch' = touch BY <3>4, <2>1
      <4> QED BY <4>1, <3>1, <1>1, <1>8 DEF Pulled, Finger
    <3> QED BY <3>3, <3>4, <2>3
  <2>11. Held'
    <3>1. CASE slips \cap {"crossed", "late", "failed"} # {} BY <3>1, <1>1 DEF Held
    <3>2. CASE slips \cap {"crossed", "late", "failed"} = {}
      <4>1. litter' = 0 BY <3>2, <1>1, <1>8 DEF Held
      <4>2. ASSUME committed' # NoGhost
            PROVE  /\ stage' # "error"
                   /\ deck' = "grid" => stage' = "grid"
                   /\ \E c \in DOMAIN fetches' : deck' = "media" \/ fetches'[c].seamless
        <5>1. deck = "grid" => stage = "grid" BY <3>2, <4>2, <1>1, <1>8 DEF Held
        <5> QED BY <5>1, <2>2, <2>3, <1>1
      <4> QED BY <4>1, <4>2 DEF Held
    <3> QED BY <3>1, <3>2
  <2> QED BY <2>2, <2>5, <2>6, <2>7, <2>8, <2>9, <2>10, <2>11, <1>5, <1>6
<1> QED BY <1>7, <1>8

(* The columns of a zoom that is over are asked for.                       *)
LEMMA CommitZoomKeeps == ASSUME PagerInv, CommitZoom PROVE PagerInv'
<1> USE DEF PagerInv
<1>1. /\ IF touch.at \in {"multi", "pinching"} THEN touch' = Untouched
         ELSE touch' = IF deck = "media" /\ cols # per THEN Untouched ELSE touch
      /\ zoomDue' = FALSE /\ UNCHANGED sought
      /\ UNCHANGED <<deck, mounted, list, edition, lookup, armed, ghosts, ghostKey, building,
                     peek, committed, litter, locked, handoffs, cols, pagerActs, misled>>
  BY Zenon DEF CommitZoom, pagePreloads
<1>2. pagerActs' \in pagerActs..MaxPagerActs BY <1>1, PagerCounts
<1>3. touch' = Untouched \/ touch' = touch BY <1>1
<1>4. cols \in 1..2 /\ list.page \in Page /\ sought \in Filter /\ deck \in {"grid", "media"} BY DEF PagerShapes
<1>5. CASE mounted /\ stage = "grid" /\ cols # per
  <2>1. /\ per' = cols /\ Ask(list.page, FALSE, TRUE)
        /\ hearing' = (hearing /\ deck = "grid")
        /\ shift' = (IF deck = "media" THEN "in place" ELSE shift)
        /\ slips' = slips \cup Crossing
    BY <1>5 DEF CommitZoom, Deafened
  <2>2. touch' = Untouched \/ (deck = "grid" /\ touch' = touch) BY <1>1, <1>4, <1>5
  <2>3. touch' = touch \/ touch.at \notin {"h", "v"} \/ deck = "media" BY <1>1, <1>4
  <2>4. shift' = shift \/ shift' = "in place" BY <2>1
  <2>5. deck = "grid" \/ shift' = "in place" BY <2>1, <1>4
  <2>6. TRUE \in BOOLEAN /\ zoomDue' \in BOOLEAN BY Zenon, <1>1
  <2>7. per' \in 1..2 /\ sought' \in Filter BY <2>1, <1>1, <1>4
  <2> QED BY <1>1, <1>2, <1>4, <1>5, <2>1, <2>2, <2>3, <2>4, <2>5, <2>6, <2>7, AskKeeps
<1>6. CASE ~(mounted /\ stage = "grid" /\ cols # per)
  <2>1. UNCHANGED <<per, stage, fetches, hearing, shift, slips>> BY <1>6, Zenon DEF CommitZoom
  <2>2. touch' \in Touch
    <3>1. touch \in Touch BY Zenon DEF PagerShapes, Touch
    <3> QED BY <3>1, <1>3, UntouchedIs
  <2>3. touch' = touch \/ (touch'.at = "idle" /\ touch.at \notin {"h", "v"})
    <3>1. CASE touch' = touch BY <3>1
    <3>2. CASE touch.at \in {"multi", "pinching"} BY <3>2, <1>1, UntouchedIs
    <3>3. CASE touch' = Untouched /\ cols # per
      <4>1. ~(mounted /\ stage = "grid") BY <3>3, <1>6
      <4>2. touch.at = "idle" BY <4>1 DEF Listens
      <4> QED BY <4>2, <3>3, UntouchedIs
    <3> QED BY <3>1, <3>2, <3>3, <1>1
  <2>4. Acts' /\ litter' \in 0..MaxPagerActs /\ edition' \in 0..MaxPagerActs
        /\ pagerActs' \in 0..MaxPagerActs
    BY <1>1, <1>2, <2>3, ActsNext DEF Acts
  <2>5. PagerShapes' BY <1>1, <2>1, <2>2, <2>4 DEF PagerShapes, Touch
  <2>6. PagerFlags' BY Zenon, <1>1, <2>1 DEF PagerFlags
  <2>7. Listens' BY <1>1, <2>1, <2>3 DEF Listens
  <2>8. Aligned' BY <1>1, <2>1 DEF Aligned, Neighbours
  <2>9. Fetching' BY <1>1, <2>1 DEF Fetching
  <2>10. Locking' BY <1>1, <2>1 DEF Locking, OneSlide
  <2>11. Pulled' BY <1>1, <2>1, <2>3 DEF Pulled, Finger
  <2>12. Held' BY <1>1, <2>1 DEF Held
  <2>13. GhostTells' BY <1>1 DEF GhostTells
  <2> QED BY <2>4, <2>5, <2>6, <2>7, <2>8, <2>9, <2>10, <2>11, <2>12, <2>13
<1> QED BY <1>5, <1>6

(* A key or a chevron, on a page with a neighbour.                         *)
LEMMA PressKeyKeeps ==
    ASSUME PagerInv, NEW dir \in Dir, PressKey(dir)
    PROVE  PagerInv'
<1> USE DEF PagerInv
<1>1. /\ mounted /\ pagerActs < MaxPagerActs /\ pagerActs' = pagerActs + 1
      /\ Beside(armed, dir) \in Page
      /\ UNCHANGED <<sought, per>> /\ Ask(Beside(armed, dir), FALSE, FALSE)
      /\ hearing' = (hearing /\ deck = "grid")
      /\ touch' = IF deck = "media" THEN Untouched ELSE touch
      /\ shift' = IF deck = "media" THEN "in place" ELSE shift
      /\ slips' = slips \cup Crossing
      /\ UNCHANGED <<deck, mounted, list, edition, lookup, armed, ghosts, ghostKey, building,
                     peek, committed, litter, locked, handoffs, cols, zoomDue, misled>>
  BY DEF PressKey, Command, Blocked, Released, Deafened, pagePreloads
<1>2. pagerActs' \in pagerActs..MaxPagerActs BY <1>1, PagerCounts
<1>3. deck \in {"grid", "media"} BY Zenon DEF PagerShapes
<1>4. per' \in 1..2 /\ sought' \in Filter
  <2>1. per \in 1..2 /\ sought \in Filter BY Zenon DEF PagerShapes
  <2> QED BY <2>1, <1>1
<1>5. zoomDue' \in BOOLEAN /\ FALSE \in BOOLEAN BY Zenon, <1>1 DEF PagerFlags
<1>6. /\ touch' = Untouched \/ (deck = "grid" /\ touch' = touch)
      /\ touch' = touch \/ touch.at \notin {"h", "v"} \/ deck = "media"
      /\ deck = "grid" \/ shift' = "in place"
      /\ shift' = shift \/ shift' = "in place"
  BY <1>1, <1>3
<1>7. edition' = edition BY <1>1
<1> QED BY <1>1, <1>2, <1>3, <1>4, <1>5, <1>6, <1>7, AskKeeps

(* A file is renamed, deleted or added.                                    *)
LEMMA EditKeeps == ASSUME PagerInv, Edit PROVE PagerInv'
<1> USE DEF PagerInv
<1>1. /\ deck = "media" /\ mounted /\ pagerActs < MaxPagerActs /\ pagerActs' = pagerActs + 1
      /\ edition' = edition + 1
      /\ UNCHANGED <<sought, per>> /\ Ask(1, FALSE, FALSE)
      /\ hearing' = (hearing /\ deck = "grid")
      /\ touch' = Untouched /\ shift' = "in place"
      /\ slips' = slips \cup Crossing
      /\ UNCHANGED <<deck, mounted, list, lookup, armed, ghosts, ghostKey, building,
                     peek, committed, litter, locked, handoffs, cols, zoomDue, misled>>
  BY DEF Edit, Command, Released, Deafened, pagePreloads
<1>2. pagerActs' \in pagerActs..MaxPagerActs BY <1>1, PagerCounts
<1>3. per' \in 1..2 /\ sought' \in Filter
  <2>1. per \in 1..2 /\ sought \in Filter BY Zenon DEF PagerShapes
  <2> QED BY <2>1, <1>1
<1>4. zoomDue' \in BOOLEAN /\ FALSE \in BOOLEAN BY Zenon, <1>1 DEF PagerFlags
<1>5. 1 \in Page BY PagerSizes DEF Page
<1> QED BY <1>1, <1>2, <1>3, <1>4, <1>5, AskKeeps

(***************************************************************************)
(* Arming, by answers and by a redraw.                                     *)
(***************************************************************************)
(* Where an element stood before the c-th was removed.                     *)
Before(c, d) == IF d < c THEN d ELSE d + 1

LEMMA WithoutIs ==
    ASSUME NEW S, NEW s \in Seq(S), NEW c \in 1..Len(s)
    PROVE  /\ RemoveAt(s, c) \in Seq(S)
           /\ Len(RemoveAt(s, c)) = Len(s) - 1
           /\ \A d \in 1..(Len(s) - 1) : RemoveAt(s, c)[d] = s[Before(c, d)]
<1> DEFINE a == SubSeq(s, 1, c - 1)
           b == SubSeq(s, c + 1, Len(s))
<1>1. a \in Seq(S) /\ Len(a) = c - 1 /\ \A i \in 1..(c - 1) : a[i] = s[i]
  BY SubSeqProperties
<1>2. b \in Seq(S) /\ Len(b) = Len(s) - c /\ \A i \in 1..(Len(s) - c) : b[i] = s[c + i]
  BY SubSeqProperties
<1> HIDE DEF a, b
<1>3. RemoveAt(s, c) = a \o b BY DEF RemoveAt, a, b
<1>4. a \o b \in Seq(S) /\ Len(a \o b) = Len(s) - 1
  <2>1. a \o b \in Seq(S) /\ Len(a \o b) = Len(a) + Len(b) BY <1>1, <1>2, ConcatProperties
  <2> QED BY <2>1, <1>1, <1>2
<1>5. ASSUME NEW d \in 1..(Len(s) - 1) PROVE (a \o b)[d] = s[Before(c, d)]
  <2>1. CASE d < c
    BY <2>1, <1>1, <1>2 DEF Before
  <2>2. CASE ~(d < c)
    <3>1. (a \o b)[d] = b[d - (c - 1)] BY <2>2, <1>1, <1>2
    <3>2. d - (c - 1) \in 1..(Len(s) - c) /\ c + (d - (c - 1)) = d + 1 BY <2>2
    <3> QED BY <3>1, <3>2, <1>2, <2>2 DEF Before
  <2> QED BY <2>1, <2>2
<1> QED BY <1>3, <1>4, <1>5

(* An answer takes its request away, and no other.                         *)
LEMMA AnswerIs ==
    ASSUME PagerShapes, Fetching, deck' = deck, NEW c \in DOMAIN fetches,
           fetches' = RemoveAt(fetches, c)
    PROVE  /\ fetches' \in Seq(Fetch) /\ Len(fetches') <= Fetches /\ Fetching'
           /\ fetches[c] \in Fetch
           /\ \A i \in DOMAIN fetches : i # c => \E e \in DOMAIN fetches' : fetches'[e] = fetches[i]
<1> DEFINE n == Len(fetches)
<1>1. /\ fetches \in Seq(Fetch) /\ n \in Nat /\ n <= Fetches /\ DOMAIN fetches = 1..n
      /\ fetches[c] \in Fetch
  BY FetchesAre
<1>2. c \in 1..Len(fetches) BY <1>1
<1>3. /\ fetches' \in Seq(Fetch) /\ Len(fetches') = n - 1
      /\ \A d \in 1..(n - 1) : fetches'[d] = fetches[Before(c, d)]
  BY <1>1, <1>2, WithoutIs
<1> HIDE DEF n
<1>4. c \in 1..n /\ DOMAIN fetches' = 1..(n - 1)
  <2>1. DOMAIN fetches' = 1..Len(fetches') BY <1>3, LenProperties
  <2> QED BY <2>1, <1>1, <1>2, <1>3
<1>5. Len(fetches') <= Fetches BY <1>1, <1>3, PagerSizes
<1>6. Fetching'
  <2> SUFFICES ASSUME NEW d \in DOMAIN fetches'
               PROVE  /\ fetches'[d].refit => ~fetches'[d].seamless
                      /\ deck = "media" => ~fetches'[d].refit
    BY DEF Fetching
  <2>1. Before(c, d) \in 1..n BY <1>1, <1>4 DEF Before
  <2>2. fetches'[d] = fetches[Before(c, d)] BY <1>3, <1>4
  <2> QED BY <2>1, <2>2, <1>1, Zenon DEF Fetching
<1>7. ASSUME NEW i \in DOMAIN fetches, i # c
      PROVE  \E e \in DOMAIN fetches' : fetches'[e] = fetches[i]
  <2> DEFINE e == IF i < c THEN i ELSE i - 1
  <2>1. e \in 1..(n - 1) /\ Before(c, e) = i BY <1>1, <1>4, <1>7 DEF Before
  <2> HIDE DEF e
  <2> QED BY <2>1, <1>3, <1>4
<1> QED BY <1>1, <1>3, <1>5, <1>6, <1>7

LEMMA PageIs == ASSUME NEW page \in Page PROVE page \in 0..Pages /\ page # 0
BY PagerSizes DEF Page

(* Both neighbours of a page are asked for, and nothing else is kept.      *)
LEMMA PreloadIs ==
    ASSUME building \subseteq Build, NEW page \in Page, NEW filter \in Filter, sought' = filter,
           Preload(page)
    PROVE  /\ Neighbours(page, filter)' /\ ghosts' \in [Dir -> Ghost]
           /\ building' \subseteq Build /\ peek' = "none"
<1> DEFINE asked == {[dir |-> d, page |-> Beside(page, d), filter |-> filter, fresh |-> TRUE] :
                       d \in {e \in Dir : Beside(page, e) \in Page}}
<1>1. ghosts' = [d \in Dir |-> NoGhost] /\ peek' = "none" /\ building' = Expired \cup asked
  BY DEF Preload, Cleared
<1>2. Expired \subseteq Build /\ \A b \in Expired : ~b.fresh BY ExpiredIs
<1>3. \A b \in asked : b \in Build /\ b.page = Beside(page, b.dir) /\ b.filter = filter
  <2>1. ASSUME NEW d \in Dir, Beside(page, d) \in Page
        PROVE  [dir |-> d, page |-> Beside(page, d), filter |-> filter, fresh |-> TRUE] \in Build
    <3>1. PICK p \in Page : p = Beside(page, d) BY <2>1
    <3>2. [dir |-> d, page |-> p, filter |-> filter, fresh |-> TRUE] \in Build BY DEF Build
    <3> QED BY <3>1, <3>2
  <2>2. ASSUME NEW d \in Dir, NEW b,
               b = [dir |-> d, page |-> Beside(page, d), filter |-> filter, fresh |-> TRUE]
        PROVE  b.page = Beside(page, b.dir) /\ b.filter = filter
    BY <2>2
  <2> QED BY <2>1, <2>2
<1> HIDE DEF asked
<1>4. building' \subseteq Build BY <1>1, <1>2, <1>3
<1>5. \A b \in building' : b.fresh => b.page = Beside(page, b.dir) /\ b.filter = filter
  BY <1>1, <1>2, <1>3
<1>6. \A d \in Dir : ghosts'[d] = NoGhost BY <1>1
<1> QED BY <1>1, <1>4, <1>5, <1>6, NoGhostIs DEF Neighbours

(* The library's neighbours are asked for again with another listing only. *)
LEMMA ListingIs ==
    ASSUME PagerShapes, Aligned, deck = "media", NEW page \in Page, NEW filter \in Filter,
           sought' = filter, per' \in 1..2, ghostKey' = ListingKey(page),
           IF ghostKey' # ghostKey THEN Preload(page) ELSE UNCHANGED <<ghosts, building, peek>>
    PROVE  /\ Neighbours(page, filter)' /\ ghosts' \in [Dir -> Ghost]
           /\ building' \subseteq Build /\ (peek' = "none" \/ peek' = peek)
           /\ ghostKey' \in [page : 0..Pages, filter : Filter, per : 1..2]
           /\ ghostKey'.page = page /\ ghostKey'.filter = filter
<1>1. ghostKey' = [page |-> page, filter |-> filter, per |-> per'] BY DEF ListingKey
<1>2. page \in 0..Pages /\ page # 0 BY Zenon, PageIs
<1>3. ghostKey' \in [page : 0..Pages, filter : Filter, per : 1..2]
      /\ ghostKey'.page = page /\ ghostKey'.filter = filter
  BY <1>1, <1>2
<1>4. building \subseteq Build /\ ghosts \in [Dir -> Ghost] BY Zenon DEF PagerShapes, Build
<1>5. CASE ghostKey' # ghostKey
  <2>1. Preload(page) BY <1>5
  <2> QED BY <2>1, <1>3, <1>4, PreloadIs
<1>6. CASE ghostKey' = ghostKey
  <2>1. Neighbours(page, filter)
    <3>1. ghostKey.page = page /\ ghostKey.filter = filter BY <1>3, <1>6
    <3> QED BY <3>1, <1>2 DEF Aligned
  <2>2. UNCHANGED <<ghosts, building, peek>> BY <1>6
  <2>3. Neighbours(page, filter)' BY <2>1, <2>2 DEF Neighbours
  <2> QED BY <2>2, <2>3, <1>3, <1>4
<1> QED BY <1>5, <1>6

(* A touch that is ended without a word is put on record, as is a slide.   *)
LEMMA TeardownIs ==
    ASSUME PagerShapes, Teardown
    PROVE  /\ slips \subseteq slips' /\ slips' \subseteq {"cut", "curved", "crossed", "late", "failed"}
           /\ Dragging => "cut" \in slips'
           /\ handoffs # <<>> => "crossed" \in slips'
           /\ touch' = Untouched /\ locked' = FALSE /\ zoomDue' = FALSE
<1>1. slips \subseteq {"cut", "curved", "crossed", "late", "failed"} BY Zenon DEF PagerShapes
<1> QED BY <1>1 DEF Teardown

(* The grid is armed anew, with all that was loaded for it.                *)
LEMMA ArmKeeps ==
    ASSUME PagerInv, mounted, NEW page \in Page, NEW filter \in Filter, sought' = filter,
           NEW seamless \in BOOLEAN, Arm(page, seamless), stage' = "grid",
           UNCHANGED <<deck, mounted, sought, per, edition, litter, handoffs, cols, pagerActs, misled>>,
           list' \in [page : Page, filter : Filter], lookup' \in BOOLEAN, lookup' => deck = "media",
           fetches' \in Seq(Fetch), Len(fetches') <= Fetches, Fetching',
           \/ shift' = "in place"
           \/ /\ shift' = shift /\ deck = "grid"
              /\ \A c \in DOMAIN fetches : ~fetches[c].refit =>
                    \E e \in DOMAIN fetches' : ~fetches'[e].refit,
           deck = "grid" /\ ~seamless =>
              \A c \in DOMAIN fetches : fetches[c].seamless =>
                    \E e \in DOMAIN fetches' : fetches'[e].seamless
    PROVE  PagerInv'
<1> USE DEF PagerInv
<1>1. /\ Teardown /\ armed' = page /\ hearing' = TRUE
      /\ ghostKey' = IF deck = "media" THEN ListingKey(page) ELSE ghostKey
      /\ IF deck = "grid" \/ ghostKey' # ghostKey THEN Preload(page)
         ELSE UNCHANGED <<ghosts, building, peek>>
      /\ committed' = IF deck = "media" \/ seamless THEN NoGhost ELSE committed
  BY DEF Arm
<1>2. /\ slips \subseteq slips' /\ slips' \subseteq {"cut", "curved", "crossed", "late", "failed"}
      /\ Dragging => "cut" \in slips'
      /\ handoffs # <<>> => "crossed" \in slips'
      /\ touch' = Untouched /\ locked' = FALSE /\ zoomDue' = FALSE
  BY <1>1, TeardownIs
<1>3. deck \in {"grid", "media"} /\ per \in 1..2 /\ building \subseteq Build
  BY Zenon DEF PagerShapes, Build
<1>4. /\ Neighbours(page, filter)' /\ ghosts' \in [Dir -> Ghost]
      /\ building' \subseteq Build /\ (peek' = "none" \/ peek' = peek)
      /\ ghostKey' \in [page : 0..Pages, filter : Filter, per : 1..2]
      /\ ghostKey'.page # 0 => deck = "media" /\ Neighbours(ghostKey.page, ghostKey.filter)'
  <2>1. CASE deck = "grid"
    <3>1. Preload(page) /\ ghostKey' = ghostKey BY <2>1, <1>1
    <3>2. /\ Neighbours(page, filter)' /\ ghosts' \in [Dir -> Ghost]
          /\ building' \subseteq Build /\ peek' = "none"
      BY <3>1, <1>3, PreloadIs
    <3>3. ghostKey.page = 0 BY <2>1 DEF Aligned
    <3>4. ghostKey \in [page : 0..Pages, filter : Filter, per : 1..2] BY Zenon DEF PagerShapes
    <3> QED BY <3>1, <3>2, <3>3, <3>4
  <2>2. CASE deck = "media"
    <3>1. per' \in 1..2 BY <1>3
    <3>2. ghostKey' = ListingKey(page) BY <2>2, <1>1
    <3>3. IF ghostKey' # ghostKey THEN Preload(page) ELSE UNCHANGED <<ghosts, building, peek>>
      BY <2>2, <1>1
    <3>4. /\ Neighbours(page, filter)' /\ ghosts' \in [Dir -> Ghost]
          /\ building' \subseteq Build /\ (peek' = "none" \/ peek' = peek)
          /\ ghostKey' \in [page : 0..Pages, filter : Filter, per : 1..2]
          /\ ghostKey'.page = page /\ ghostKey'.filter = filter
      BY <2>2, <3>1, <3>2, <3>3, ListingIs
    <3>5. Neighbours(ghostKey.page, ghostKey.filter)' BY <3>4 DEF Neighbours
    <3> QED BY <2>2, <3>4, <3>5
  <2> QED BY <2>1, <2>2, <1>3
<1>5. touch' \in Touch /\ touch'.at = "idle" BY <1>2, UntouchedIs
<1>6. pagerActs' \in pagerActs..MaxPagerActs BY PagerCounts
<1>7. Acts' /\ litter' \in 0..MaxPagerActs /\ edition' \in 0..MaxPagerActs
      /\ pagerActs' \in 0..MaxPagerActs
  BY <1>5, <1>6, ActsNext
<1>8. PagerShapes'
  <2>1. armed' \in 0..Pages
    <3>1. page \in 0..Pages BY Zenon, PageIs
    <3> QED BY <3>1, <1>1
  <2>2. committed' \in Ghost
    <3>1. committed \in Ghost BY Zenon DEF PagerShapes
    <3> QED BY <3>1, <1>1, NoGhostIs
  <2>3. shift' \in {"in place", "pulled", "away"} /\ peek' \in Dir \cup {"none"}
    <3>1. shift \in {"in place", "pulled", "away"} /\ peek \in Dir \cup {"none"}
      BY Zenon DEF PagerShapes
    <3> QED BY <3>1, <1>4
  <2> QED BY <1>2, <1>4, <1>5, <1>7, <2>1, <2>2, <2>3 DEF PagerShapes, Touch, Build
<1>9. PagerFlags' BY Zenon, <1>1, <1>2 DEF PagerFlags
<1>10. Listens'
  <2>1. page # 0 BY Zenon, PageIs
  <2> QED BY <2>1, <1>5, <1>1 DEF Listens
<1>11. Aligned' BY <1>1, <1>4 DEF Aligned, Neighbours
<1>12. Locking' BY <1>2 DEF Locking, OneSlide
<1>13. Pulled'
  <2>1. shift' = "away" => handoffs' # <<>> \/ \E e \in DOMAIN fetches' : ~fetches'[e].refit
    BY DEF Pulled
  <2>2. shift' = "pulled" => "curved" \in slips' \/ (deck' = "grid" /\ "cut" \in slips')
    BY <1>2 DEF Pulled, Dragging, Finger
  <2>3. peek' # "none" => slips' \cap {"cut", "curved", "crossed"} # {}
    BY <1>2, <1>4 DEF Pulled, Dragging, Finger
  <2> QED BY <2>1, <2>2, <2>3 DEF Pulled
<1>14. Held'
  <2>1. CASE slips' \cap {"crossed", "late", "failed"} # {} BY <2>1 DEF Held
  <2>2. CASE slips' \cap {"crossed", "late", "failed"} = {}
    <3>1. slips \cap {"crossed", "late", "failed"} = {} /\ handoffs = <<>> BY <2>2, <1>2
    <3>2. litter = 0 BY <3>1 DEF Held
    <3>3. ASSUME committed' # NoGhost PROVE \E e \in DOMAIN fetches' : fetches'[e].seamless
      <4>1. deck = "grid" /\ ~seamless /\ committed' = committed BY <3>3, <1>1, <1>3
      <4>2. PICK c \in DOMAIN fetches : fetches[c].seamless
        BY <4>1, <3>1, <3>3 DEF Held
      <4> QED BY <4>1, <4>2
    <3> QED BY <3>2, <3>3 DEF Held
  <2> QED BY <2>1, <2>2
<1>15. GhostTells' BY DEF GhostTells
<1> QED BY <1>7, <1>8, <1>9, <1>10, <1>11, <1>12, <1>13, <1>14, <1>15

LEMMA AnsweredKeeps == ASSUME PagerInv, Answered PROVE PagerInv'
<1> USE DEF PagerInv
<1>1. /\ fetches # <<>>
      /\ UNCHANGED <<deck, mounted, sought, per, edition, litter, handoffs, cols, pagerActs, misled>>
  BY DEF Answered
<1>2. PICK c \in DOMAIN fetches :
        LET q == fetches[c]
            inPlace == q.refit /\ list = [page |-> q.page, filter |-> q.filter]
            drawn ==
                /\ mounted
                /\ IF deck = "media" THEN stage # "error" ELSE q.whole \/ stage = "grid"
        IN  /\ fetches' = RemoveAt(fetches, c)
            /\ IF drawn
               THEN /\ list' = [page |-> q.page, filter |-> q.filter]
                    /\ stage' = "grid" /\ lookup' = (deck = "media")
                    /\ shift' = IF inPlace THEN shift ELSE "in place"
                    /\ Arm(q.page, q.seamless /\ ~inPlace)
               ELSE Unarmed /\ UNCHANGED <<list, stage, lookup, shift>>
  BY DEF Answered
<1> DEFINE q == fetches[c]
           inPlace == q.refit /\ list = [page |-> q.page, filter |-> q.filter]
           drawn ==
               /\ mounted
               /\ IF deck = "media" THEN stage # "error" ELSE q.whole \/ stage = "grid"
<1>3. fetches' = RemoveAt(fetches, c) BY <1>2
<1>4. drawn => /\ list' = [page |-> q.page, filter |-> q.filter]
               /\ stage' = "grid" /\ lookup' = (deck = "media")
               /\ shift' = IF inPlace THEN shift ELSE "in place"
               /\ Arm(q.page, q.seamless /\ ~inPlace)
  BY <1>2
<1>5. ~drawn => Unarmed /\ UNCHANGED <<list, stage, lookup, shift>> BY <1>2
<1>6. deck \in {"grid", "media"} /\ sought \in Filter BY Zenon DEF PagerShapes
<1>7. /\ fetches' \in Seq(Fetch) /\ Len(fetches') <= Fetches /\ Fetching'
      /\ q \in Fetch
      /\ \A i \in DOMAIN fetches : i # c => \E e \in DOMAIN fetches' : fetches'[e] = fetches[i]
  BY <1>1, <1>3, AnswerIs
<1>8. q.page \in Page /\ q.filter \in Filter /\ q.seamless \in BOOLEAN BY <1>7 DEF Fetch
<1>9. (q.refit => ~q.seamless) /\ (deck = "media" => ~q.refit) BY DEF Fetching
<1>10. ASSUME drawn PROVE PagerInv'
  <2>1. PICK page \in Page, filter \in Filter, seamless \in BOOLEAN :
          page = q.page /\ filter = sought /\ seamless = (q.seamless /\ ~inPlace)
    <3>1. (q.seamless /\ ~inPlace) \in BOOLEAN BY Zenon
    <3> HIDE DEF q, inPlace
    <3> QED BY <3>1, <1>6, <1>8, Zenon
  <2>2. Arm(page, seamless) BY <2>1, <1>4, <1>10, Zenon
  <2>3. sought' = filter BY <2>1, <1>1
  <2>4. list' \in [page : Page, filter : Filter]
    <3>1. list' = [page |-> q.page, filter |-> q.filter] BY <1>4, <1>10
    <3> HIDE DEF q
    <3> QED BY <3>1, <1>8
  <2>5. lookup' \in BOOLEAN /\ (lookup' => deck = "media")
    <3>1. (deck = "media") \in BOOLEAN BY Zenon
    <3>2. lookup' = (deck = "media") BY <1>4, <1>10, Zenon
    <3> QED BY <3>1, <3>2, Zenon
  <2>6. \/ shift' = "in place"
        \/ /\ shift' = shift /\ deck = "grid"
           /\ \A i \in DOMAIN fetches : ~fetches[i].refit =>
                 \E e \in DOMAIN fetches' : ~fetches'[e].refit
    <3>1. CASE ~inPlace
      <4>1. shift' = "in place" BY <3>1, <1>4, <1>10, Zenon
      <4> QED BY <4>1
    <3>2. CASE inPlace
      <4>1. shift' = shift /\ q.refit BY <3>2, <1>4, <1>10, Zenon
      <4>2. deck = "grid" BY <4>1, <1>6, <1>9
      <4>3. ASSUME NEW i \in DOMAIN fetches, ~fetches[i].refit
            PROVE  \E e \in DOMAIN fetches' : ~fetches'[e].refit
        <5>1. i # c BY <4>1, <4>3
        <5>2. PICK e \in DOMAIN fetches' : fetches'[e] = fetches[i] BY <5>1, <1>7
        <5> QED BY <4>3, <5>2
      <4> QED BY <4>1, <4>2, <4>3
    <3> QED BY <3>1, <3>2
  <2>7. deck = "grid" /\ ~seamless =>
          \A i \in DOMAIN fetches : fetches[i].seamless =>
                \E e \in DOMAIN fetches' : fetches'[e].seamless
    <3>1. seamless = (q.seamless /\ ~inPlace) BY <2>1, Zenon
    <3>2. ~seamless => ~q.seamless BY <3>1, <1>9, Zenon
    <3>3. ASSUME NEW i \in DOMAIN fetches, fetches[i].seamless, ~seamless
          PROVE  \E e \in DOMAIN fetches' : fetches'[e].seamless
      <4>1. i # c BY <3>2, <3>3
      <4>2. PICK e \in DOMAIN fetches' : fetches'[e] = fetches[i] BY <4>1, <1>7
      <4> QED BY <3>3, <4>2
    <3> QED BY <3>3
  <2>8. mounted /\ stage' = "grid" BY <1>4, <1>10, Zenon
  <2> HIDE DEF q, inPlace, drawn
  <2> QED BY <1>1, <1>7, <2>2, <2>3, <2>4, <2>5, <2>6, <2>7, <2>8, ArmKeeps
<1>11. ASSUME ~drawn PROVE PagerInv'
  <2>1. mounted => stage # "grid" /\ (deck = "media" => stage = "error")
    BY <1>6, <1>11, Zenon
  <2>2. /\ UNCHANGED <<armed, hearing, ghosts, ghostKey, building, peek, committed, touch, locked,
                       zoomDue, slips>>
        /\ UNCHANGED <<list, stage, lookup, shift>>
    BY <1>5, <1>11 DEF Unarmed, pagePreloads
  <2> HIDE DEF q, inPlace, drawn
  <2>3. ~hearing /\ ~Finger BY <2>1 DEF Listens, Finger
  <2>4. pagerActs' \in pagerActs..MaxPagerActs BY <1>1, PagerCounts
  <2>5. Acts' /\ litter' \in 0..MaxPagerActs /\ edition' \in 0..MaxPagerActs
        /\ pagerActs' \in 0..MaxPagerActs
    BY <1>1, <2>2, <2>4, ActsNext DEF Acts
  <2>6. PagerShapes' BY <1>1, <1>7, <2>2, <2>5 DEF PagerShapes
  <2>7. PagerFlags' BY Zenon, <1>1, <2>2 DEF PagerFlags
  <2>8. Listens' BY <1>1, <2>2 DEF Listens
  <2>9. Aligned' BY <1>1, <2>2, <2>3 DEF Aligned, Neighbours
  <2>10. Locking' BY <1>1, <2>2 DEF Locking, OneSlide
  <2>11. Pulled' BY <1>1, <2>1, <2>2, <2>3 DEF Pulled, Listens
  <2>12. Held' BY <1>1, <1>6, <2>1, <2>2 DEF Held
  <2>13. GhostTells' BY <1>1 DEF GhostTells
  <2> QED BY <1>7, <2>5, <2>6, <2>7, <2>8, <2>9, <2>10, <2>11, <2>12, <2>13
<1> QED BY <1>10, <1>11

LEMMA RedrawKeeps == ASSUME PagerInv, Redraw PROVE PagerInv'
<1> USE DEF PagerInv
<1>1. /\ lookup /\ lookup' = FALSE
      /\ UNCHANGED <<deck, mounted, stage, list, sought, per, edition, fetches, litter, handoffs,
                     cols, pagerActs, misled>>
  BY DEF Redraw
<1>2. deck = "media" BY <1>1 DEF Acts
<1>3. fetches' \in Seq(Fetch) /\ Len(fetches') <= Fetches /\ Fetching'
  BY <1>1, FetchesAre DEF Fetching
<1>4. CASE mounted /\ stage = "grid"
  <2>1. Arm(list.page, FALSE) /\ shift' = "in place" BY <1>4 DEF Redraw
  <2>2. list \in [page : Page, filter : Filter] /\ sought \in Filter BY Zenon DEF PagerShapes
  <2>3. PICK page \in Page, filter \in Filter : page = list.page /\ filter = sought BY <2>2
  <2>4. Arm(page, FALSE) BY <2>1, <2>3
  <2>5. FALSE \in BOOLEAN /\ lookup' \in BOOLEAN BY <1>1, Zenon
  <2>6. list' \in [page : Page, filter : Filter] /\ sought' = filter BY <1>1, <2>2, <2>3
  <2>7. stage' = "grid" BY <1>1, <1>4
  <2> QED BY <1>1, <1>2, <1>3, <1>4, <2>1, <2>4, <2>5, <2>6, <2>7, ArmKeeps
<1>5. CASE ~(mounted /\ stage = "grid")
  <2>1. UNCHANGED <<armed, hearing, ghosts, ghostKey, building, peek, committed, touch, locked,
                    zoomDue, slips, shift>>
    BY <1>5 DEF Redraw, Unarmed, pagePreloads
  <2>2. pagerActs' \in pagerActs..MaxPagerActs BY <1>1, PagerCounts
  <2>3. Acts' /\ litter' \in 0..MaxPagerActs /\ edition' \in 0..MaxPagerActs
        /\ pagerActs' \in 0..MaxPagerActs
    BY <1>1, <2>1, <2>2, ActsNext DEF Acts
  <2>4. PagerShapes' BY <1>1, <2>1, <2>3 DEF PagerShapes
  <2>5. PagerFlags'
    <3>1. lookup' \in BOOLEAN BY <1>1, Zenon
    <3> QED BY Zenon, <3>1, <1>1, <2>1 DEF PagerFlags
  <2>6. Listens' BY <1>1, <2>1 DEF Listens
  <2>7. Aligned' BY <1>1, <2>1 DEF Aligned, Neighbours
  <2>8. Locking' BY <1>1, <2>1 DEF Locking, OneSlide
  <2>9. Pulled' BY <1>1, <2>1 DEF Pulled, Finger
  <2>10. Held' BY <1>1, <2>1 DEF Held
  <2>11. GhostTells' BY <1>1 DEF GhostTells
  <2> QED BY <1>3, <2>3, <2>4, <2>5, <2>6, <2>7, <2>8, <2>9, <2>10, <2>11
<1> QED BY <1>4, <1>5

(* An error takes everything down; the library's ghosts outlive it.        *)
LEMMA FetchFailsKeeps == ASSUME PagerInv, FetchFails PROVE PagerInv'
<1> USE DEF PagerInv
<1>1. /\ fetches # <<>> /\ pagerActs < MaxPagerActs /\ pagerActs' = pagerActs + 1
      /\ UNCHANGED <<deck, mounted, list, sought, per, edition, lookup, handoffs, cols, misled>>
  BY DEF FetchFails
<1>2. PICK c \in DOMAIN fetches : fetches' = RemoveAt(fetches, c) BY DEF FetchFails
<1>3. fetches' \in Seq(Fetch) /\ Len(fetches') <= Fetches /\ Fetching' BY <1>1, <1>2, AnswerIs
<1>4. deck \in {"grid", "media"} /\ sought \in Filter BY Zenon DEF PagerShapes
<1>5. pagerActs' \in pagerActs..MaxPagerActs BY <1>1, PagerCounts
<1>6. GhostTells' BY <1>1 DEF GhostTells
<1>7. CASE ~mounted
  <2>1. UNCHANGED <<armed, hearing, ghosts, ghostKey, building, peek, committed, touch, locked,
                    zoomDue, slips, stage, shift, litter>>
    BY <1>7 DEF FetchFails, Unarmed, pagePreloads
  <2>2. Acts' /\ litter' \in 0..MaxPagerActs /\ edition' \in 0..MaxPagerActs
        /\ pagerActs' \in 0..MaxPagerActs
    BY <1>1, <1>5, <2>1, ActsNext DEF Acts
  <2>3. PagerShapes' BY <1>1, <1>3, <2>1, <2>2 DEF PagerShapes
  <2>4. PagerFlags' BY Zenon, <1>1, <2>1 DEF PagerFlags
  <2>5. Listens' BY <1>1, <2>1 DEF Listens
  <2>6. Aligned' BY <1>1, <1>7, <2>1 DEF Aligned, Neighbours, Listens
  <2>7. Locking' BY <1>1, <1>7, <2>1 DEF Locking, OneSlide
  <2>8. Pulled' /\ Held' BY <1>1, <1>7 DEF Pulled, Held
  <2> QED BY <1>3, <1>6, <2>2, <2>3, <2>4, <2>5, <2>6, <2>7, <2>8
<1>8. CASE mounted
  <2>1. stage' = "error" /\ shift' = "in place" /\ ghostKey' = ghostKey
        /\ touch' = Untouched /\ hearing' = FALSE
    BY <1>4, <1>8 DEF FetchFails
  <2>2. touch' \in Touch /\ touch'.at = "idle" BY <2>1, UntouchedIs
  <2>3. handoffs # <<>> => "crossed" \in slips BY <1>1, <1>8 DEF Locking
  <2>4. CASE deck = "grid"
    <3>1. /\ locked' = FALSE /\ zoomDue' = FALSE /\ armed' = 0
          /\ ghosts' = [d \in Dir |-> NoGhost] /\ peek' = "none" /\ building' = Expired
          /\ committed' = NoGhost /\ litter' = 0 /\ UNCHANGED slips
      BY <1>8, <2>4 DEF FetchFails, Cleared
    <3>2. building' \subseteq Build /\ \A b \in building' : ~b.fresh
      <4>1. building \subseteq Build BY Zenon DEF PagerShapes, Build
      <4> QED BY <4>1, <3>1, ExpiredIs
    <3>3. Acts' /\ litter' \in 0..MaxPagerActs /\ edition' \in 0..MaxPagerActs
          /\ pagerActs' \in 0..MaxPagerActs
      BY <1>1, <1>5, <2>2, <3>1, ActsNext DEF Acts
    <3>4. PagerShapes'
      <4>1. armed' \in 0..Pages BY <3>1, PagerSizes
      <4> QED BY <1>1, <1>3, <2>1, <2>2, <3>1, <3>2, <3>3, <4>1, NoGhostIs DEF PagerShapes, Touch, Build
    <3>5. PagerFlags' BY Zenon, <1>1, <2>1, <3>1 DEF PagerFlags
    <3>6. Listens' BY <2>1, <2>2 DEF Listens
    <3>7. Aligned' BY <1>1, <2>1, <2>4 DEF Aligned
    <3>8. Locking' BY <1>1, <2>3, <3>1 DEF Locking, OneSlide
    <3>9. Pulled' BY <2>1, <3>1 DEF Pulled
    <3>10. Held' BY <3>1 DEF Held
    <3> QED BY <1>3, <1>6, <3>3, <3>4, <3>5, <3>6, <3>7, <3>8, <3>9, <3>10
  <2>5. CASE deck = "media"
    <3>1. /\ slips' = slips \cup Crossing \cup (IF committed # NoGhost THEN {"failed"} ELSE {})
          /\ UNCHANGED <<armed, ghosts, building, peek, committed, litter, locked, zoomDue>>
      BY <1>8, <2>5 DEF FetchFails
    <3>2. /\ slips \subseteq slips' /\ slips' \subseteq {"cut", "curved", "crossed", "late", "failed"}
          /\ Dragging => "cut" \in slips'
          /\ committed # NoGhost => "failed" \in slips'
      <4>1. slips \subseteq {"cut", "curved", "crossed", "late", "failed"} BY Zenon DEF PagerShapes
      <4>2. Crossing \subseteq {"crossed", "cut"} /\ (Dragging => "cut" \in Crossing)
        BY <2>5 DEF Crossing
      <4> HIDE DEF Crossing
      <4> QED BY <3>1, <4>1, <4>2
    <3>3. Acts' /\ litter' \in 0..MaxPagerActs /\ edition' \in 0..MaxPagerActs
          /\ pagerActs' \in 0..MaxPagerActs
      BY <1>1, <1>5, <2>2, <3>1, ActsNext DEF Acts
    <3>4. PagerShapes' BY <1>1, <1>3, <2>1, <2>2, <3>1, <3>2, <3>3 DEF PagerShapes, Touch
    <3>5. PagerFlags' BY Zenon, <1>1, <2>1, <3>1 DEF PagerFlags
    <3>6. Listens' BY <2>1, <2>2 DEF Listens
    <3>7. Aligned' BY <1>1, <2>1, <3>1 DEF Aligned, Neighbours
    <3>8. Locking' BY <1>1, <2>3, <3>1, <3>2 DEF Locking, OneSlide
    <3>9. Pulled'
      <4>1. peek' # "none" => slips' \cap {"cut", "curved", "crossed"} # {}
        BY <1>8, <3>1, <3>2 DEF Pulled, Dragging, Finger
      <4> QED BY <4>1, <2>1 DEF Pulled
    <3>10. Held' BY <1>8, <3>1, <3>2 DEF Held
    <3> QED BY <1>3, <1>6, <3>3, <3>4, <3>5, <3>6, <3>7, <3>8, <3>9, <3>10
  <2> QED BY <2>4, <2>5, <1>4
<1> QED BY <1>7, <1>8

(* Another listing is asked for.                                           *)
LEMMA NarrowKeeps == ASSUME PagerInv, Narrow PROVE PagerInv'
<1> USE DEF PagerInv
<1>1. /\ mounted /\ pagerActs < MaxPagerActs /\ pagerActs' = pagerActs + 1
      /\ sought' = (CHOOSE f \in Filter : f # sought) /\ UNCHANGED per
      /\ Ask(1, FALSE, FALSE)
      /\ UNCHANGED <<deck, mounted, list, edition, lookup, litter, handoffs, cols, misled>>
  BY DEF Narrow, Command
<1>2. sought' \in Filter
  <2>1. \E f \in Filter : f # sought BY DEF Filter
  <2> QED BY <2>1, <1>1, Zenon
<1>3. pagerActs' \in pagerActs..MaxPagerActs BY <1>1, PagerCounts
<1>4. deck \in {"grid", "media"} /\ per \in 1..2 /\ list \in [page : Page, filter : Filter]
  BY Zenon DEF PagerShapes
<1>5. 1 \in Page /\ per' \in 1..2
  <2>1. 1 \in Page BY PagerSizes DEF Page
  <2> QED BY <2>1, <1>1, <1>4
<1>6. FALSE \in BOOLEAN BY Zenon
<1>7. CASE deck = "media" /\ stage = "grid"
  <2>1. /\ Teardown /\ armed' = list.page /\ hearing' = FALSE /\ shift' = "in place"
        /\ ghostKey' = ListingKey(list.page) /\ committed' = NoGhost
        /\ IF ghostKey' # ghostKey THEN Preload(list.page)
           ELSE UNCHANGED <<ghosts, building, peek>>
    BY <1>7 DEF Narrow
  <2>2. /\ slips \subseteq slips' /\ slips' \subseteq {"cut", "curved", "crossed", "late", "failed"}
        /\ Dragging => "cut" \in slips'
        /\ handoffs # <<>> => "crossed" \in slips'
        /\ touch' = Untouched /\ locked' = FALSE /\ zoomDue' = FALSE
    BY <2>1, TeardownIs
  <2>3. /\ fetches' \in Seq(Fetch) /\ Len(fetches') <= Fetches /\ fetches' # <<>>
        /\ Fetching'
        /\ stage' = "spinner"
    BY <1>1, <1>2, <1>5, <1>6, <1>7, AskIs
  <2>4. PICK page \in Page, filter \in Filter : page = list.page /\ filter = sought'
    BY <1>2, <1>4
  <2>5. /\ ghostKey' = ListingKey(page) /\ sought' = filter
        /\ IF ghostKey' # ghostKey THEN Preload(page) ELSE UNCHANGED <<ghosts, building, peek>>
    BY <2>1, <2>4
  <2>6. /\ Neighbours(page, filter)' /\ ghosts' \in [Dir -> Ghost]
        /\ building' \subseteq Build /\ (peek' = "none" \/ peek' = peek)
        /\ ghostKey' \in [page : 0..Pages, filter : Filter, per : 1..2]
        /\ ghostKey'.page = page /\ ghostKey'.filter = filter
    BY <1>5, <1>7, <2>5, ListingIs
  <2>7. touch' \in Touch /\ touch'.at = "idle" BY <2>2, UntouchedIs
  <2>8. Acts' /\ litter' \in 0..MaxPagerActs /\ edition' \in 0..MaxPagerActs
        /\ pagerActs' \in 0..MaxPagerActs
    BY <1>1, <1>3, <2>7, ActsNext DEF Acts
  <2>9. PagerShapes'
    <3>1. armed' \in 0..Pages
      <4>1. page \in 0..Pages BY Zenon, PageIs
      <4> QED BY <4>1, <2>1, <2>4
    <3>2. peek' \in Dir \cup {"none"}
      <4>1. peek \in Dir \cup {"none"} BY Zenon DEF PagerShapes
      <4> QED BY <4>1, <2>6
    <3> QED BY <1>1, <1>2, <1>5, <2>1, <2>2, <2>3, <2>6, <2>7, <2>8, <3>1, <3>2, NoGhostIs
        DEF PagerShapes, Touch, Build
  <2>10. PagerFlags' BY Zenon, <1>1, <2>1, <2>2 DEF PagerFlags
  <2>11. Listens' BY <2>1, <2>7 DEF Listens
  <2>12. Aligned' BY <1>1, <1>7, <2>1, <2>6 DEF Aligned, Neighbours
  <2>13. Locking' BY <1>1, <2>2 DEF Locking, OneSlide
  <2>14. Pulled'
    <3>1. peek' # "none" => slips' \cap {"cut", "curved", "crossed"} # {}
      BY <1>1, <2>2, <2>6 DEF Pulled, Dragging, Finger
    <3> QED BY <3>1, <2>1 DEF Pulled
  <2>15. Held' BY <1>1, <2>1, <2>2 DEF Held
  <2>16. GhostTells' BY <1>1 DEF GhostTells
  <2> QED BY <2>3, <2>8, <2>9, <2>10, <2>11, <2>12, <2>13, <2>14, <2>15, <2>16
<1>8. CASE ~(deck = "media" /\ stage = "grid")
  <2>1. /\ hearing' = (hearing /\ deck = "grid")
        /\ touch' = IF deck = "media" THEN Untouched ELSE touch
        /\ shift' = IF deck = "media" THEN "in place" ELSE shift
        /\ slips' = slips \cup Crossing
        /\ UNCHANGED <<armed, ghosts, ghostKey, building, peek, committed, locked, zoomDue>>
    BY <1>8 DEF Narrow, Released, Deafened, pagePreloads
  <2>2. zoomDue' \in BOOLEAN BY Zenon, <2>1 DEF PagerFlags
  <2>3. /\ touch' = Untouched \/ (deck = "grid" /\ touch' = touch)
        /\ touch' = touch \/ touch.at \notin {"h", "v"} \/ deck = "media"
        /\ deck = "grid" \/ shift' = "in place"
        /\ shift' = shift \/ shift' = "in place"
    BY <2>1, <1>4
  <2>4. edition' = edition BY <1>1
  <2> QED BY <1>1, <1>2, <1>3, <1>5, <1>6, <2>1, <2>2, <2>3, <2>4, AskKeeps
<1> QED BY <1>7, <1>8

LEMMA PagerStarts == PagerInit => PagerInv
<1> SUFFICES ASSUME PagerInit PROVE PagerInv OBVIOUS
<1> DEFINE first == [page |-> 1, filter |-> "all"]
           asked == {[dir |-> d, page |-> Beside(1, d), filter |-> "all", fresh |-> TRUE] :
                       d \in {e \in Dir : Beside(1, e) \in Page}}
<1>1. /\ deck \in {"grid", "media"} /\ mounted = TRUE /\ stage = "grid"
      /\ list = first /\ sought = "all" /\ per = 1 /\ edition = 0
      /\ fetches = <<>> /\ lookup = (deck = "media") /\ armed = 1 /\ hearing = TRUE
      /\ ghosts = [d \in Dir |-> NoGhost]
      /\ ghostKey = [page |-> IF deck = "media" THEN 1 ELSE 0, filter |-> "all", per |-> 1]
      /\ building = asked
      /\ peek = "none" /\ committed = NoGhost /\ litter = 0
      /\ touch = Untouched /\ shift = "in place" /\ locked = FALSE /\ handoffs = <<>>
      /\ cols = 1 /\ zoomDue = FALSE /\ pagerActs = 0 /\ slips = {} /\ misled = FALSE
  BY DEF PagerInit
<1>2. 1 \in Page /\ 1 \in 0..Pages /\ 0 \in 0..Pages /\ 0 \in 0..MaxPagerActs /\ "all" \in Filter
      /\ 0 <= Fetches
  BY PagerSizes DEF Page, Filter
<1>3. \A b \in asked : b \in Build /\ b.page = Beside(1, b.dir) /\ b.filter = "all"
  <2>1. ASSUME NEW d \in Dir, Beside(1, d) \in Page
        PROVE  [dir |-> d, page |-> Beside(1, d), filter |-> "all", fresh |-> TRUE] \in Build
    <3>1. PICK p \in Page : p = Beside(1, d) BY <2>1
    <3>2. [dir |-> d, page |-> p, filter |-> "all", fresh |-> TRUE] \in Build BY <1>2 DEF Build
    <3> QED BY <3>1, <3>2
  <2>2. ASSUME NEW d \in Dir, NEW b,
               b = [dir |-> d, page |-> Beside(1, d), filter |-> "all", fresh |-> TRUE]
        PROVE  b.page = Beside(1, b.dir) /\ b.filter = "all"
    BY <2>2
  <2> QED BY <2>1, <2>2
<1>4. first \in [page : Page, filter : Filter] BY <1>2
<1> HIDE DEF asked, first
<1>5. Neighbours(1, "all") BY <1>1, <1>3 DEF Neighbours
<1>6. /\ ghostKey \in [page : 0..Pages, filter : Filter, per : 1..2]
      /\ ghostKey.page # 0 => deck = "media" /\ ghostKey.page = 1
      /\ ghostKey.filter = "all"
  <2>1. deck = "media" => ghostKey = [page |-> 1, filter |-> "all", per |-> 1] BY <1>1
  <2>2. deck # "media" => ghostKey = [page |-> 0, filter |-> "all", per |-> 1] BY <1>1
  <2>3. 1 \in 1..2 OBVIOUS
  <2> QED BY <2>1, <2>2, <2>3, <1>2
<1>7. Len(fetches) = 0 /\ Len(handoffs) = 0 /\ DOMAIN fetches = {}
      /\ fetches \in Seq(Fetch) /\ handoffs \in Seq(Page)
  <2>1. fetches = <<>> /\ handoffs = <<>> BY <1>1, Zenon
  <2>2. <<>> \in Seq(Fetch) /\ <<>> \in Seq(Page) /\ Len(<<>>) = 0 /\ DOMAIN <<>> = {} OBVIOUS
  <2> QED BY <2>1, <2>2, Zenon
<1>8. PagerShapes
  <2>1. Len(fetches) <= Fetches BY <1>2, <1>7
  <2>2. building \subseteq Build BY <1>1, <1>3
  <2>3. touch \in Touch BY <1>1, UntouchedIs
  <2>4. 1 \in 1..2 OBVIOUS
  <2> QED BY <1>1, <1>2, <1>4, <1>6, <1>7, <2>1, <2>2, <2>3, <2>4, NoGhostIs
      DEF PagerShapes, Build, Touch
<1>9. PagerFlags
  <2>1. (deck = "media") \in BOOLEAN BY Zenon
  <2>2. lookup \in BOOLEAN BY Zenon, <1>1, <2>1
  <2> QED BY Zenon, <1>1, <2>2 DEF PagerFlags
<1>10. Listens
  <2>1. touch.at = "idle" /\ hearing /\ mounted /\ stage = "grid" /\ armed = 1
    BY <1>1, UntouchedIs, Zenon
  <2> QED BY <2>1 DEF Listens
<1>11. Aligned BY <1>1, <1>5, <1>6 DEF Aligned
<1>12. Fetching BY <1>7 DEF Fetching
<1>13. Locking
  <2>1. handoffs = <<>> BY <1>1, Zenon
  <2> QED BY <2>1, <1>7 DEF Locking, OneSlide
<1>14. Pulled /\ Held BY <1>1 DEF Pulled, Held
<1>15. Acts
  <2>1. lookup => deck = "media" BY <1>1, Zenon
  <2>2. touch.at = "idle" /\ litter = 0 /\ pagerActs = 0 /\ edition = 0
    BY <1>1, UntouchedIs, Zenon
  <2> QED BY <2>1, <2>2 DEF Acts
<1>16. GhostTells BY <1>1 DEF GhostTells
<1> QED BY <1>8, <1>9, <1>10, <1>11, <1>12, <1>13, <1>14, <1>15, <1>16 DEF PagerInv

LEMMA PagerRests == ASSUME PagerInv, UNCHANGED pagerVars PROVE PagerInv'
<1> USE DEF PagerInv
<1>1. /\ UNCHANGED <<deck, mounted, stage, list, sought, per, edition, fetches, lookup, armed>>
      /\ UNCHANGED <<hearing, ghosts, ghostKey, building, peek, committed, litter, touch, shift>>
      /\ UNCHANGED <<locked, handoffs, cols, zoomDue, pagerActs, slips, misled>>
  BY DEF pagerVars
<1>2. PagerShapes' BY <1>1 DEF PagerShapes
<1>3. PagerFlags' BY Zenon, <1>1 DEF PagerFlags
<1>4. Listens' BY <1>1 DEF Listens
<1>5. Aligned' BY <1>1 DEF Aligned, Neighbours
<1>6. Fetching' BY <1>1 DEF Fetching
<1>7. Locking' BY <1>1 DEF Locking, OneSlide
<1>8. Pulled' BY <1>1 DEF Pulled, Finger
<1>9. Held' BY <1>1 DEF Held
<1>10. Acts' BY <1>1 DEF Acts
<1>11. GhostTells' BY <1>1 DEF GhostTells
<1> QED BY <1>2, <1>3, <1>4, <1>5, <1>6, <1>7, <1>8, <1>9, <1>10, <1>11

LEMMA PagerInductive == PagerInv /\ [PagerNext]_pagerVars => PagerInv'
<1> SUFFICES ASSUME PagerInv, [PagerNext]_pagerVars PROVE PagerInv' OBVIOUS
<1>1. CASE Answered BY <1>1, AnsweredKeeps
<1>2. CASE Redraw BY <1>2, RedrawKeeps
<1>3. CASE Built BY <1>3, BuiltKeeps
<1>4. CASE Handoff BY <1>4, HandoffKeeps
<1>5. CASE Watchdog BY <1>5, WatchdogKeeps
<1>6. CASE TouchUp BY <1>6, TouchUpKeeps
<1>7. CASE CommitZoom BY <1>7, CommitZoomKeeps
<1>8. CASE FetchFails BY <1>8, FetchFailsKeeps
<1>9. CASE NotBuilt BY <1>9, NotBuiltKeeps
<1>10. CASE TouchDown BY <1>10, TouchDownKeeps
<1>11. CASE TouchMove BY <1>11, TouchMoveKeeps
<1>12. CASE SecondFinger BY <1>12, SecondFingerKeeps
<1>13. CASE Zoom BY <1>13, ZoomKeeps
<1>14. ASSUME NEW dir \in Dir, PressKey(dir) PROVE PagerInv' BY <1>14, PressKeyKeeps
<1>15. CASE Narrow BY <1>15, NarrowKeeps
<1>16. CASE Edit BY <1>16, EditKeeps
<1>17. CASE LeaveGrid BY <1>17, LeaveGridKeeps
<1>18. CASE UNCHANGED pagerVars BY <1>18, PagerRests
<1> QED
  BY <1>1, <1>2, <1>3, <1>4, <1>5, <1>6, <1>7, <1>8, <1>9, <1>10, <1>11, <1>12, <1>13, <1>14,
     <1>15, <1>16, <1>17, <1>18
  DEF PagerNext, Progress

(* The invariant is inductive; every state of the pager satisfies it.      *)
THEOREM PagerInvariant == PagerSpec => []PagerInv
BY PagerStarts, PagerInductive, PTL DEF PagerSpec

(* Every variable of the pager stays within its type: of what swipes       *)
(* leave behind no more can lie about than there were touches.             *)
THEOREM PagerIsTyped == PagerSpec => []PagerTypeOK
<1>1. PagerInv => PagerTypeOK BY PagerTypeIs DEF PagerInv
<1> QED BY <1>1, PagerInvariant, PTL

LEMMA PagerKeptByInv == PagerInv => PagerKept
<1> SUFFICES ASSUME PagerInv PROVE PagerKept OBVIOUS
<1> USE DEF PagerInv
<1>1. ASSUME Quiet PROVE ~Finger /\ handoffs = <<>> /\ DOMAIN fetches = {}
  BY <1>1 DEF Quiet, Finger
<1>2. shift \in {"in place", "pulled", "away"} BY Zenon DEF PagerShapes
<1>3. GridInPlace BY <1>1, <1>2 DEF GridInPlace, Pulled
<1>4. NothingOverlaid
  <2>1. Quiet /\ mounted => peek = "none" \/ slips \cap {"cut", "curved", "crossed"} # {}
    BY <1>1 DEF Pulled
  <2>2. Quiet /\ mounted =>
          (committed = NoGhost /\ litter = 0) \/ slips \cap {"crossed", "late", "failed"} # {}
    BY <1>1 DEF Held
  <2> QED BY <2>1, <2>2 DEF NothingOverlaid
<1>5. OneSlide BY DEF Locking
<1> QED BY <1>3, <1>4, <1>5 DEF PagerKept

(* Whatever is touched, pressed, loaded or lost in whatever order, on any  *)
(* number of pages: at rest the grid is in its place, unless a refit or a  *)
(* curved drag cut a swipe off; no ghost is left over it unless a slide    *)
(* was crossed, late or failed; a swipe leads to the page its ghost showed;*)
(* and no two slides are under way.                                        *)
THEOREM PagerHolds == PagerSpec => []PagerKept
BY PagerInvariant, PagerKeptByInv, PTL

-----------------------------------------------------------------------------
(* The media library.                                                      *)

(* A listing is of the page size and the filter that were asked for last,  *)
(* or the search that is typed will ask again.                             *)
AsAsked(q) == q.per = lastPer /\ (q.filter = narrowed \/ searching # "none")

(* The listing that was asked for last is still to be answered, or it was, *)
(* and whatever else is under way is overtaken.                            *)
LastListing ==
    usable =>
        \/ /\ listings # <<>>
           /\ ~listings[Len(listings)].overtaken /\ AsAsked(listings[Len(listings)])
        \/ /\ \A d \in DOMAIN listings : listings[d].overtaken
           /\ masked \/ outrun \/ AsAsked(grid.query)

ErrorIsMasked == usable /\ loadError => masked

(* A file keeps its new name.                                              *)
Renamed ==
    /\ \A i \in File : grid.items[i].name = 1 \/ chosen[i].name = 1 => stock[i].name = 1
    /\ handed.stale \subseteq File

(* What is selected is held, or was selected by a long press; the dialog   *)
(* knows neither presses nor deletions.                                    *)
Picking ==
    /\ usable => \A i \in selected : chosen[i] # Absent \/ i \in pressed
    /\ picker =>
        /\ ~selecting /\ asking.op = "none"
        /\ \A k \in DOMAIN jobs : jobs[k].op # "delete all"

(* Unless a file's saves crossed or its panel was older, what was saved is *)
(* stored, and is in the one save that may be under way.                   *)
SavesAgree ==
    \A i \in File \ edited.unsure :
        /\ edited.saved[i] \subseteq stock[i].fields
        /\ \A s \in DOMAIN saves : saves[s].file = i =>
              /\ edited.saved[i] \subseteq saves[s].rows
              /\ \A t \in DOMAIN saves : saves[t].file = i => t = s

MediaShapes ==
    /\ stock \in [File -> [there : BOOLEAN, name : {0, 1}, fields : SUBSET Field]]
    /\ narrowed \in Narrowing /\ searching \in Narrowing \cup {"none"}
    /\ fits \in 1..2 /\ lastPer \in 1..2 /\ measured \in 0..2
    /\ listings \in Seq(Query) /\ Len(listings) <= Loads
    /\ grid \in [items : [File -> Item], page : 1..(Files + 1), pages : 0..Files, query : Query]
    /\ frame \in 0..(Files + 1)
    /\ selected \subseteq File /\ pressed \subseteq File
    /\ chosen \in [File -> Item]
    /\ asking \in [op : {"none", "delete", "delete all"}, ids : SUBSET File]
    /\ jobs \in Seq([op : {"upload", "uploaded", "rename", "delete", "delete all"},
                      left : SUBSET File, done : SUBSET File])
    /\ panel \in [File -> SUBSET Field]
    /\ saves \in Seq([file : File, rows : SUBSET Field])
    /\ lookups \subseteq File
    /\ uses \in 0..MaxUses
    /\ handed \in [of : SUBSET File, given : SUBSET File, stale : SUBSET File,
                   pressed : SUBSET File]
    /\ edited \in [saved : [File -> SUBSET Field], unsure : SUBSET File]

MediaFlags ==
    /\ picker \in BOOLEAN /\ usable \in BOOLEAN /\ loadError \in BOOLEAN /\ loading \in BOOLEAN
    /\ selecting \in BOOLEAN /\ outrun \in BOOLEAN /\ masked \in BOOLEAN

MediaInv ==
    /\ MediaShapes /\ MediaFlags
    /\ LastListing /\ ErrorIsMasked /\ Renamed /\ Picking
    /\ PostHasSelected /\ PickerHolds /\ SavesAgree

LEMMA MediaTypeIs == MediaTypeOK <=> MediaShapes /\ MediaFlags
<1>1. MediaFlags <=> {picker, usable, loadError, loading, selecting, outrun, masked} \subseteq BOOLEAN
  BY Zenon DEF MediaFlags
<1>2. MediaShapes /\ {picker, usable, loadError, loading, selecting, outrun, masked} \subseteq BOOLEAN
      <=> MediaTypeOK
  BY Zenon DEF MediaShapes, MediaTypeOK
<1> QED BY <1>1, <1>2

LEMMA MediaSizes == Files \in Nat \ {0} /\ Loads \in Nat \ {0} /\ MaxUses \in Nat
BY MediaAssumption DEF MediaAssumption

LEMMA MediaCounts ==
    ASSUME MediaShapes
    PROVE  uses \in 0..MaxUses /\ (uses < MaxUses => uses + 1 \in 0..MaxUses)
<1>1. uses \in 0..MaxUses BY Zenon DEF MediaShapes
<1> QED BY <1>1, MediaSizes

Panel == [File -> SUBSET Field]
Save == [file : File, rows : SUBSET Field]

LEMMA NoPanelIs == NoPanel \in Panel
BY DEF NoPanel, Panel

LEMMA ItemsAre ==
    /\ Absent \in Item /\ Absent.name = 2
    /\ \A it \in Item : it # Absent => it.name \in {0, 1} /\ it.fields \subseteq Field
    /\ \A it \in Item : it.fields \subseteq Field
BY DEF Item, Absent, Known

LEMMA ListingsAre ==
    ASSUME MediaShapes
    PROVE  /\ listings \in Seq(Query) /\ Len(listings) \in Nat /\ Len(listings) <= Loads
           /\ DOMAIN listings = 1..Len(listings)
           /\ \A c \in DOMAIN listings : listings[c] \in Query
<1>1. listings \in Seq(Query) /\ Len(listings) <= Loads BY Zenon DEF MediaShapes
<1> QED BY <1>1, LenProperties, ElementOfSeq

(* A listing is asked for: it is the last now, and it clears the error.    *)
LEMMA LoadIs ==
    ASSUME MediaShapes, MediaFlags, usable' = usable, UNCHANGED <<outrun, grid>>,
           NEW page \in 1..(Files + 1), NEW corrected \in BOOLEAN, NEW filter \in Narrowing,
           NEW m \in 0..2, Load(page, corrected, filter, m),
           usable => filter = narrowed'
    PROVE  /\ listings' \in Seq(Query) /\ Len(listings') <= Loads /\ lastPer' \in 1..2
           /\ loading' \in BOOLEAN /\ loadError' \in BOOLEAN /\ masked' \in BOOLEAN
           /\ LastListing' /\ ErrorIsMasked'
<1> DEFINE size == IF m = 0 THEN 1 ELSE m
           q == [page |-> page, per |-> size, filter |-> filter, corrected |-> corrected,
                 overtaken |-> FALSE]
           n == Len(listings)
<1>1. /\ Len(listings) < Loads /\ listings' = Append(listings, q) /\ lastPer' = size
      /\ loading' = (usable \/ loading) /\ loadError' = (loadError /\ ~usable)
      /\ masked' = (masked /\ listings # <<>>)
  BY DEF Load
<1>2. size \in 1..2 OBVIOUS
<1> HIDE DEF size
<1>3. q \in Query
  <2>1. FALSE \in BOOLEAN BY Zenon
  <2> QED BY <1>2, <2>1, Zenon DEF Query
<1>4. q.overtaken = FALSE /\ q.per = size /\ q.filter = filter BY Zenon
<1>5. n \in Nat /\ listings \in Seq(Query) BY ListingsAre
<1> HIDE DEF q, n
<1>6. /\ listings' \in Seq(Query) /\ Len(listings') = n + 1 /\ listings'[n + 1] = q
  BY <1>1, <1>3, <1>5 DEF n
<1>7. Len(listings') <= Loads /\ listings' # <<>>
  <2>1. n + 1 <= Loads BY <1>1, <1>5, MediaSizes DEF n
  <2> QED BY <2>1, <1>5, <1>6
<1>8. loading' \in BOOLEAN /\ loadError' \in BOOLEAN /\ masked' \in BOOLEAN
  <2>1. (usable \/ loading) \in BOOLEAN /\ (loadError /\ ~usable) \in BOOLEAN
        /\ (masked /\ listings # <<>>) \in BOOLEAN
    BY Zenon
  <2> QED BY <1>1, <2>1, Zenon
<1>9. LastListing'
  <2>1. usable' => usable BY Zenon
  <2>2. usable => AsAsked(q)' BY <1>1, <1>4 DEF AsAsked
  <2>3. listings'[Len(listings')] = q BY <1>6
  <2>4. ~listings'[Len(listings')].overtaken BY <2>3, <1>4
  <2>5. AsAsked(listings[Len(listings)])' <=> AsAsked(q)' BY <2>3 DEF AsAsked
  <2> QED BY <2>1, <2>2, <2>4, <2>5, <1>7 DEF LastListing
<1>10. ErrorIsMasked'
  <2>1. usable => ~loadError' BY <1>1, Zenon
  <2> QED BY <2>1, Zenon DEF ErrorIsMasked
<1> QED BY <1>1, <1>2, <1>6, <1>7, <1>8, <1>9, <1>10

(* Nothing was asked for or answered.                                      *)
LEMMA ListingStays ==
    ASSUME LastListing, ErrorIsMasked,
           UNCHANGED <<listings, lastPer, masked, outrun, grid, loadError>>,
           usable' = usable \/ usable' = FALSE,
           UNCHANGED <<narrowed, searching>> \/ searching' # "none"
    PROVE  LastListing' /\ ErrorIsMasked'
<1>1. CASE usable' = FALSE BY <1>1 DEF LastListing, ErrorIsMasked
<1>2. CASE usable' = usable
  <2>1. AsAsked(grid.query) => AsAsked(grid.query)' BY DEF AsAsked
  <2>2. AsAsked(listings[Len(listings)]) => AsAsked(listings[Len(listings)])' BY DEF AsAsked
  <2>3. LastListing' BY <1>2, <2>1, <2>2 DEF LastListing
  <2>4. ErrorIsMasked' BY <1>2, Zenon DEF ErrorIsMasked
  <2> QED BY <2>3, <2>4
<1> QED BY <1>1, <1>2

(* Nothing was picked, saved or renamed.                                   *)
PicksKept == Renamed /\ Picking /\ PostHasSelected /\ PickerHolds /\ SavesAgree

LEMMA PicksStay ==
    ASSUME PicksKept, UNCHANGED <<stock, grid, chosen, handed, selected, pressed, picker, selecting,
                                  asking, jobs, saves, edited>>,
           usable' = usable \/ usable' = FALSE
    PROVE  PicksKept'
<1>1. usable' => usable BY Zenon
<1>2. Renamed' BY DEF PicksKept, Renamed
<1>3. Picking' BY <1>1 DEF PicksKept, Picking
<1>4. PostHasSelected' BY DEF PicksKept, PostHasSelected
<1>5. PickerHolds' BY <1>1 DEF PicksKept, PickerHolds
<1>6. SavesAgree' BY DEF PicksKept, SavesAgree
<1> QED BY <1>2, <1>3, <1>4, <1>5, <1>6 DEF PicksKept

LEMMA MediaInvIs ==
    MediaInv <=> MediaShapes /\ MediaFlags /\ LastListing /\ ErrorIsMasked /\ PicksKept
BY DEF MediaInv, PicksKept

(* An answer takes its listing away; those that were asked for earlier are *)
(* overtaken.                                                              *)
OvertakenBy(c) == [d \in DOMAIN listings |-> [listings[d] EXCEPT !.overtaken = @ \/ d < c]]

LEMMA AnswersAre ==
    ASSUME MediaShapes, NEW c \in DOMAIN listings
    PROVE  LET rest == OvertakenBy(c)
               n == Len(listings)
               next == RemoveAt(rest, c)
           IN  /\ next \in Seq(Query) /\ Len(next) = n - 1 /\ Len(next) <= Loads
               /\ n \in Nat \ {0} /\ DOMAIN next = 1..(n - 1)
               /\ c = n => \A d \in DOMAIN next : next[d].overtaken
               /\ c # n => next[n - 1] = listings[n]
               /\ (\A d \in DOMAIN listings : listings[d].overtaken) =>
                     \A d \in DOMAIN next : next[d].overtaken
<1> DEFINE rest == OvertakenBy(c)
           n == Len(listings)
           next == RemoveAt(rest, c)
<1>0. DOMAIN rest = DOMAIN listings BY DEF OvertakenBy
<1> HIDE DEF rest
<1>1. /\ listings \in Seq(Query) /\ n \in Nat /\ n <= Loads /\ DOMAIN listings = 1..n
      /\ \A d \in 1..n : listings[d] \in Query
  BY ListingsAre
<1>2. \A d \in 1..n : rest[d] \in Query /\ (listings[d].overtaken => rest[d].overtaken)
                      /\ (d < c => rest[d].overtaken) /\ (~(d < c) => rest[d] = listings[d])
  <2> SUFFICES ASSUME NEW d \in 1..n
               PROVE  rest[d] \in Query /\ (listings[d].overtaken => rest[d].overtaken)
                      /\ (d < c => rest[d].overtaken) /\ (~(d < c) => rest[d] = listings[d])
    OBVIOUS
  <2>1. PICK q \in Query : q = listings[d] BY <1>1
  <2>2. rest[d] = [q EXCEPT !.overtaken = q.overtaken \/ d < c]
    BY <1>1, <2>1, Zenon DEF rest, OvertakenBy
  <2>3. PICK b \in BOOLEAN : b = (q.overtaken \/ d < c)
    <3>1. (q.overtaken \/ d < c) \in BOOLEAN BY Zenon
    <3> QED BY <3>1, Zenon
  <2>4. rest[d] = [q EXCEPT !.overtaken = b] BY <2>2, <2>3, Zenon
  <2>5. [q EXCEPT !.overtaken = b] \in Query /\ [q EXCEPT !.overtaken = b].overtaken = b
    BY DEF Query
  <2>6. ~(d < c) => rest[d] = q
    <3>1. q.overtaken \in BOOLEAN BY Zenon DEF Query
    <3>2. ~(d < c) => b = q.overtaken BY <2>3, <3>1, Zenon
    <3>3. [q EXCEPT !.overtaken = q.overtaken] = q BY DEF Query
    <3> QED BY <2>4, <3>2, <3>3
  <2> QED BY <2>1, <2>3, <2>4, <2>5, <2>6, Zenon
<1>3. c \in 1..n /\ n \in Nat \ {0} BY <1>1
<1>4. rest \in Seq(Query) /\ Len(rest) = n
  <2>1. DOMAIN rest = 1..n BY <1>0, <1>1
  <2>2. rest = [d \in DOMAIN rest |-> rest[d]] BY DEF rest, OvertakenBy
  <2>3. rest \in [1..n -> Query] BY <1>2, <2>1, <2>2
  <2> QED BY <2>3, <1>1
<1>5. c \in 1..Len(rest) BY <1>3, <1>4
<1>6. /\ next \in Seq(Query) /\ Len(next) = n - 1
      /\ \A d \in 1..(n - 1) : next[d] = rest[Before(c, d)]
  <2> HIDE DEF n
  <2>1. c \in 1..Len(rest) /\ rest \in Seq(Query) /\ Len(rest) = n BY <1>4, <1>5
  <2>2. /\ RemoveAt(rest, c) \in Seq(Query) /\ Len(RemoveAt(rest, c)) = Len(rest) - 1
        /\ \A d \in 1..(Len(rest) - 1) : RemoveAt(rest, c)[d] = rest[Before(c, d)]
    BY <2>1, WithoutIs
  <2> QED BY <2>1, <2>2
<1> HIDE DEF n, next
<1>7. DOMAIN next = 1..(n - 1) /\ Len(next) <= Loads
  <2>1. DOMAIN next = 1..Len(next) BY <1>6, LenProperties
  <2> QED BY <2>1, <1>1, <1>3, <1>6, MediaSizes
<1>8. \A d \in 1..(n - 1) : Before(c, d) \in 1..n BY <1>3 DEF Before
<1>9. c = n => \A d \in 1..(n - 1) : next[d].overtaken
  <2> SUFFICES ASSUME c = n, NEW d \in 1..(n - 1) PROVE next[d].overtaken OBVIOUS
  <2>1. Before(c, d) = d /\ d < c /\ d \in 1..n BY <1>3 DEF Before
  <2>2. next[d] = rest[d] BY <2>1, <1>6
  <2>3. rest[d].overtaken BY <2>1, <1>2, Zenon
  <2> QED BY <2>2, <2>3, Zenon
<1>10. c # n => next[n - 1] = listings[n]
  <2> SUFFICES ASSUME c # n PROVE next[n - 1] = listings[n] OBVIOUS
  <2>1. n - 1 \in 1..(n - 1) /\ Before(c, n - 1) = n /\ ~(n < c) /\ n \in 1..n
    BY <1>3 DEF Before
  <2>2. next[n - 1] = rest[n] BY <2>1, <1>6
  <2>3. rest[n] = listings[n] BY <2>1, <1>2, Zenon
  <2> QED BY <2>2, <2>3, Zenon
<1>11. ASSUME \A d \in 1..n : listings[d].overtaken, NEW d \in 1..(n - 1)
       PROVE  next[d].overtaken
  BY <1>2, <1>6, <1>8, <1>11
<1> QED BY <1>1, <1>3, <1>6, <1>7, <1>9, <1>10, <1>11 DEF n, next, rest

LEMMA PagesAre ==
    ASSUME MediaShapes, NEW q \in Query
    PROVE  ListedBy(q) \subseteq File /\ PagesOf(q) \in 0..Files
<1>1. Matching(q) \subseteq File /\ ListedBy(q) \subseteq File BY DEF Matching, ListedBy
<1>2. IsFiniteSet(File) /\ Cardinality(File) = Files
  BY MediaSizes, FS_Interval DEF File
<1>3. Cardinality(Matching(q)) \in 0..Files
  <2>1. IsFiniteSet(Matching(q)) /\ Cardinality(Matching(q)) <= Files
    BY <1>1, <1>2, FS_Subset
  <2>2. Cardinality(Matching(q)) \in Nat BY <2>1, FS_CardinalityType
  <2> QED BY <2>1, <2>2, MediaSizes
<1> DEFINE k == Cardinality(Matching(q))
<1>4. q.per = 1 \/ q.per = 2
  <2>1. q.per \in 1..2 BY Zenon DEF Query
  <2> QED BY <2>1
<1>5. k \in 0..Files BY <1>3
<1>6. PagesOf(q) = (k + q.per - 1) \div q.per BY DEF PagesOf
<1> HIDE DEF k
<1>7. CASE q.per = 1
  <2>1. (k + 1 - 1) \div 1 = k BY <1>5
  <2> QED BY <1>1, <1>5, <1>6, <1>7, <2>1
<1>8. CASE q.per = 2
  <2>1. (k + 2 - 1) \div 2 \in 0..Files BY <1>5, MediaSizes
  <2> QED BY <1>1, <1>6, <1>8, <2>1
<1> QED BY <1>4, <1>7, <1>8

(* What an answer lists.                                                   *)
RowsOf(q) == [i \in File |-> IF i \in ListedBy(q)
                             THEN [name |-> stock[i].name, fields |-> stock[i].fields] ELSE Absent]

LEMMA RowsAre ==
    ASSUME MediaShapes, NEW q \in Query
    PROVE  /\ RowsOf(q) \in [File -> Item]
           /\ \A i \in File : RowsOf(q)[i].name = 1 => stock[i].name = 1
<1> SUFFICES ASSUME NEW i \in File
             PROVE  RowsOf(q)[i] \in Item /\ (RowsOf(q)[i].name = 1 => stock[i].name = 1)
  BY DEF RowsOf
<1>1. stock \in [File -> [there : BOOLEAN, name : {0, 1}, fields : SUBSET Field]]
  BY Zenon DEF MediaShapes
<1>2. stock[i].name \in {0, 1} /\ stock[i].fields \in SUBSET Field
  <2>1. stock[i] \in [there : BOOLEAN, name : {0, 1}, fields : SUBSET Field] BY <1>1
  <2> QED BY <2>1, Zenon
<1>3. [name |-> stock[i].name, fields |-> stock[i].fields] \in Item BY <1>2 DEF Item, Known
<1>4. [name |-> stock[i].name, fields |-> stock[i].fields].name = stock[i].name OBVIOUS
<1>5. RowsOf(q)[i] = IF i \in ListedBy(q)
                     THEN [name |-> stock[i].name, fields |-> stock[i].fields] ELSE Absent
  BY DEF RowsOf
<1>6. CASE i \in ListedBy(q) BY <1>3, <1>4, <1>5, <1>6
<1>7. CASE i \notin ListedBy(q)
  <2>1. RowsOf(q)[i] = Absent BY <1>5, <1>7
  <2> QED BY <2>1, ItemsAre
<1> QED BY <1>6, <1>7

(* What an answer puts on the screen.                                      *)
LEMMA GridIs ==
    ASSUME MediaShapes, NEW c \in DOMAIN listings, NEW ok \in BOOLEAN, usable, Answer(c, ok)
    PROVE  /\ ok => /\ grid' = [items |-> RowsOf(listings[c]), page |-> listings[c].page,
                                pages |-> PagesOf(listings[c]), query |-> listings[c]]
                    /\ frame' \in {frame, listings[c].page}
                    /\ lookups' \in {{}, ListedBy(listings[c])}
           /\ ~ok => UNCHANGED <<grid, frame, lookups>>
<1>1. ok => /\ grid' = [items |-> RowsOf(listings[c]), page |-> listings[c].page,
                        pages |-> PagesOf(listings[c]), query |-> listings[c]]
            /\ frame' = (IF listings[c].corrected \/ frame # 0 THEN frame ELSE listings[c].page)
            /\ lookups' = (IF picker THEN {} ELSE ListedBy(listings[c]))
  BY Zenon DEF Answer, RowsOf
<1>2. ~ok => UNCHANGED <<grid, frame, lookups>>
  BY Zenon DEF Answer
<1> QED BY <1>1, <1>2, Zenon

LEMMA AnswerShapes ==
    ASSUME MediaShapes, MediaFlags, NEW c \in DOMAIN listings, NEW ok \in BOOLEAN, Answer(c, ok)
    PROVE  /\ grid' \in [items : [File -> Item], page : 1..(Files + 1), pages : 0..Files,
                         query : Query]
           /\ frame' \in 0..(Files + 1) /\ lookups' \subseteq File /\ panel' = NoPanel
           /\ loading' \in BOOLEAN /\ loadError' \in BOOLEAN
           /\ outrun' \in BOOLEAN /\ masked' \in BOOLEAN
           /\ \A i \in File : grid'.items[i].name = 1 => grid.items[i].name = 1 \/ stock[i].name = 1
<1> DEFINE q == listings[c]
<1>1. q \in Query BY ListingsAre
<1>2. q.page \in 1..(Files + 1) /\ q.overtaken \in BOOLEAN BY <1>1, Zenon DEF Query
<1>3. panel' = NoPanel BY DEF Answer, Redrawn
<1>4. /\ grid \in [items : [File -> Item], page : 1..(Files + 1), pages : 0..Files, query : Query]
      /\ frame \in 0..(Files + 1) /\ lookups \subseteq File
  BY Zenon DEF MediaShapes
<1>5. outrun' \in BOOLEAN
  <2>1. outrun' = (IF ok THEN q.overtaken ELSE outrun) BY Zenon DEF Answer
  <2> QED BY <2>1, <1>2, Zenon DEF MediaFlags
<1>6. masked' \in BOOLEAN
  <2>1. masked' = (masked \/ ~ok) BY Zenon DEF Answer
  <2>2. (masked \/ ~ok) \in BOOLEAN BY Zenon
  <2> QED BY <2>1, <2>2, Zenon
<1>7. CASE ~usable
  <2>1. UNCHANGED <<grid, loadError, loading, frame, lookups>> BY <1>7, Zenon DEF Answer
  <2>2. loading \in BOOLEAN /\ loadError \in BOOLEAN BY Zenon DEF MediaFlags
  <2> QED BY <2>1, <2>2, <1>3, <1>4, <1>5, <1>6, Zenon
<1>8. CASE usable
  <2>1. loading' \in BOOLEAN /\ loadError' \in BOOLEAN
    <3>1. loading' = FALSE /\ loadError' = (loadError \/ ~ok) BY <1>8, Zenon DEF Answer
    <3>2. FALSE \in BOOLEAN /\ (loadError \/ ~ok) \in BOOLEAN BY Zenon
    <3> QED BY <3>1, <3>2, Zenon
  <2>2. CASE ~ok
    <3>1. UNCHANGED <<grid, frame, lookups>> BY <1>8, <2>2, GridIs
    <3> QED BY <2>1, <3>1, <1>3, <1>4, <1>5, <1>6, Zenon
  <2>3. CASE ok
    <3> HIDE DEF q
    <3>1. /\ grid' = [items |-> RowsOf(q), page |-> q.page, pages |-> PagesOf(q), query |-> q]
          /\ frame' \in {frame, q.page} /\ lookups' \in {{}, ListedBy(q)}
      BY <1>8, <2>3, GridIs DEF q
    <3>2. /\ RowsOf(q) \in [File -> Item] /\ PagesOf(q) \in 0..Files /\ ListedBy(q) \subseteq File
          /\ \A i \in File : RowsOf(q)[i].name = 1 => stock[i].name = 1
      BY <1>1, RowsAre, PagesAre
    <3>3. grid' \in [items : [File -> Item], page : 1..(Files + 1), pages : 0..Files,
                     query : Query]
      BY <3>1, <3>2, <1>1, <1>2
    <3>4. frame' \in 0..(Files + 1) BY <3>1, <1>2, <1>4
    <3>5. lookups' \subseteq File BY <3>1, <3>2
    <3>6. grid'.items = RowsOf(q) BY <3>1
    <3> QED BY <2>1, <3>2, <3>3, <3>4, <3>5, <3>6, <1>3, <1>5, <1>6, Zenon
  <2> QED BY <2>2, <2>3
<1> QED BY <1>7, <1>8

(* The library's shapes, but for what a listing changes.                   *)
LEMMA AnswerQueue ==
    ASSUME MediaShapes, NEW c \in DOMAIN listings, NEW ok \in BOOLEAN, Answer(c, ok)
    PROVE  LET n == Len(listings)
           IN  /\ listings' \in Seq(Query) /\ Len(listings') = n - 1 /\ Len(listings') <= Loads
               /\ n \in Nat \ {0} /\ DOMAIN listings' = 1..(n - 1)
               /\ c = n => \A d \in DOMAIN listings' : listings'[d].overtaken
               /\ c # n => listings'[n - 1] = listings[n]
               /\ (\A d \in DOMAIN listings : listings[d].overtaken) =>
                     \A d \in DOMAIN listings' : listings'[d].overtaken
<1>1. listings' = RemoveAt(OvertakenBy(c), c) BY Zenon DEF Answer, OvertakenBy
<1> QED BY <1>1, AnswersAre, Zenon

LEMMA AnswerListing ==
    ASSUME MediaShapes, MediaFlags, LastListing, ErrorIsMasked,
           NEW c \in DOMAIN listings, NEW ok \in BOOLEAN, Answer(c, ok),
           UNCHANGED <<usable, narrowed, searching, lastPer>>
    PROVE  LastListing' /\ ErrorIsMasked'
<1> DEFINE n == Len(listings)
           q == listings[c]
<1>1. CASE ~usable
  <2>1. ~usable' BY <1>1
  <2> QED BY <2>1, Zenon DEF LastListing, ErrorIsMasked
<1>2. CASE usable
  <2>1. outrun' = (IF ok THEN q.overtaken ELSE outrun) /\ masked' = (masked \/ ~ok)
        /\ loadError' = (loadError \/ ~ok)
    BY <1>2, Zenon DEF Answer
  <2>2. ErrorIsMasked' BY <1>2, <2>1, Zenon DEF ErrorIsMasked
  <2>3. /\ DOMAIN listings = 1..n /\ n \in Nat \ {0} /\ Len(listings') = n - 1
        /\ DOMAIN listings' = 1..(n - 1)
        /\ c = n => \A d \in DOMAIN listings' : listings'[d].overtaken
        /\ c # n => listings'[n - 1] = listings[n]
        /\ (\A d \in DOMAIN listings : listings[d].overtaken) =>
              \A d \in DOMAIN listings' : listings'[d].overtaken
    BY AnswerQueue, ListingsAre
  <2>4. ok => grid' = [items |-> RowsOf(q), page |-> q.page, pages |-> PagesOf(q), query |-> q]
    BY <1>2, GridIs
  <2>5. ok => grid'.query = q BY <2>4
  <2>6. \/ ~listings[n].overtaken /\ AsAsked(listings[n])
        \/ \A d \in DOMAIN listings : listings[d].overtaken
    BY <1>2, Zenon DEF LastListing
  <2> SUFFICES \/ /\ listings' # <<>>
                  /\ ~listings'[Len(listings')].overtaken /\ AsAsked(listings[Len(listings)])'
               \/ /\ \A d \in DOMAIN listings' : listings'[d].overtaken
                  /\ masked' \/ outrun' \/ AsAsked(grid.query)'
    BY <2>2, Zenon DEF LastListing
  <2>7. CASE \A d \in DOMAIN listings : listings[d].overtaken
    <3>1. \A d \in DOMAIN listings' : listings'[d].overtaken BY <2>3, <2>7, Zenon
    <3>2. q.overtaken BY <2>7
    <3>3. masked' \/ outrun' BY <3>2, <2>1, Zenon
    <3> QED BY <3>1, <3>3, Zenon
  <2>8. CASE ~listings[n].overtaken /\ AsAsked(listings[n]) /\ c = n
    <3>1. \A d \in DOMAIN listings' : listings'[d].overtaken BY <2>3, <2>8, Zenon
    <3>2. ~ok => masked' BY <2>1, Zenon
    <3>3. ok => AsAsked(grid.query)'
      <4> SUFFICES ASSUME ok PROVE AsAsked(grid.query)' OBVIOUS
      <4>1. grid'.query = listings[n] BY <2>5, <2>8
      <4> QED BY <4>1, <2>8 DEF AsAsked
    <3> QED BY <3>1, <3>2, <3>3, Zenon
  <2>9. CASE ~listings[n].overtaken /\ AsAsked(listings[n]) /\ c # n
    <3>1. listings'[n - 1] = listings[n] BY <2>3, <2>9, Zenon
    <3>2. n # 1 BY <2>3, <2>9
    <3>3. listings' # <<>> BY <3>2, <2>3
    <3>4. listings'[Len(listings')] = listings[n] BY <3>1, <2>3
    <3> HIDE DEF n, q
    <3>5. ~listings'[Len(listings')].overtaken BY <3>4, <2>9
    <3>6. AsAsked(listings[Len(listings)])' BY <3>4, <2>9 DEF AsAsked
    <3> QED BY <3>3, <3>5, <3>6
  <2> QED BY <2>6, <2>7, <2>8, <2>9, Zenon
<1> QED BY <1>1, <1>2

(* The rows of the grid change, to names that are on the server.           *)
LEMMA RowsStay ==
    ASSUME PicksKept, \A i \in File : grid'.items[i].name = 1 =>
                                          grid.items[i].name = 1 \/ stock[i].name = 1,
           UNCHANGED <<stock, chosen, handed, selected, pressed, picker, selecting,
                       asking, jobs, saves, edited, usable>>
    PROVE  PicksKept'
<1>1. Renamed' BY DEF PicksKept, Renamed
<1>2. Picking' BY DEF PicksKept, Picking
<1>3. PostHasSelected' BY DEF PicksKept, PostHasSelected
<1>4. PickerHolds' BY DEF PicksKept, PickerHolds
<1>5. SavesAgree' BY DEF PicksKept, SavesAgree
<1> QED BY <1>1, <1>2, <1>3, <1>4, <1>5 DEF PicksKept

LEMMA AnswerKeeps ==
    ASSUME MediaInv, NEW c \in DOMAIN listings, NEW ok \in BOOLEAN, Answer(c, ok),
           uses' \in 0..MaxUses,
           UNCHANGED <<stock, picker, usable, narrowed, searching, fitting, picks, asking, jobs,
                       handed, saves, edited>>
    PROVE  MediaInv'
<1>1. MediaShapes /\ MediaFlags /\ LastListing /\ ErrorIsMasked /\ PicksKept
  BY MediaInvIs
<1>2. UNCHANGED <<fits, lastPer, measured, selecting, selected, chosen, pressed>>
  BY Zenon DEF fitting, picks
<1>3. MediaShapes'
  <2>1. /\ grid' \in [items : [File -> Item], page : 1..(Files + 1), pages : 0..Files,
                      query : Query]
        /\ frame' \in 0..(Files + 1) /\ lookups' \subseteq File /\ panel' = NoPanel
    BY <1>1, AnswerShapes
  <2>2. listings' \in Seq(Query) /\ Len(listings') <= Loads BY <1>1, AnswerQueue
  <2>3. panel' \in Panel BY <2>1, NoPanelIs
  <2> QED BY <1>1, <1>2, <2>1, <2>2, <2>3, Zenon DEF MediaShapes, Panel
<1>4. MediaFlags'
  <2>1. loading' \in BOOLEAN /\ loadError' \in BOOLEAN /\ outrun' \in BOOLEAN
        /\ masked' \in BOOLEAN
    BY <1>1, AnswerShapes
  <2> QED BY <1>1, <1>2, <2>1, Zenon DEF MediaFlags
<1>5. LastListing' /\ ErrorIsMasked' BY <1>1, <1>2, AnswerListing
<1>6. PicksKept'
  <2>1. \A i \in File : grid'.items[i].name = 1 => grid.items[i].name = 1 \/ stock[i].name = 1
    BY <1>1, AnswerShapes
  <2> QED BY <1>1, <1>2, <2>1, RowsStay
<1> QED BY <1>3, <1>4, <1>5, <1>6 DEF MediaInv, PicksKept

LEMMA ListingAnsweredKeeps ==
    ASSUME MediaInv, NEW c, ListingAnswered(c) \/ Failed(c)
    PROVE  MediaInv'
<1>1. MediaShapes BY MediaInvIs
<1>2. uses \in 0..MaxUses /\ (uses < MaxUses => uses + 1 \in 0..MaxUses) BY <1>1, MediaCounts
<1>3. CASE ListingAnswered(c)
  <2>1. c \in DOMAIN listings /\ Answer(c, TRUE) /\ uses' \in 0..MaxUses
    BY <1>2, <1>3 DEF ListingAnswered
  <2> QED BY <1>3, <2>1, AnswerKeeps DEF ListingAnswered
<1>4. CASE Failed(c)
  <2>1. c \in DOMAIN listings /\ Answer(c, FALSE) /\ uses' \in 0..MaxUses
    BY <1>2, <1>4 DEF Failed
  <2> QED BY <1>4, <2>1, AnswerKeeps DEF Failed
<1> QED BY <1>3, <1>4

Job == [op : {"upload", "uploaded", "rename", "delete", "delete all"},
        left : SUBSET File, done : SUBSET File]
Asking == [op : {"none", "delete", "delete all"}, ids : SUBSET File]
Row == [there : BOOLEAN, name : {0, 1}, fields : SUBSET Field]

(* A step that asks for a listing, of what else it leaves.                 *)
LEMMA LoadKeeps ==
    ASSUME MediaInv, usable' = usable, UNCHANGED <<picker, outrun, grid, handed>>,
           NEW page \in 1..(Files + 1), NEW corrected \in BOOLEAN, NEW filter \in Narrowing,
           NEW m \in 0..2, Load(page, corrected, filter, m), usable => filter = narrowed',
           fits' \in 1..2, measured' \in 0..2, narrowed' \in Narrowing,
           searching' \in Narrowing \cup {"none"},
           frame' \in 0..(Files + 1), lookups' \subseteq File, uses' \in 0..MaxUses,
           panel' = NoPanel \/ UNCHANGED panel,
           UNCHANGED <<saves, edited>>,
           stock' \in [File -> Row], jobs' \in Seq(Job), asking' \in Asking,
           selected' \subseteq File, pressed' \subseteq File, chosen' \in [File -> Item],
           selecting' \in BOOLEAN, PicksKept'
    PROVE  MediaInv'
<1>1. MediaShapes /\ MediaFlags BY MediaInvIs
<1>2. /\ listings' \in Seq(Query) /\ Len(listings') <= Loads /\ lastPer' \in 1..2
      /\ loading' \in BOOLEAN /\ loadError' \in BOOLEAN /\ masked' \in BOOLEAN
      /\ LastListing' /\ ErrorIsMasked'
  BY <1>1, LoadIs
<1>3. panel' \in Panel
  <2>1. panel \in Panel BY <1>1, Zenon DEF MediaShapes, Panel
  <2> QED BY <2>1, NoPanelIs
<1>4. MediaShapes'
  BY <1>1, <1>2, <1>3, Zenon DEF MediaShapes, Panel, Save, Row, Job, Asking
<1>5. MediaFlags'
  BY <1>1, <1>2, Zenon DEF MediaFlags
<1> QED BY <1>2, <1>4, <1>5, Zenon DEF MediaInv, PicksKept

(* A step that neither asks for a listing nor is an answer.                *)
LEMMA OtherKeeps ==
    ASSUME MediaInv, UNCHANGED <<listings, lastPer, masked, outrun, grid, loadError, loading,
                                 measured, picker>>,
           usable' = usable \/ usable' = FALSE,
           UNCHANGED <<narrowed, searching>> \/ searching' # "none",
           fits' \in 1..2, narrowed' \in Narrowing, searching' \in Narrowing \cup {"none"},
           frame' \in 0..(Files + 1), lookups' \subseteq File, uses' \in 0..MaxUses,
           panel' \in Panel,
           stock' \in [File -> Row], jobs' \in Seq(Job), asking' \in Asking,
           selected' \subseteq File, pressed' \subseteq File, chosen' \in [File -> Item],
           selecting' \in BOOLEAN,
           handed' \in [of : SUBSET File, given : SUBSET File, stale : SUBSET File,
                        pressed : SUBSET File],
           saves' \in Seq(Save),
           edited' \in [saved : [File -> SUBSET Field], unsure : SUBSET File],
           PicksKept'
    PROVE  MediaInv'
<1>1. MediaShapes /\ MediaFlags /\ LastListing /\ ErrorIsMasked BY MediaInvIs
<1>2. LastListing' /\ ErrorIsMasked' BY <1>1, ListingStays
<1>3. MediaShapes'
  BY <1>1, Zenon DEF MediaShapes, Panel, Save, Row, Job, Asking
<1>4. MediaFlags'
  <2>1. usable' \in BOOLEAN BY <1>1, Zenon DEF MediaFlags
  <2> QED BY <1>1, <2>1, Zenon DEF MediaFlags
<1> QED BY <1>2, <1>3, <1>4, Zenon DEF MediaInv, PicksKept

(* What every action may take from the state it starts in.                 *)
LEMMA MediaState ==
    ASSUME MediaInv
    PROVE  /\ stock \in [File -> Row] /\ jobs \in Seq(Job) /\ asking \in Asking
           /\ selected \subseteq File /\ pressed \subseteq File /\ chosen \in [File -> Item]
           /\ selecting \in BOOLEAN /\ frame \in 0..(Files + 1) /\ lookups \subseteq File
           /\ uses \in 0..MaxUses /\ panel \in Panel
           /\ narrowed \in Narrowing /\ searching \in Narrowing \cup {"none"}
           /\ fits \in 1..2 /\ measured \in 0..2 /\ lastPer \in 1..2
           /\ grid \in [items : [File -> Item], page : 1..(Files + 1), pages : 0..Files,
                        query : Query]
           /\ handed \in [of : SUBSET File, given : SUBSET File, stale : SUBSET File,
                          pressed : SUBSET File]
           /\ edited \in [saved : [File -> SUBSET Field], unsure : SUBSET File]
           /\ saves \in Seq(Save)
           /\ PicksKept
BY Zenon DEF MediaInv, PicksKept, MediaShapes, MediaFlags, Panel, Save, Row, Job, Asking

LEMMA ActCounts ==
    ASSUME MediaInv, Act
    PROVE  usable /\ asking.op = "none" /\ uses' \in 0..MaxUses
<1>1. MediaShapes BY MediaInvIs
<1> QED BY <1>1, MediaCounts DEF Act

LEMMA FirstPage == 1 \in 1..(Files + 1) /\ FALSE \in BOOLEAN
<1>1. 1 \in 1..(Files + 1) BY MediaSizes
<1>2. FALSE \in BOOLEAN BY Zenon
<1> QED BY <1>1, <1>2

LEMMA TakesAll ==
    ASSUME UNCHANGED <<stock, grid, picks, handed, picker, asking, jobs, saves, edited>>, PicksKept,
           usable' = usable \/ usable' = FALSE
    PROVE  PicksKept' /\ UNCHANGED <<selecting, selected, chosen, pressed>>
<1>1. UNCHANGED <<selecting, selected, chosen, pressed>> BY Zenon DEF picks
<1>2. PicksKept' BY <1>1, PicksStay
<1> QED BY <1>1, <1>2

LEMMA MeasureKeeps == ASSUME MediaInv, Measure PROVE MediaInv'
<1>1. /\ frame # 0 /\ frame' = 0
      /\ UNCHANGED <<stock, picker, usable, narrowed, searching, fits, grid, picks, asking, jobs,
                     lookups, uses, outrun, handed, saves, edited>>
  BY Zenon DEF Measure
<1>2. PicksKept' /\ UNCHANGED <<selecting, selected, chosen, pressed>>
  BY <1>1, MediaState, TakesAll
<1>3. frame \in 1..(Files + 1) /\ frame' \in 0..(Files + 1) /\ fits \in 0..2
  <2>1. frame \in 0..(Files + 1) /\ fits \in 1..2 BY MediaState
  <2> QED BY <1>1, <2>1, MediaSizes
<1>4. CASE OnScreen # {} /\ fits # lastPer
  <2>1. measured' = fits /\ Load(frame, TRUE, narrowed, fits) /\ panel' = NoPanel
    BY <1>4, Zenon DEF Measure, Redrawn
  <2>2. TRUE \in BOOLEAN BY Zenon
  <2> QED BY <1>1, <1>2, <1>3, <2>1, <2>2, MediaState, LoadKeeps
<1>5. CASE ~(OnScreen # {} /\ fits # lastPer)
  <2>1. UNCHANGED <<measured, lastPer, listings, loading, loadError, masked, panel>>
    BY <1>5, Zenon DEF Measure
  <2> QED BY <1>1, <1>2, <1>3, <2>1, MediaState, OtherKeeps
<1> QED BY <1>4, <1>5

LEMMA LookupKeeps == ASSUME MediaInv, NEW i, Lookup(i) PROVE MediaInv'
<1>1. /\ lookups' = lookups \ {i} /\ (panel' = NoPanel \/ panel' = panel)
      /\ UNCHANGED <<stock, picker, usable, narrowed, searching, fitting, listings, grid, loadError,
                     loading, frame, picks, asking, jobs, uses, outrun, masked, handed, saves, edited>>
  BY Zenon DEF Lookup, Redrawn
<1>2. UNCHANGED <<fits, lastPer, measured>> BY <1>1, Zenon DEF fitting
<1>3. PicksKept' /\ UNCHANGED <<selecting, selected, chosen, pressed>>
  BY <1>1, MediaState, TakesAll
<1>4. lookups' \subseteq File /\ panel' \in Panel
  <2>1. lookups \subseteq File /\ panel \in Panel BY MediaState
  <2> QED BY <2>1, <1>1, NoPanelIs
<1> QED BY <1>1, <1>2, <1>3, <1>4, MediaState, OtherKeeps

LEMMA NarrowFilesKeep == ASSUME MediaInv, NEW f \in Narrowing, NarrowFiles(f) PROVE MediaInv'
<1>1. /\ Act /\ narrowed' = f /\ Load(1, FALSE, f, measured) /\ panel' = NoPanel
      /\ UNCHANGED <<stock, picker, usable, grid, lookups, outrun, saves, edited>>
      /\ UNCHANGED <<searching, fits, measured, frame, picks, asking, jobs, handed>>
  BY Zenon DEF NarrowFiles, Same, Redrawn
<1>2. PicksKept' /\ UNCHANGED <<selecting, selected, chosen, pressed>>
  BY <1>1, MediaState, TakesAll
<1> QED BY <1>1, <1>2, ActCounts, FirstPage, MediaState, LoadKeeps

LEMMA TypeKeeps == ASSUME MediaInv, NEW f \in Narrowing, Type(f) PROVE MediaInv'
<1>1. /\ Act /\ narrowed' = f /\ searching' = f
      /\ UNCHANGED <<stock, picker, usable, grid, lookups, outrun, saves, edited>>
      /\ UNCHANGED <<fitting, listings, loadError, loading, masked>>
      /\ UNCHANGED <<frame, picks, asking, jobs, panel, handed>>
  BY Zenon DEF Type, Same, Unlisted
<1>2. UNCHANGED <<fits, lastPer, measured>> BY <1>1, Zenon DEF fitting
<1>3. PicksKept' /\ UNCHANGED <<selecting, selected, chosen, pressed>>
  BY <1>1, MediaState, TakesAll
<1>4. searching' # "none" BY <1>1 DEF Narrowing
<1> QED BY <1>1, <1>2, <1>3, <1>4, ActCounts, MediaState, OtherKeeps

LEMMA SearchKeeps == ASSUME MediaInv, Search PROVE MediaInv'
<1>1. /\ searching # "none" /\ searching' = "none"
      /\ narrowed' = (IF usable THEN searching ELSE narrowed)
      /\ Load(1, FALSE, narrowed', measured) /\ panel' = NoPanel
      /\ UNCHANGED <<stock, picker, usable, grid, lookups, outrun, saves, edited>>
      /\ UNCHANGED <<fits, measured, frame, picks, asking, jobs, uses, handed>>
  BY Zenon DEF Search, Same, Redrawn
<1>2. PicksKept' /\ UNCHANGED <<selecting, selected, chosen, pressed>>
  BY <1>1, MediaState, TakesAll
<1>3. narrowed' \in Narrowing BY <1>1, MediaState
<1>4. PICK f \in Narrowing : f = narrowed' BY <1>3
<1>5. Load(1, FALSE, f, measured)
  <2> DEFINE old == narrowed'
  <2>1. Load(1, FALSE, old, measured) BY <1>1
  <2>2. old = f BY <1>4
  <2> QED BY <2>1, <2>2 DEF Load
<1> QED BY <1>1, <1>2, <1>3, <1>4, <1>5, FirstPage, MediaState, LoadKeeps

LEMMA TurnKeeps == ASSUME MediaInv, NEW page, Turn(page) PROVE MediaInv'
<1>1. /\ Act /\ page \in 1..grid.pages \ {grid.page}
      /\ Load(page, FALSE, narrowed, measured) /\ UNCHANGED measured /\ panel' = NoPanel
      /\ UNCHANGED <<stock, picker, usable, grid, lookups, outrun, saves, edited>>
      /\ UNCHANGED <<narrowed, searching, fits, frame, picks, asking, jobs, handed>>
  BY Zenon DEF Turn, Loaded, Same, Redrawn
<1>2. PicksKept' /\ UNCHANGED <<selecting, selected, chosen, pressed>>
  BY <1>1, MediaState, TakesAll
<1>3. page \in 1..(Files + 1)
  <2>1. grid.pages \in 0..Files BY MediaState
  <2> QED BY <1>1, <2>1, MediaSizes
<1> QED BY <1>1, <1>2, <1>3, ActCounts, FirstPage, MediaState, LoadKeeps

LEMMA ZoomFilesKeeps == ASSUME MediaInv, ZoomFiles PROVE MediaInv'
<1>1. /\ Act /\ fits' = 3 - fits
      /\ UNCHANGED <<stock, picker, usable, grid, lookups, outrun, saves, edited>>
      /\ UNCHANGED <<narrowed, searching, frame, picks, asking, jobs, handed>>
  BY Zenon DEF ZoomFiles, Same
<1>2. PicksKept' /\ UNCHANGED <<selecting, selected, chosen, pressed>>
  BY <1>1, MediaState, TakesAll
<1>3. PICK m \in 1..2 : m = fits'
  <2>1. fits \in 1..2 BY MediaState
  <2>2. 3 - fits \in 1..2 BY <2>1
  <2> QED BY <1>1, <2>2
<1>4. m \in 0..2 /\ fits' \in 1..2 BY <1>3
<1>5. CASE OnScreen # {} /\ fits' # lastPer
  <2>1. measured' = fits' /\ Load(grid.page, FALSE, narrowed, fits') /\ panel' = NoPanel
    BY <1>5, Zenon DEF ZoomFiles, Redrawn
  <2>2. Load(grid.page, FALSE, narrowed, m)
    <3> DEFINE old == fits'
    <3>1. Load(grid.page, FALSE, narrowed, old) BY <2>1
    <3>2. old = m BY <1>3
    <3> QED BY <3>1, <3>2 DEF Load
  <2>3. grid.page \in 1..(Files + 1) /\ measured' \in 0..2 BY <2>1, <1>3, <1>4, MediaState
  <2> QED BY <1>1, <1>2, <1>4, <2>1, <2>2, <2>3, ActCounts, FirstPage, MediaState, LoadKeeps
<1>6. CASE ~(OnScreen # {} /\ fits' # lastPer)
  <2>1. UNCHANGED <<measured, lastPer, listings, loading, loadError, masked, panel>>
    BY <1>6, Zenon DEF ZoomFiles
  <2> QED BY <1>1, <1>2, <1>4, <2>1, ActCounts, MediaState, OtherKeeps
<1> QED BY <1>5, <1>6

LEMMA LeaveLibraryKeeps == ASSUME MediaInv, LeaveLibrary PROVE MediaInv'
<1>1. /\ Act /\ usable' = FALSE /\ panel' = NoPanel
      /\ UNCHANGED <<stock, picker, narrowed, searching, fitting, listings, grid, loadError,
                     loading, frame, picks, asking, jobs, lookups, outrun, masked, handed, saves, edited>>
  BY Zenon DEF LeaveLibrary
<1>2. UNCHANGED <<fits, lastPer, measured>> BY <1>1, Zenon DEF fitting
<1>3. PicksKept' /\ UNCHANGED <<selecting, selected, chosen, pressed>>
  BY <1>1, MediaState, TakesAll
<1>4. panel' \in Panel BY <1>1, NoPanelIs
<1> QED BY <1>1, <1>2, <1>3, <1>4, ActCounts, MediaState, OtherKeeps

(* The selection stays, names stay, and the dialog asks to delete nothing. *)
LEMMA PicksMove ==
    ASSUME PicksKept, UNCHANGED <<grid, chosen, handed, selected, pressed, picker, selecting>>,
           usable' = usable \/ usable' = FALSE,
           \A i \in File : stock[i].name = 1 => stock'[i].name = 1,
           SavesAgree',
           picker => asking'.op = "none" /\ \A k \in DOMAIN jobs' : jobs'[k].op # "delete all"
    PROVE  PicksKept'
<1>1. usable' => usable BY Zenon
<1>2. Renamed' BY DEF PicksKept, Renamed
<1>3. Picking' BY <1>1 DEF PicksKept, Picking
<1>4. PostHasSelected' BY DEF PicksKept, PostHasSelected, Renamed
<1>5. PickerHolds' BY <1>1 DEF PicksKept, PickerHolds
<1> QED BY <1>2, <1>3, <1>4, <1>5 DEF PicksKept

(* The jobs that are left are jobs there were.                             *)
JobsAmong(new) == \A k \in DOMAIN new : \E e \in DOMAIN jobs : new[k].op = jobs[e].op

LEMMA JobsGrow ==
    ASSUME MediaInv, NEW job \in Job
    PROVE  /\ Append(jobs, job) \in Seq(Job)
           /\ \A k \in DOMAIN Append(jobs, job) :
                 Append(jobs, job)[k] = job \/ \E e \in DOMAIN jobs : Append(jobs, job)[k] = jobs[e]
<1> DEFINE n == Len(jobs)
<1>1. jobs \in Seq(Job) BY MediaState
<1>2. n \in Nat /\ DOMAIN jobs = 1..n BY <1>1, LenProperties
<1>3. /\ Append(jobs, job) \in Seq(Job) /\ Len(Append(jobs, job)) = n + 1
      /\ \A e \in 1..n : Append(jobs, job)[e] = jobs[e]
      /\ Append(jobs, job)[n + 1] = job
  BY <1>1, AppendProperties
<1>4. DOMAIN Append(jobs, job) = 1..(n + 1) BY <1>3, LenProperties
<1> HIDE DEF n
<1>5. ASSUME NEW k \in 1..(n + 1)
      PROVE  Append(jobs, job)[k] = job \/ \E e \in 1..n : Append(jobs, job)[k] = jobs[e]
  <2>1. k = n + 1 \/ k \in 1..n BY <1>2
  <2> QED BY <2>1, <1>3
<1> QED BY <1>2, <1>3, <1>4, <1>5

LEMMA JobsShrink ==
    ASSUME MediaInv, NEW k \in DOMAIN jobs
    PROVE  RemoveAt(jobs, k) \in Seq(Job) /\ JobsAmong(RemoveAt(jobs, k))
<1> DEFINE n == Len(jobs)
           new == RemoveAt(jobs, k)
<1>1. jobs \in Seq(Job) BY MediaState
<1>2. n \in Nat /\ DOMAIN jobs = 1..n BY <1>1, LenProperties
<1>3. k \in 1..Len(jobs) BY <1>2
<1>4. new \in Seq(Job) /\ Len(new) = n - 1 /\ \A d \in 1..(n - 1) : new[d] = jobs[Before(k, d)]
  BY <1>1, <1>3, WithoutIs
<1>5. DOMAIN new = 1..Len(new) BY <1>4, LenProperties
<1> HIDE DEF n, new
<1>6. ASSUME NEW d \in DOMAIN new PROVE \E e \in DOMAIN jobs : new[d].op = jobs[e].op
  <2>1. d \in 1..(n - 1) BY <1>4, <1>5
  <2>2. Before(k, d) \in 1..n BY <1>2, <2>1, <1>3 DEF Before, n
  <2> QED BY <2>1, <2>2, <1>2, <1>4
<1> QED BY <1>4, <1>6 DEF JobsAmong, new

(* The dialog has no job that deletes, so it will not get one from those.  *)
LEMMA DialogKeepsAll ==
    ASSUME MediaInv, picker
    PROVE  ~selecting /\ asking.op = "none" /\ \A k \in DOMAIN jobs : jobs[k].op # "delete all"
BY MediaState, Zenon DEF PicksKept, Picking

LEMMA AskDeleteKeeps == ASSUME MediaInv, AskDelete PROVE MediaInv'
<1>1. /\ Act /\ ~picker
      /\ UNCHANGED <<stock, picker, usable, grid, lookups, outrun, saves, edited>>
      /\ UNCHANGED <<fitting, listings, loadError, loading, masked>>
      /\ UNCHANGED <<narrowed, searching, frame, picks, jobs, panel, handed>>
  BY Zenon DEF AskDelete, Same, Unlisted
<1>2. UNCHANGED <<fits, lastPer, measured, selecting, selected, chosen, pressed>>
  BY <1>1, Zenon DEF fitting, picks
<1>3. asking' \in Asking
  <2>1. \/ asking' = [op |-> "delete all", ids |-> selected]
        \/ \E i \in OnScreen : asking' = [op |-> "delete", ids |-> {i}]
    BY Zenon DEF AskDelete
  <2>2. selected \subseteq File BY MediaState
  <2>3. OnScreen \subseteq File BY DEF OnScreen, Shown
  <2>4. [op |-> "delete all", ids |-> selected] \in Asking BY <2>2 DEF Asking
  <2>5. \A i \in OnScreen : [op |-> "delete", ids |-> {i}] \in Asking BY <2>3 DEF Asking
  <2> QED BY <2>1, <2>4, <2>5, Zenon
<1>4. SavesAgree' BY <1>1, MediaState DEF PicksKept, SavesAgree
<1>5. PicksKept' BY <1>1, <1>2, <1>4, MediaState, PicksMove
<1> QED BY <1>1, <1>2, <1>3, <1>5, ActCounts, MediaState, OtherKeeps

LEMMA UploadKeeps == ASSUME MediaInv, Upload PROVE MediaInv'
<1> DEFINE job == [op |-> "upload", left |-> {Files}, done |-> {}]
<1>1. /\ Act /\ jobs' = Append(jobs, job) /\ panel' = NoPanel
      /\ UNCHANGED <<stock, picker, usable, grid, lookups, outrun, saves, edited>>
      /\ UNCHANGED <<fitting, listings, loadError, loading, masked>>
      /\ UNCHANGED <<narrowed, searching, frame, picks, asking, handed>>
  BY Zenon DEF Upload, Same, Unlisted, Redrawn
<1>2. UNCHANGED <<fits, lastPer, measured, selecting, selected, chosen, pressed>>
  BY <1>1, Zenon DEF fitting, picks
<1>3. job \in Job
  <2>1. {Files} \subseteq File BY MediaSizes DEF File
  <2> QED BY <2>1 DEF Job
<1>4. job.op = "upload" OBVIOUS
<1> HIDE DEF job
<1>5. /\ jobs' \in Seq(Job)
      /\ \A k \in DOMAIN jobs' : jobs'[k] = job \/ \E e \in DOMAIN jobs : jobs'[k] = jobs[e]
  BY <1>1, <1>3, JobsGrow
<1>6. picker => asking'.op = "none" /\ \A k \in DOMAIN jobs' : jobs'[k].op # "delete all"
  BY <1>1, <1>4, <1>5, DialogKeepsAll
<1>7. SavesAgree' BY <1>1, MediaState DEF PicksKept, SavesAgree
<1>8. PicksKept' BY <1>1, <1>2, <1>6, <1>7, MediaState, PicksMove
<1>9. panel' \in Panel BY <1>1, NoPanelIs
<1> QED BY <1>1, <1>2, <1>5, <1>8, <1>9, ActCounts, MediaState, OtherKeeps

LEMMA RowIs ==
    ASSUME NEW r \in Row
    PROVE  /\ r.name \in {0, 1} /\ r.fields \subseteq Field /\ r.there \in BOOLEAN
           /\ \A b \in BOOLEAN : [r EXCEPT !.there = b] \in Row
                 /\ [r EXCEPT !.there = b].name = r.name /\ [r EXCEPT !.there = b].fields = r.fields
           /\ [r EXCEPT !.name = 1] \in Row /\ [r EXCEPT !.name = 1].name = 1
           /\ [r EXCEPT !.name = 1].fields = r.fields
           /\ \A s \in SUBSET Field : [r EXCEPT !.fields = s] \in Row
                 /\ [r EXCEPT !.fields = s].name = r.name /\ [r EXCEPT !.fields = s].fields = s
<1>1. r.there \in BOOLEAN BY Zenon DEF Row
<1>2. r.name \in {0, 1} /\ r.fields \subseteq Field BY DEF Row
<1>3. ASSUME NEW b \in BOOLEAN
      PROVE  /\ [r EXCEPT !.there = b] \in Row
             /\ [r EXCEPT !.there = b].name = r.name /\ [r EXCEPT !.there = b].fields = r.fields
  BY DEF Row
<1>4. /\ [r EXCEPT !.name = 1] \in Row /\ [r EXCEPT !.name = 1].name = 1
      /\ [r EXCEPT !.name = 1].fields = r.fields
  BY DEF Row
<1>5. ASSUME NEW s \in SUBSET Field
      PROVE  /\ [r EXCEPT !.fields = s] \in Row
             /\ [r EXCEPT !.fields = s].name = r.name /\ [r EXCEPT !.fields = s].fields = s
  BY DEF Row
<1> QED BY <1>1, <1>2, <1>3, <1>4, <1>5

LEMMA StepJobKeeps ==
    ASSUME MediaInv, NEW k, NEW served \in BOOLEAN, NEW told \in BOOLEAN, StepJob(k, served, told)
    PROVE  MediaInv'
<1> DEFINE i == CHOOSE i \in jobs[k].left : TRUE
           op == jobs[k].op
           works == served /\ (op = "upload" \/ stock[i].there)
           upload == op = "upload"
<1>1. /\ k \in DOMAIN jobs /\ jobs[k].left # {}
      /\ (told /\ uses' = uses) \/ (uses < MaxUses /\ uses' = uses + 1)
      /\ stock' = (IF ~works THEN stock
                   ELSE IF op = "rename" THEN [stock EXCEPT ![i].name = 1]
                   ELSE [stock EXCEPT ![i].there = upload])
      /\ jobs' = [jobs EXCEPT ![k].left = @ \ {i},
                              ![k].done = IF works /\ told THEN @ \cup {i} ELSE @]
      /\ UNCHANGED <<picker, usable, narrowed, searching, fitting, listings, grid, loadError,
                     loading, frame, picks, asking, panel, lookups, outrun, masked, handed, saves,
                     edited>>
  BY Zenon DEF StepJob
<1>2. UNCHANGED <<fits, lastPer, measured, selecting, selected, chosen, pressed>>
  BY <1>1, Zenon DEF fitting, picks
<1>3. uses' \in 0..MaxUses
  <2>1. MediaShapes BY MediaInvIs
  <2> QED BY <1>1, <2>1, MediaCounts
<1>4. jobs[k] \in Job /\ DOMAIN jobs = 1..Len(jobs)
  <2>1. jobs \in Seq(Job) BY MediaState
  <2>2. DOMAIN jobs = 1..Len(jobs) BY <2>1, LenProperties
  <2> QED BY <2>1, <2>2, <1>1, ElementOfSeq
<1>5. i \in File
  <2>1. i \in jobs[k].left BY <1>1, Zenon
  <2>2. jobs[k].left \subseteq File BY <1>4 DEF Job
  <2> HIDE DEF i
  <2> QED BY <2>1, <2>2
<1>6. upload \in BOOLEAN BY Zenon
<1> HIDE DEF i, upload, works, op
<1>7. stock \in [File -> Row] BY MediaState
<1>8. /\ stock' \in [File -> Row]
      /\ \A j \in File : (stock[j].name = 1 => stock'[j].name = 1)
                         /\ stock'[j].fields = stock[j].fields
  <2>0. stock[i] \in Row BY <1>5, <1>7
  <2>1. CASE ~works
    <3>1. stock' = stock BY <1>1, <2>1, Zenon
    <3> QED BY <3>1, <1>7
  <2>2. CASE works /\ op # "rename"
    <3>1. stock' = [stock EXCEPT ![i].there = upload] BY <1>1, <2>2, Zenon
    <3>2. stock' = [stock EXCEPT ![i] = [stock[i] EXCEPT !.there = upload]] BY <3>1, Zenon
    <3> DEFINE r == [stock[i] EXCEPT !.there = upload]
    <3>4. r \in Row /\ r.name = stock[i].name /\ r.fields = stock[i].fields
      BY <2>0, <1>6, RowIs, Zenon
    <3> HIDE DEF r
    <3>5. stock' = [stock EXCEPT ![i] = r] BY <3>2 DEF r
    <3> QED BY <3>4, <3>5, <1>5, <1>7
  <2>3. CASE works /\ op = "rename"
    <3>1. stock' = [stock EXCEPT ![i].name = 1] BY <1>1, <2>3, Zenon
    <3> DEFINE r == [stock[i] EXCEPT !.name = 1]
    <3>2. r \in Row /\ r.name = 1 /\ r.fields = stock[i].fields BY <2>0, RowIs, Zenon
    <3>3. stock' = [stock EXCEPT ![i] = r] BY <3>1, Zenon
    <3> HIDE DEF r
    <3> QED BY <3>2, <3>3, <1>5, <1>7
  <2> QED BY <2>1, <2>2, <2>3
<1>9. jobs' \in Seq(Job) /\ \A e \in DOMAIN jobs' : e \in DOMAIN jobs /\ jobs'[e].op = jobs[e].op
  <2> DEFINE d == IF works /\ told THEN jobs[k].done \cup {i} ELSE jobs[k].done
             new == [jobs[k] EXCEPT !.left = @ \ {i}, !.done = d]
  <2>1. jobs[k].done \subseteq File /\ jobs[k].left \subseteq File BY <1>4 DEF Job
  <2>2. d \subseteq File BY <2>1, <1>5
  <2>3. jobs' = [jobs EXCEPT ![k] = new] BY <1>1, Zenon
  <2> HIDE DEF d
  <2>4. new \in Job /\ new.op = jobs[k].op BY <1>4, <2>1, <2>2 DEF Job
  <2> HIDE DEF new
  <2>5. jobs \in Seq(Job) BY MediaState
  <2>6. jobs' \in Seq(Job) /\ DOMAIN jobs' = DOMAIN jobs
    <3>1. jobs \in [1..Len(jobs) -> Job] /\ Len(jobs) \in Nat BY <2>5, LenProperties
    <3>2. jobs' \in [1..Len(jobs) -> Job] BY <2>3, <2>4, <3>1
    <3> QED BY <3>1, <3>2, <2>3
  <2> QED BY <2>3, <2>4, <2>6, <1>4
<1>10. SavesAgree'
  BY <1>1, <1>8, MediaState DEF PicksKept, SavesAgree
<1>11. picker => asking'.op = "none" /\ \A e \in DOMAIN jobs' : jobs'[e].op # "delete all"
  BY <1>1, <1>9, DialogKeepsAll
<1>12. PicksKept' BY <1>1, <1>2, <1>8, <1>10, <1>11, MediaState, PicksMove
<1> QED BY <1>1, <1>2, <1>3, <1>8, <1>9, <1>12, MediaState, OtherKeeps

LEMMA RenameKeeps == ASSUME MediaInv, NEW i \in File, Rename(i) PROVE MediaInv'
<1> DEFINE job == [op |-> "rename", left |-> {i}, done |-> {}]
<1>1. /\ Act /\ ~picker /\ jobs' = Append(jobs, job)
      /\ UNCHANGED <<stock, picker, usable, grid, lookups, outrun, saves, edited>>
      /\ UNCHANGED <<fitting, listings, loadError, loading, masked>>
      /\ UNCHANGED <<narrowed, searching, frame, picks, asking, panel, handed>>
  BY Zenon DEF Rename, Same, Unlisted
<1>2. UNCHANGED <<fits, lastPer, measured, selecting, selected, chosen, pressed>>
  BY <1>1, Zenon DEF fitting, picks
<1>3. job \in Job BY DEF Job
<1> HIDE DEF job
<1>4. jobs' \in Seq(Job) BY <1>1, <1>3, JobsGrow
<1>5. SavesAgree' BY <1>1, MediaState DEF PicksKept, SavesAgree
<1>6. PicksKept' BY <1>1, <1>2, <1>5, MediaState, PicksMove
<1> QED BY <1>1, <1>2, <1>4, <1>6, ActCounts, MediaState, OtherKeeps

LEMMA ConfirmKeeps == ASSUME MediaInv, NEW yes \in BOOLEAN, Confirm(yes) PROVE MediaInv'
<1> DEFINE job == [op |-> asking.op, left |-> asking.ids, done |-> {}]
<1>1. /\ asking.op # "none" /\ asking' = [op |-> "none", ids |-> {}]
      /\ jobs' = (IF yes THEN Append(jobs, job) ELSE jobs)
      /\ UNCHANGED <<stock, picker, usable, grid, lookups, outrun, saves, edited>>
      /\ UNCHANGED <<fitting, listings, loadError, loading, masked>>
      /\ UNCHANGED <<narrowed, searching, frame, picks, panel, uses, handed>>
  BY Zenon DEF Confirm, Same, Unlisted
<1>2. UNCHANGED <<fits, lastPer, measured, selecting, selected, chosen, pressed>>
  BY <1>1, Zenon DEF fitting, picks
<1>3. ~picker BY <1>1, DialogKeepsAll
<1>4. asking' \in Asking BY <1>1 DEF Asking
<1>5. asking \in Asking /\ jobs \in Seq(Job) BY MediaState
<1>6. job \in Job
  <2>1. asking.op \in {"delete", "delete all"} /\ asking.ids \subseteq File
    BY <1>1, <1>5 DEF Asking
  <2> QED BY <2>1 DEF Job
<1> HIDE DEF job
<1>7. jobs' \in Seq(Job) BY <1>1, <1>5, <1>6, JobsGrow
<1>8. SavesAgree' BY <1>1, MediaState DEF PicksKept, SavesAgree
<1>9. PicksKept' BY <1>1, <1>2, <1>3, <1>8, MediaState, PicksMove
<1> QED BY <1>1, <1>2, <1>4, <1>7, <1>9, MediaState, OtherKeeps

LEMMA LongPressKeeps == ASSUME MediaInv, NEW i \in File, LongPress(i) PROVE MediaInv'
<1>1. /\ Act /\ ~picker /\ selecting' = TRUE /\ selected' = {i} /\ pressed' = {i}
      /\ panel' = NoPanel
      /\ UNCHANGED <<stock, picker, usable, grid, lookups, outrun, saves, edited>>
      /\ UNCHANGED <<fitting, listings, loadError, loading, masked>>
      /\ UNCHANGED <<narrowed, searching, frame, chosen, asking, jobs, handed>>
  BY Zenon DEF LongPress, Same, Unlisted, Redrawn
<1>2. UNCHANGED <<fits, lastPer, measured>> BY <1>1, Zenon DEF fitting
<1>3. panel' \in Panel /\ selecting' \in BOOLEAN BY <1>1, NoPanelIs
<1>4. PicksKept'
  <2>1. PicksKept BY MediaState
  <2>2. Renamed' BY <1>1, <2>1 DEF PicksKept, Renamed
  <2>3. Picking' BY <1>1 DEF Picking
  <2>4. PostHasSelected' BY <1>1, <2>1 DEF PicksKept, PostHasSelected
  <2>5. PickerHolds' BY <1>1 DEF PickerHolds
  <2>6. SavesAgree' BY <1>1, <2>1 DEF PicksKept, SavesAgree
  <2> QED BY <2>2, <2>3, <2>4, <2>5, <2>6 DEF PicksKept
<1>5. selected' \subseteq File /\ pressed' \subseteq File BY <1>1
<1> QED BY <1>1, <1>2, <1>3, <1>4, <1>5, ActCounts, MediaState, OtherKeeps

LEMMA CancelKeeps == ASSUME MediaInv, Cancel PROVE MediaInv'
<1>1. /\ Act /\ selecting /\ selecting' = FALSE /\ selected' = {} /\ pressed' = {}
      /\ panel' = NoPanel
      /\ UNCHANGED <<stock, picker, usable, grid, lookups, outrun, saves, edited>>
      /\ UNCHANGED <<fitting, listings, loadError, loading, masked>>
      /\ UNCHANGED <<narrowed, searching, frame, chosen, asking, jobs, handed>>
  BY Zenon DEF Cancel, Same, Unlisted, Redrawn
<1>2. UNCHANGED <<fits, lastPer, measured>> BY <1>1, Zenon DEF fitting
<1>3. panel' \in Panel /\ selecting' \in BOOLEAN BY <1>1, NoPanelIs
<1>4. PicksKept'
  <2>1. PicksKept /\ ~picker BY <1>1, MediaState, DialogKeepsAll
  <2>2. Renamed' BY <1>1, <2>1 DEF PicksKept, Renamed
  <2>3. Picking' BY <1>1, <2>1 DEF Picking
  <2>4. PostHasSelected' BY <1>1, <2>1 DEF PicksKept, PostHasSelected
  <2>5. PickerHolds' BY <1>1, <2>1 DEF PickerHolds
  <2>6. SavesAgree' BY <1>1, <2>1 DEF PicksKept, SavesAgree
  <2> QED BY <2>2, <2>3, <2>4, <2>5, <2>6 DEF PicksKept
<1>5. selected' \subseteq File /\ pressed' \subseteq File BY <1>1
<1> QED BY <1>1, <1>2, <1>3, <1>4, <1>5, ActCounts, MediaState, OtherKeeps

LEMMA ToggleKeeps == ASSUME MediaInv, NEW i \in File, Toggle(i) PROVE MediaInv'
<1>1. /\ Act /\ i \in OnScreen /\ pressed' = pressed \ {i} /\ panel' = NoPanel
      /\ selected' = (IF i \in selected THEN selected \ {i} ELSE selected \cup {i})
      /\ chosen' = [chosen EXCEPT ![i] = IF i \in selected THEN Absent ELSE grid.items[i]]
      /\ UNCHANGED <<stock, picker, usable, grid, lookups, outrun, saves, edited>>
      /\ UNCHANGED <<fitting, listings, loadError, loading, masked>>
      /\ UNCHANGED <<narrowed, searching, frame, selecting, asking, jobs, handed>>
  BY Zenon DEF Toggle, Toggled, Same, Unlisted, Redrawn
<1>2. UNCHANGED <<fits, lastPer, measured>> BY <1>1, Zenon DEF fitting
<1>3. panel' \in Panel BY <1>1, NoPanelIs
<1>4. /\ chosen \in [File -> Item] /\ grid.items \in [File -> Item] /\ PicksKept
      /\ selected \subseteq File /\ pressed \subseteq File
  BY MediaState
<1>5. grid.items[i] # Absent /\ grid.items[i] \in Item
  <2>1. i \in Shown BY <1>1, Zenon DEF OnScreen
  <2> QED BY <2>1, <1>4 DEF Shown
<1>6. PICK it \in Item : it = IF i \in selected THEN Absent ELSE grid.items[i]
  BY <1>5, ItemsAre
<1>7. chosen' = [chosen EXCEPT ![i] = it] BY <1>1, <1>6, Zenon
<1>8. /\ chosen' \in [File -> Item] /\ chosen'[i] = it
      /\ \A j \in File : j # i => chosen'[j] = chosen[j]
  BY <1>4, <1>7
<1>9. i \in selected' <=> it # Absent BY <1>1, <1>5, <1>6
<1>10. \A j \in File : j # i => (j \in selected' <=> j \in selected) BY <1>1
<1>11. selected' \subseteq File /\ pressed' \subseteq File BY <1>1, <1>4
<1>12. PicksKept'
  <2>1. Renamed'
    <3>1. it.name = 1 => grid.items[i].name = 1 BY <1>6, ItemsAre
    <3>2. ASSUME NEW j \in File, chosen'[j].name = 1
          PROVE  stock[j].name = 1
      <4>1. CASE j = i BY <4>1, <3>1, <3>2, <1>4, <1>8 DEF PicksKept, Renamed
      <4>2. CASE j # i BY <4>2, <3>2, <1>4, <1>8 DEF PicksKept, Renamed
      <4> QED BY <4>1, <4>2
    <3> QED BY <1>1, <1>4, <3>2 DEF PicksKept, Renamed
  <2>2. usable => \A j \in selected' : chosen'[j] # Absent \/ j \in pressed'
    <3> SUFFICES ASSUME usable, NEW j \in selected'
                 PROVE  chosen'[j] # Absent \/ j \in pressed'
      OBVIOUS
    <3>1. CASE j = i BY <3>1, <1>8, <1>9
    <3>2. CASE j # i
      <4>1. j \in File /\ j \in selected BY <3>2, <1>10, <1>11
      <4>2. chosen[j] # Absent \/ j \in pressed BY <4>1, <1>4 DEF PicksKept, Picking
      <4> QED BY <4>1, <4>2, <3>2, <1>1, <1>8
    <3> QED BY <3>1, <3>2
  <2>3. Picking'
    <3>1. picker => /\ ~selecting /\ asking.op = "none"
                    /\ \A k \in DOMAIN jobs : jobs[k].op # "delete all"
      BY DialogKeepsAll
    <3> QED BY <1>1, <2>2, <3>1, Zenon DEF Picking
  <2>4. PostHasSelected' BY <1>1, <1>4 DEF PicksKept, PostHasSelected
  <2>5. PickerHolds'
    <3> SUFFICES ASSUME picker, usable
                 PROVE  selected' = {j \in File : chosen'[j] # Absent}
      BY <1>1, Zenon DEF PickerHolds
    <3>1. selected = {j \in File : chosen[j] # Absent} BY <1>4 DEF PicksKept, PickerHolds
    <3>2. \A j \in File : j \in selected' <=> chosen'[j] # Absent BY <3>1, <1>8, <1>9, <1>10
    <3> QED BY <3>2, <1>11
  <2>6. SavesAgree' BY <1>1, <1>4 DEF PicksKept, SavesAgree
  <2> QED BY <2>1, <2>3, <2>4, <2>5, <2>6 DEF PicksKept
<1> QED BY <1>1, <1>2, <1>3, <1>8, <1>11, <1>12, ActCounts, MediaState, OtherKeeps

LEMMA CreateKeeps == ASSUME MediaInv, CreatePost PROVE MediaInv'
<1> DEFINE given == {i \in (IF picker THEN File ELSE selected) : chosen[i] # Absent}
           stale == {i \in given : chosen[i].name # stock[i].name}
<1>1. /\ Act
      /\ handed' = [of |-> selected, given |-> given, pressed |-> pressed, stale |-> stale]
      /\ usable' = FALSE /\ selecting' = FALSE /\ selected' = {} /\ pressed' = {}
      /\ panel' = NoPanel
      /\ UNCHANGED <<stock, picker, narrowed, searching, fitting, listings, grid, loadError,
                     loading, frame, chosen, asking, jobs, lookups, outrun, masked, saves, edited>>
  BY Zenon DEF CreatePost
<1>2. UNCHANGED <<fits, lastPer, measured>> BY <1>1, Zenon DEF fitting
<1>3. panel' \in Panel /\ selecting' \in BOOLEAN BY <1>1, NoPanelIs
<1>4. /\ chosen \in [File -> Item] /\ stock \in [File -> Row] /\ PicksKept
      /\ selected \subseteq File /\ pressed \subseteq File
  BY MediaState
<1>5. given \subseteq File /\ stale \subseteq File BY <1>4
<1>6. /\ handed' \in [of : SUBSET File, given : SUBSET File, stale : SUBSET File,
                      pressed : SUBSET File]
      /\ handed'.of = selected /\ handed'.given = given /\ handed'.stale = stale
      /\ handed'.pressed = pressed
  BY <1>1, <1>4, <1>5
<1>7. usable BY <1>1, ActCounts
<1>8. selected \ given \subseteq pressed
  <2> SUFFICES ASSUME NEW i \in selected, i \notin given PROVE i \in pressed OBVIOUS
  <2>1. chosen[i] = Absent BY <1>4
  <2> QED BY <2>1, <1>4, <1>7 DEF PicksKept, Picking
<1>9. \A i \in stale : stock[i].name = 1
  <2> SUFFICES ASSUME NEW i \in stale PROVE stock[i].name = 1 OBVIOUS
  <2>1. i \in File /\ chosen[i] # Absent /\ chosen[i].name # stock[i].name BY <1>5
  <2>2. chosen[i] \in Item /\ stock[i] \in Row BY <2>1, <1>4
  <2>3. chosen[i].name \in {0, 1} BY <2>1, <2>2, ItemsAre
  <2>4. stock[i].name \in {0, 1} BY <2>2, RowIs
  <2>5. chosen[i].name = 1 => stock[i].name = 1 BY <2>1, <1>4 DEF PicksKept, Renamed
  <2> QED BY <2>1, <2>3, <2>4, <2>5
<1> HIDE DEF given, stale
<1>10. PicksKept'
  <2>1. Renamed' BY <1>1, <1>4, <1>5, <1>6 DEF PicksKept, Renamed
  <2>2. Picking'
    <3>1. picker => /\ ~selecting /\ asking.op = "none"
                    /\ \A k \in DOMAIN jobs : jobs[k].op # "delete all"
      BY DialogKeepsAll
    <3> QED BY <1>1, <3>1, Zenon DEF Picking
  <2>3. PostHasSelected' BY <1>1, <1>6, <1>8, <1>9 DEF PostHasSelected
  <2>4. PickerHolds' BY <1>1, Zenon DEF PickerHolds
  <2>5. SavesAgree' BY <1>1, <1>4 DEF PicksKept, SavesAgree
  <2> QED BY <2>1, <2>2, <2>3, <2>4, <2>5 DEF PicksKept
<1>11. selected' \subseteq File /\ pressed' \subseteq File BY <1>1
<1> QED BY <1>1, <1>2, <1>3, <1>6, <1>10, <1>11, ActCounts, MediaState, OtherKeeps

(* What a job that ends leaves of the jobs and of what is picked.          *)
LEMMA EndedIs ==
    ASSUME MediaInv, NEW k, EndJob(k)
    PROVE  /\ jobs' \in Seq(Job) /\ chosen' \in [File -> Item]
           /\ selected' \subseteq File /\ pressed' \subseteq File /\ selecting' \in BOOLEAN
           /\ PicksKept'
<1>1. /\ k \in DOMAIN jobs
      /\ UNCHANGED <<stock, picker, usable, narrowed, searching, fits, grid, frame, asking, lookups,
                     uses, outrun, handed, saves, edited>>
      /\ jobs' = (IF jobs[k].op = "upload" THEN [jobs EXCEPT ![k].op = "uploaded"]
                  ELSE RemoveAt(jobs, k))
  BY Zenon DEF EndJob
<1>2. PicksKept /\ jobs \in Seq(Job) /\ selected \subseteq File /\ pressed \subseteq File
      /\ selecting \in BOOLEAN /\ chosen \in [File -> Item]
  BY MediaState
<1>3. jobs[k] \in Job /\ DOMAIN jobs = 1..Len(jobs)
  <2>1. DOMAIN jobs = 1..Len(jobs) BY <1>2, LenProperties
  <2> QED BY <1>1, <1>2, <2>1, ElementOfSeq
<1>4. SavesAgree' BY <1>1, <1>2 DEF PicksKept, SavesAgree
<1>5. CASE jobs[k].op = "delete all"
  <2>1. /\ chosen' = [i \in File |-> Absent]
        /\ \/ usable /\ selecting' = FALSE /\ selected' = {} /\ pressed' = {}
           \/ ~usable /\ UNCHANGED <<selecting, selected, pressed>>
        /\ jobs' = RemoveAt(jobs, k)
    BY <1>5, Zenon DEF EndJob
  <2>2. ~picker BY <1>1, <1>5, DialogKeepsAll
  <2>3. jobs' \in Seq(Job) BY <1>1, <2>1, JobsShrink
  <2>4. chosen' \in [File -> Item] /\ \A i \in File : chosen'[i].name = 2 BY <2>1, ItemsAre
  <2>5. selected' \subseteq File /\ pressed' \subseteq File /\ selecting' \in BOOLEAN
    <3>1. FALSE \in BOOLEAN /\ {} \subseteq File BY Zenon
    <3> QED BY <1>2, <2>1, <3>1, Zenon
  <2>6. PicksKept'
    <3>1. Renamed' BY <1>1, <1>2, <2>4 DEF PicksKept, Renamed
    <3>2. Picking'
      <4>1. usable => selected' = {} BY <2>1, Zenon
      <4> QED BY <1>1, <2>2, <4>1, Zenon DEF Picking
    <3>3. PostHasSelected' BY <1>1, <1>2 DEF PicksKept, PostHasSelected
    <3>4. PickerHolds' BY <1>1, <2>2, Zenon DEF PickerHolds
    <3> QED BY <1>4, <3>1, <3>2, <3>3, <3>4 DEF PicksKept
  <2> QED BY <2>3, <2>4, <2>5, <2>6
<1>6. CASE jobs[k].op # "delete all"
  <2>1. UNCHANGED <<selecting, selected, chosen, pressed>> BY <1>6, Zenon DEF EndJob, picks
  <2>2. jobs' \in Seq(Job)
        /\ (picker => \A e \in DOMAIN jobs' : jobs'[e].op # "delete all")
    <3>0. picker => \A e \in DOMAIN jobs : jobs[e].op # "delete all" BY DialogKeepsAll
    <3>1. CASE jobs[k].op = "upload"
      <4> DEFINE new == [jobs[k] EXCEPT !.op = "uploaded"]
      <4>1. jobs' = [jobs EXCEPT ![k] = new] BY <1>1, <3>1, Zenon
      <4>2. new \in Job /\ new.op = "uploaded" BY <1>3 DEF Job
      <4> HIDE DEF new
      <4>3. jobs \in [1..Len(jobs) -> Job] /\ Len(jobs) \in Nat BY <1>2, LenProperties
      <4>4. jobs' \in [1..Len(jobs) -> Job] BY <4>1, <4>2, <4>3
      <4>5. jobs' \in Seq(Job) /\ DOMAIN jobs' = DOMAIN jobs BY <4>1, <4>3, <4>4
      <4> QED BY <3>0, <4>1, <4>2, <4>5
    <3>2. CASE jobs[k].op # "upload"
      <4>1. jobs' = RemoveAt(jobs, k) BY <1>1, <3>2, Zenon
      <4>2. RemoveAt(jobs, k) \in Seq(Job) /\ JobsAmong(RemoveAt(jobs, k)) BY <1>1, JobsShrink
      <4>3. JobsAmong(jobs') BY <4>1, <4>2, Zenon
      <4> QED BY <3>0, <4>1, <4>2, <4>3 DEF JobsAmong
    <3> QED BY <3>1, <3>2
  <2>3. picker => asking'.op = "none" BY <1>1, DialogKeepsAll
  <2>4. PicksKept' BY <1>1, <1>2, <1>4, <2>1, <2>2, <2>3, PicksMove
  <2> QED BY <1>2, <2>1, <2>2, <2>4
<1> QED BY <1>5, <1>6

LEMMA EndJobKeeps == ASSUME MediaInv, NEW k, EndJob(k) PROVE MediaInv'
<1>1. UNCHANGED <<stock, picker, usable, narrowed, searching, fits, grid, frame, asking, lookups,
                  uses, outrun, handed, saves, edited>>
  BY Zenon DEF EndJob
<1>2. /\ jobs' \in Seq(Job) /\ chosen' \in [File -> Item]
      /\ selected' \subseteq File /\ pressed' \subseteq File /\ selecting' \in BOOLEAN
      /\ PicksKept'
  BY EndedIs
<1>3. CASE UNCHANGED <<lastPer, measured, listings, loadError, loading, masked, panel>>
  BY <1>1, <1>2, <1>3, MediaState, OtherKeeps
<1>4. CASE Load(1, FALSE, narrowed, measured) /\ UNCHANGED measured /\ panel' = NoPanel
  BY <1>1, <1>2, <1>4, FirstPage, MediaState, LoadKeeps
<1>5. \/ UNCHANGED <<lastPer, measured, listings, loadError, loading, masked, panel>>
      \/ Load(1, FALSE, narrowed, measured) /\ UNCHANGED measured /\ panel' = NoPanel
  BY Zenon DEF EndJob, Loaded, Redrawn
<1> QED BY <1>3, <1>4, <1>5, Zenon

LEMMA SelectUploadedKeeps == ASSUME MediaInv, NEW k, SelectUploaded(k) PROVE MediaInv'
<1> DEFINE new == IF picker THEN jobs[k].done ELSE {}
           asUploaded == [name |-> 0, fields |-> {}]
<1>1. /\ k \in DOMAIN jobs /\ jobs' = RemoveAt(jobs, k) /\ panel' = NoPanel
      /\ chosen' = [i \in File |-> IF i \in new THEN asUploaded ELSE chosen[i]]
      /\ selected' = (IF usable THEN selected \cup new ELSE selected)
      /\ UNCHANGED <<stock, picker, usable, grid, lookups, outrun, saves, edited>>
      /\ UNCHANGED <<fitting, listings, loadError, loading, masked>>
      /\ UNCHANGED <<narrowed, searching, frame, selecting, pressed, asking, uses, handed>>
  BY Zenon DEF SelectUploaded, Same, Unlisted, Redrawn
<1>2. UNCHANGED <<fits, lastPer, measured>> BY <1>1, Zenon DEF fitting
<1>3. panel' \in Panel BY <1>1, NoPanelIs
<1>4. PicksKept /\ jobs \in Seq(Job) /\ selected \subseteq File /\ chosen \in [File -> Item]
  BY MediaState
<1>5. new \subseteq File
  <2>1. DOMAIN jobs = 1..Len(jobs) BY <1>4, LenProperties
  <2>2. jobs[k] \in Job BY <1>1, <1>4, <2>1, ElementOfSeq
  <2> QED BY <2>2 DEF Job
<1>6. asUploaded \in Item /\ asUploaded # Absent /\ asUploaded.name = 0
  <2>1. asUploaded.name = 0 OBVIOUS
  <2>2. asUploaded \in Item BY DEF Item, Known
  <2> QED BY <2>1, <2>2, ItemsAre
<1> HIDE DEF new, asUploaded
<1>7. chosen' \in [File -> Item] /\ selected' \subseteq File BY <1>1, <1>4, <1>5, <1>6
<1>8. \A i \in File : chosen'[i] = IF i \in new THEN asUploaded ELSE chosen[i] BY <1>1
<1>9. jobs' \in Seq(Job) /\ JobsAmong(jobs')
  <2>1. RemoveAt(jobs, k) \in Seq(Job) /\ JobsAmong(RemoveAt(jobs, k)) BY <1>1, JobsShrink
  <2> QED BY <1>1, <2>1 DEF JobsAmong
<1>10. PicksKept'
  <2>1. Renamed' BY <1>1, <1>4, <1>6, <1>8 DEF PicksKept, Renamed
  <2>2. usable => \A i \in selected' : chosen'[i] # Absent \/ i \in pressed'
    <3> SUFFICES ASSUME usable, NEW i \in selected' PROVE chosen'[i] # Absent \/ i \in pressed'
      OBVIOUS
    <3>1. i \in File BY <1>7
    <3>2. CASE i \in new BY <3>1, <3>2, <1>6, <1>8
    <3>3. CASE i \notin new
      <4>1. i \in selected BY <3>3, <1>1
      <4>2. chosen[i] # Absent \/ i \in pressed BY <4>1, <1>4 DEF PicksKept, Picking
      <4> QED BY <3>1, <3>3, <4>2, <1>1, <1>8
    <3> QED BY <3>2, <3>3
  <2>3. Picking'
    <3>1. picker => /\ ~selecting /\ asking.op = "none"
                    /\ \A e \in DOMAIN jobs : jobs[e].op # "delete all"
      BY DialogKeepsAll
    <3>2. picker => \A e \in DOMAIN jobs' : jobs'[e].op # "delete all"
      BY <3>1, <1>9 DEF JobsAmong
    <3> QED BY <1>1, <2>2, <3>1, <3>2, Zenon DEF Picking
  <2>4. PostHasSelected' BY <1>1, <1>4 DEF PicksKept, PostHasSelected
  <2>5. PickerHolds'
    <3> SUFFICES ASSUME picker, usable
                 PROVE  selected' = {i \in File : chosen'[i] # Absent}
      BY <1>1, Zenon DEF PickerHolds
    <3>1. selected = {i \in File : chosen[i] # Absent} BY <1>4 DEF PicksKept, PickerHolds
    <3>2. selected' = selected \cup new BY <1>1
    <3>3. ASSUME NEW i \in File PROVE i \in selected' <=> chosen'[i] # Absent
      <4>1. i \in selected <=> chosen[i] # Absent BY <3>1
      <4>2. CASE i \in new BY <4>2, <1>6, <1>8, <3>2
      <4>3. CASE i \notin new BY <4>1, <4>3, <1>8, <3>2
      <4> QED BY <4>2, <4>3
    <3> QED BY <3>3, <1>7
  <2>6. SavesAgree' BY <1>1, <1>4 DEF PicksKept, SavesAgree
  <2> QED BY <2>1, <2>3, <2>4, <2>5, <2>6 DEF PicksKept
<1> QED BY <1>1, <1>2, <1>3, <1>7, <1>9, <1>10, MediaState, OtherKeeps

(* Sequences of saves, as they grow and shrink.                            *)
LEMMA SavesGrow ==
    ASSUME MediaInv, NEW w \in Save
    PROVE  /\ Append(saves, w) \in Seq(Save)
           /\ DOMAIN saves = 1..Len(saves) /\ Len(saves) \in Nat
           /\ DOMAIN Append(saves, w) = 1..(Len(saves) + 1)
           /\ Append(saves, w)[Len(saves) + 1] = w
           /\ \A s \in DOMAIN saves : Append(saves, w)[s] = saves[s]
<1>1. saves \in Seq(Save) BY MediaState
<1>2. Len(saves) \in Nat /\ DOMAIN saves = 1..Len(saves) BY <1>1, LenProperties
<1>3. /\ Append(saves, w) \in Seq(Save) /\ Len(Append(saves, w)) = Len(saves) + 1
      /\ \A s \in 1..Len(saves) : Append(saves, w)[s] = saves[s]
      /\ Append(saves, w)[Len(saves) + 1] = w
  BY <1>1, AppendProperties
<1>4. DOMAIN Append(saves, w) = 1..(Len(saves) + 1) BY <1>3, LenProperties
<1> QED BY <1>2, <1>3, <1>4

LEMMA SavesShrink ==
    ASSUME MediaInv, NEW s \in DOMAIN saves
    PROVE  /\ saves[s] \in Save /\ RemoveAt(saves, s) \in Seq(Save)
           /\ \A d \in DOMAIN RemoveAt(saves, s) :
                 /\ Before(s, d) \in DOMAIN saves /\ Before(s, d) # s
                 /\ RemoveAt(saves, s)[d] = saves[Before(s, d)]
           /\ \A c, d \in DOMAIN RemoveAt(saves, s) : Before(s, c) = Before(s, d) => c = d
<1> DEFINE n == Len(saves)
           new == RemoveAt(saves, s)
<1>1. saves \in Seq(Save) BY MediaState
<1>2. n \in Nat /\ DOMAIN saves = 1..n BY <1>1, LenProperties
<1>3. s \in 1..Len(saves) BY <1>2
<1>4. new \in Seq(Save) /\ Len(new) = n - 1 /\ \A d \in 1..(n - 1) : new[d] = saves[Before(s, d)]
  BY <1>1, <1>3, WithoutIs
<1>5. DOMAIN new = 1..(n - 1) BY <1>4, LenProperties
<1>6. saves[s] \in Save BY <1>1, <1>3, ElementOfSeq
<1> HIDE DEF n, new
<1>7. s \in 1..n BY <1>2
<1>8. \A d \in 1..(n - 1) : Before(s, d) \in 1..n /\ Before(s, d) # s BY <1>2, <1>7 DEF Before
<1>9. \A c, d \in 1..(n - 1) : Before(s, c) = Before(s, d) => c = d BY <1>2, <1>7 DEF Before
<1> QED BY <1>2, <1>4, <1>5, <1>6, <1>8, <1>9 DEF new

LEMMA SaveKeeps ==
    ASSUME MediaInv, NEW i \in File, NEW field \in Field, SaveFields(i, field)
    PROVE  MediaInv'
<1> DEFINE rows == RowsIn(i) \cup {field}
           beside == \E s \in DOMAIN saves : saves[s].file = i
           w == [file |-> i, rows |-> rows]
           typing == panel[i] \cup {field}
<1>1. /\ Act /\ ~picker
      /\ panel' = [panel EXCEPT ![i] = typing]
      /\ saves' = Append(saves, w)
      /\ edited' = (IF beside \/ ~(edited.saved[i] \subseteq RowsIn(i))
                    THEN [edited EXCEPT !.unsure = @ \cup {i}] ELSE edited)
      /\ UNCHANGED <<fitting, listings, loadError, loading, masked>>
      /\ UNCHANGED <<stock, picker, usable, narrowed, searching, grid, frame, picks, asking, jobs,
                     lookups, outrun, handed>>
  BY Zenon DEF SaveFields, Unlisted
<1>2. UNCHANGED <<fits, lastPer, measured, selecting, selected, chosen, pressed>>
  BY <1>1, Zenon DEF fitting, picks
<1>3. /\ PicksKept /\ stock \in [File -> Row] /\ panel \in Panel
      /\ edited \in [saved : [File -> SUBSET Field], unsure : SUBSET File]
      /\ grid.items \in [File -> Item]
  BY MediaState
<1>4. panel[i] \subseteq Field /\ typing \subseteq Field BY <1>3 DEF Panel
<1>5. panel' \in Panel BY <1>1, <1>3, <1>4 DEF Panel
<1>6. rows \subseteq Field
  <2>1. grid.items[i].fields \subseteq Field BY <1>3, ItemsAre
  <2> QED BY <2>1, <1>4 DEF RowsIn
<1>7. w \in Save /\ w.file = i /\ w.rows = rows BY <1>6 DEF Save
<1>8. RowsIn(i) \subseteq rows OBVIOUS
<1> HIDE DEF rows, w, typing
<1>9. /\ saves' \in Seq(Save)
      /\ DOMAIN saves = 1..Len(saves) /\ Len(saves) \in Nat
      /\ DOMAIN saves' = 1..(Len(saves) + 1)
      /\ saves'[Len(saves) + 1] = w
      /\ \A s \in DOMAIN saves : saves'[s] = saves[s]
  BY <1>1, <1>7, SavesGrow
<1>10. /\ edited' \in [saved : [File -> SUBSET Field], unsure : SUBSET File]
       /\ edited'.saved = edited.saved /\ edited.unsure \subseteq edited'.unsure
       /\ beside \/ ~(edited.saved[i] \subseteq RowsIn(i)) => i \in edited'.unsure
  <2>1. CASE beside \/ ~(edited.saved[i] \subseteq RowsIn(i))
    <3>1. edited' = [edited EXCEPT !.unsure = @ \cup {i}] BY <1>1, <2>1, Zenon
    <3> HIDE DEF beside
    <3> QED BY <3>1, <1>3
  <2>2. CASE ~(beside \/ ~(edited.saved[i] \subseteq RowsIn(i)))
    <3>1. edited' = edited BY <1>1, <2>2, Zenon
    <3> QED BY <3>1, <2>2, <1>3, Zenon
  <2> QED BY <2>1, <2>2
<1>11. SavesAgree'
  <2> SUFFICES ASSUME NEW j \in File, j \notin edited'.unsure
               PROVE  /\ edited'.saved[j] \subseteq stock'[j].fields
                      /\ \A s \in DOMAIN saves' : saves'[s].file = j =>
                            /\ edited'.saved[j] \subseteq saves'[s].rows
                            /\ \A t \in DOMAIN saves' : saves'[t].file = j => t = s
    BY DEF SavesAgree
  <2>1. j \notin edited.unsure BY <1>10
  <2>2. /\ edited.saved[j] \subseteq stock[j].fields
        /\ \A s \in DOMAIN saves : saves[s].file = j =>
              /\ edited.saved[j] \subseteq saves[s].rows
              /\ \A t \in DOMAIN saves : saves[t].file = j => t = s
    BY <2>1, <1>3 DEF PicksKept, SavesAgree
  <2>3. \A s \in DOMAIN saves' : s \in DOMAIN saves \/ s = Len(saves) + 1 BY <1>9
  <2>4. CASE j = i
    <3>1. ~beside /\ edited.saved[i] \subseteq RowsIn(i) BY <2>4, <1>10, Zenon
    <3>2. \A s \in DOMAIN saves' : saves'[s].file = i => s = Len(saves) + 1
      BY <3>1, <2>3, <1>9
    <3>3. edited.saved[i] \subseteq w.rows BY <3>1, <1>7, <1>8
    <3> HIDE DEF beside
    <3> QED BY <2>2, <2>4, <3>2, <3>3, <1>1, <1>9, <1>10
  <2>5. CASE j # i
    <3>1. \A s \in DOMAIN saves' : saves'[s].file = j => s \in DOMAIN saves
      BY <2>3, <2>5, <1>7, <1>9
    <3> HIDE DEF beside
    <3> QED BY <2>2, <3>1, <1>1, <1>9, <1>10
  <2> QED BY <2>4, <2>5
<1>12. PicksKept' BY <1>1, <1>2, <1>3, <1>11, MediaState, PicksMove
<1> QED BY <1>1, <1>2, <1>5, <1>9, <1>10, <1>12, ActCounts, MediaState, OtherKeeps

LEMMA ServedKeeps ==
    ASSUME MediaInv, NEW s, NEW ok \in BOOLEAN, FieldsServed(s, ok)
    PROVE  MediaInv'
<1> DEFINE i == saves[s].file
           rows == saves[s].rows
           known == edited.saved[i] \cup rows
<1>1. /\ s \in DOMAIN saves /\ saves' = RemoveAt(saves, s)
      /\ (ok /\ uses' = uses) \/ (uses < MaxUses /\ uses' = uses + 1)
      /\ \/ /\ stock' = [stock EXCEPT ![i].fields = rows]
            /\ edited' = [edited EXCEPT !.saved[i] = known]
         \/ UNCHANGED <<stock, edited>>
      /\ UNCHANGED <<picker, usable, narrowed, searching, fitting, listings, grid, loadError,
                     loading, frame, picks, asking, jobs, panel, lookups, outrun, masked, handed>>
  BY Zenon DEF FieldsServed
<1>2. UNCHANGED <<fits, lastPer, measured, selecting, selected, chosen, pressed>>
  BY <1>1, Zenon DEF fitting, picks
<1>3. uses' \in 0..MaxUses
  <2>1. MediaShapes BY MediaInvIs
  <2> QED BY <1>1, <2>1, MediaCounts
<1>4. /\ PicksKept /\ stock \in [File -> Row]
      /\ edited \in [saved : [File -> SUBSET Field], unsure : SUBSET File]
  BY MediaState
<1>5. /\ saves[s] \in Save /\ saves' \in Seq(Save)
      /\ \A d \in DOMAIN saves' :
            /\ Before(s, d) \in DOMAIN saves /\ Before(s, d) # s
            /\ saves'[d] = saves[Before(s, d)]
      /\ \A c, d \in DOMAIN saves' : Before(s, c) = Before(s, d) => c = d
  BY <1>1, SavesShrink
<1>6. i \in File /\ rows \subseteq Field BY <1>5 DEF Save
<1>7. known \subseteq Field BY <1>4, <1>6
<1> HIDE DEF i, rows, known
<1>8. /\ stock' \in [File -> Row] /\ \A j \in File : stock'[j].name = stock[j].name
      /\ edited' \in [saved : [File -> SUBSET Field], unsure : SUBSET File]
      /\ edited'.unsure = edited.unsure
      /\ \A j \in File : j # i => /\ stock'[j].fields = stock[j].fields
                                  /\ edited'.saved[j] = edited.saved[j]
      /\ \/ stock'[i].fields = stock[i].fields /\ edited'.saved[i] = edited.saved[i]
         \/ stock'[i].fields = rows /\ edited'.saved[i] = known
  <2>1. CASE UNCHANGED <<stock, edited>> BY <2>1, <1>4
  <2>2. CASE /\ stock' = [stock EXCEPT ![i].fields = rows]
             /\ edited' = [edited EXCEPT !.saved[i] = known]
    <3> DEFINE r == [stock[i] EXCEPT !.fields = rows]
    <3>1. stock[i] \in Row BY <1>4, <1>6
    <3>2. r \in Row /\ r.name = stock[i].name /\ r.fields = rows BY <3>1, <1>6, RowIs, Zenon
    <3>3. stock' = [stock EXCEPT ![i] = r] BY <2>2, Zenon
    <3> HIDE DEF r
    <3>4. /\ stock' \in [File -> Row] /\ stock'[i].fields = rows
          /\ \A j \in File : stock'[j].name = stock[j].name
          /\ \A j \in File : j # i => stock'[j].fields = stock[j].fields
      BY <3>2, <3>3, <1>4, <1>6
    <3>5. /\ edited' \in [saved : [File -> SUBSET Field], unsure : SUBSET File]
          /\ edited'.unsure = edited.unsure /\ edited'.saved[i] = known
          /\ \A j \in File : j # i => edited'.saved[j] = edited.saved[j]
      BY <2>2, <1>4, <1>6, <1>7
    <3> QED BY <3>4, <3>5
  <2> QED BY <1>1, <2>1, <2>2
<1>9. SavesAgree'
  <2> SUFFICES ASSUME NEW j \in File, j \notin edited'.unsure
               PROVE  /\ edited'.saved[j] \subseteq stock'[j].fields
                      /\ \A c \in DOMAIN saves' : saves'[c].file = j =>
                            /\ edited'.saved[j] \subseteq saves'[c].rows
                            /\ \A d \in DOMAIN saves' : saves'[d].file = j => d = c
    BY DEF SavesAgree
  <2>1. /\ edited.saved[j] \subseteq stock[j].fields
        /\ \A c \in DOMAIN saves : saves[c].file = j =>
              /\ edited.saved[j] \subseteq saves[c].rows
              /\ \A d \in DOMAIN saves : saves[d].file = j => d = c
    BY <1>4, <1>8 DEF PicksKept, SavesAgree
  <2>2. CASE j = i
    <3>1. saves[s].file = j /\ saves[s].rows = rows BY <2>2 DEF i, rows
    <3>2. edited.saved[j] \subseteq rows BY <2>1, <3>1, <1>1
    <3>3. \A c \in DOMAIN saves' : saves'[c].file # j BY <2>1, <3>1, <1>1, <1>5
    <3>4. edited'.saved[j] \subseteq stock'[j].fields
      BY <2>1, <2>2, <3>2, <1>8 DEF known
    <3> QED BY <3>3, <3>4
  <2>3. CASE j # i
    <3>1. edited'.saved[j] = edited.saved[j] /\ stock'[j].fields = stock[j].fields
      BY <2>3, <1>8
    <3>2. ASSUME NEW c \in DOMAIN saves', saves'[c].file = j
          PROVE  /\ edited.saved[j] \subseteq saves'[c].rows
                 /\ \A d \in DOMAIN saves' : saves'[d].file = j => d = c
      BY <2>1, <3>2, <1>5
    <3> QED BY <2>1, <3>1, <3>2
  <2> QED BY <2>2, <2>3
<1>10. picker => asking'.op = "none" /\ \A e \in DOMAIN jobs' : jobs'[e].op # "delete all"
  BY <1>1, DialogKeepsAll
<1>11. PicksKept' BY <1>1, <1>2, <1>4, <1>8, <1>9, <1>10, MediaState, PicksMove
<1> QED BY <1>1, <1>2, <1>3, <1>5, <1>8, <1>11, MediaState, OtherKeeps

LEMMA MediaStarts == ASSUME MediaInit PROVE MediaInv
<1> DEFINE blank == [i \in File |-> Absent]
<1>1. /\ picker \in BOOLEAN /\ usable = TRUE /\ narrowed = "all" /\ searching = "none"
      /\ fits \in 1..2 /\ lastPer = 1 /\ measured = 0 /\ listings = <<First>>
      /\ grid = [items |-> blank, page |-> 1, pages |-> 0, query |-> First]
      /\ loadError = FALSE /\ loading = TRUE /\ frame = 0
      /\ selecting = FALSE /\ selected = {} /\ chosen = blank
      /\ asking = [op |-> "none", ids |-> {}]
      /\ jobs = <<>> /\ panel = NoPanel /\ saves = <<>> /\ lookups = {} /\ uses = 0
      /\ outrun = FALSE /\ masked = FALSE /\ pressed = {}
      /\ handed = [of |-> {}, given |-> {}, stale |-> {}, pressed |-> {}]
      /\ edited = [saved |-> [i \in File |-> {}], unsure |-> {}]
  BY Zenon DEF MediaInit
<1>2. stock \in [File -> [there : BOOLEAN, name : {0, 1}, fields : SUBSET Field]]
  <2>1. stock = [i \in File |-> [there |-> i < Files, name |-> 0, fields |-> {}]]
    BY Zenon DEF MediaInit
  <2>2. ASSUME NEW i \in File
        PROVE  [there |-> i < Files, name |-> 0, fields |-> {}]
                   \in [there : BOOLEAN, name : {0, 1}, fields : SUBSET Field]
    <3>1. PICK b \in BOOLEAN : b = (i < Files)
      <4>1. CASE i < Files
        <5>1. (i < Files) = TRUE BY <4>1, MediaSizes DEF File
        <5> QED BY <5>1, Zenon
      <4>2. CASE ~(i < Files)
        <5>1. (i < Files) = FALSE BY <4>2, MediaSizes DEF File
        <5> QED BY <5>1, Zenon
      <4> QED BY <4>1, <4>2
    <3>2. [there |-> b, name |-> 0, fields |-> {}]
              \in [there : BOOLEAN, name : {0, 1}, fields : SUBSET Field]
      OBVIOUS
    <3> QED BY <3>1, <3>2, Zenon
  <2> QED BY <2>1, <2>2, Zenon
<1>3. blank \in [File -> Item] /\ \A i \in File : blank[i] = Absent BY ItemsAre
<1> HIDE DEF blank
<1>4. First \in Query /\ First.per = 1 /\ First.filter = "all" /\ First.overtaken = FALSE
  <2>1. 1 \in 1..(Files + 1) /\ 1 \in 1..2 BY MediaSizes
  <2>2. FALSE \in BOOLEAN BY Zenon
  <2>3. First \in Query BY <2>1, <2>2 DEF First, Query, Narrowing
  <2> QED BY <2>3 DEF First
<1>5. /\ listings \in Seq(Query) /\ Len(listings) = 1 /\ listings[1] = First
      /\ Len(listings) <= Loads
  BY <1>1, <1>4, MediaSizes
<1>6. MediaShapes
  <2>1. narrowed \in Narrowing /\ searching \in Narrowing \cup {"none"}
        /\ lastPer \in 1..2 /\ measured \in 0..2
    BY <1>1 DEF Narrowing
  <2>2. grid \in [items : [File -> Item], page : 1..(Files + 1), pages : 0..Files, query : Query]
    <3>1. 1 \in 1..(Files + 1) /\ 0 \in 0..Files BY MediaSizes
    <3> QED BY <1>1, <1>3, <1>4, <3>1
  <2>3. frame \in 0..(Files + 1) /\ uses \in 0..MaxUses BY <1>1, MediaSizes
  <2>4. selected \subseteq File /\ pressed \subseteq File /\ lookups \subseteq File
        /\ chosen \in [File -> Item]
    BY <1>1, <1>3
  <2>5. asking \in [op : {"none", "delete", "delete all"}, ids : SUBSET File] BY <1>1
  <2>6. /\ jobs \in Seq([op : {"upload", "uploaded", "rename", "delete", "delete all"},
                         left : SUBSET File, done : SUBSET File])
        /\ saves \in Seq([file : File, rows : SUBSET Field])
    BY <1>1
  <2>7. panel \in [File -> SUBSET Field] BY <1>1, NoPanelIs DEF Panel
  <2>8. /\ handed \in [of : SUBSET File, given : SUBSET File, stale : SUBSET File,
                       pressed : SUBSET File]
        /\ edited \in [saved : [File -> SUBSET Field], unsure : SUBSET File]
    BY <1>1
  <2> QED BY <1>1, <1>2, <1>5, <2>1, <2>2, <2>3, <2>4, <2>5, <2>6, <2>7, <2>8, Zenon DEF MediaShapes
<1>7. MediaFlags
  <2>1. TRUE \in BOOLEAN /\ FALSE \in BOOLEAN BY Zenon
  <2> QED BY <1>1, <2>1, Zenon DEF MediaFlags
<1>8. LastListing
  <2>1. AsAsked(First) /\ ~First.overtaken BY <1>1, <1>4 DEF AsAsked
  <2>2. listings[Len(listings)] = First BY <1>5, Zenon
  <2>3. listings # <<>>
    <3> SUFFICES ASSUME listings = <<>> PROVE FALSE OBVIOUS
    <3>1. Len(listings) = 0 OBVIOUS
    <3> QED BY <3>1, <1>5
  <2> QED BY <2>1, <2>2, <2>3, Zenon DEF LastListing
<1>9. ErrorIsMasked BY <1>1, Zenon DEF ErrorIsMasked
<1>10. Renamed
  <2>1. \A i \in File : grid.items[i].name = 2 /\ chosen[i].name = 2 BY <1>1, <1>3, ItemsAre
  <2> QED BY <1>1, <2>1 DEF Renamed
<1>11. Picking BY <1>1 DEF Picking
<1>12. PostHasSelected BY <1>1 DEF PostHasSelected
<1>13. PickerHolds BY <1>1, <1>3 DEF PickerHolds
<1>14. SavesAgree
  <2>1. DOMAIN saves = {} BY <1>1
  <2> QED BY <1>1, <2>1 DEF SavesAgree
<1> QED BY <1>6, <1>7, <1>8, <1>9, <1>10, <1>11, <1>12, <1>13, <1>14 DEF MediaInv

LEMMA MediaStutters == ASSUME MediaInv, UNCHANGED mediaVars PROVE MediaInv'
<1>1. UNCHANGED <<stock, picker, usable, narrowed, searching, fits, lastPer, measured, listings,
                  grid, loadError, loading, frame, selecting, selected, chosen, asking, jobs, panel,
                  lookups, uses, outrun, masked, pressed, handed, saves, edited>>
  BY Zenon DEF mediaVars
<1>2. PicksKept' BY <1>1, MediaState, PicksStay
<1> QED BY <1>1, <1>2, MediaState, OtherKeeps

LEMMA MediaKeeps == ASSUME MediaInv, MediaNext PROVE MediaInv'
<1>1. CASE \E c \in 1..Loads : ListingAnswered(c) \/ Failed(c) BY <1>1, ListingAnsweredKeeps
<1>2. CASE Measure BY <1>2, MeasureKeeps
<1>3. CASE Search BY <1>3, SearchKeeps
<1>4. CASE \E i \in File : Lookup(i) BY <1>4, LookupKeeps
<1>5. CASE \E k \in 1..MaxUses, served, told \in BOOLEAN : StepJob(k, served, told)
  BY <1>5, StepJobKeeps
<1>6. CASE \E k \in 1..MaxUses : EndJob(k) BY <1>6, EndJobKeeps
<1>7. CASE \E k \in 1..MaxUses : SelectUploaded(k) BY <1>7, SelectUploadedKeeps
<1>8. CASE \E f \in Narrowing : NarrowFiles(f) BY <1>8, NarrowFilesKeep
<1>9. CASE \E f \in Narrowing : Type(f) BY <1>9, TypeKeeps
<1>10. CASE \E p \in 1..Files : Turn(p) BY <1>10, TurnKeeps
<1>11. CASE ZoomFiles BY <1>11, ZoomFilesKeeps
<1>12. CASE Cancel BY <1>12, CancelKeeps
<1>13. CASE CreatePost BY <1>13, CreateKeeps
<1>14. CASE LeaveLibrary BY <1>14, LeaveLibraryKeeps
<1>15. CASE AskDelete BY <1>15, AskDeleteKeeps
<1>16. CASE Upload BY <1>16, UploadKeeps
<1>17. CASE \E i \in File : LongPress(i) BY <1>17, LongPressKeeps
<1>18. CASE \E i \in File : Toggle(i) BY <1>18, ToggleKeeps
<1>19. CASE \E i \in File : Rename(i) BY <1>19, RenameKeeps
<1>20. CASE \E k \in 1..MaxUses, ok \in BOOLEAN : FieldsServed(k, ok) BY <1>20, ServedKeeps
<1>21. CASE \E yes \in BOOLEAN : Confirm(yes) BY <1>21, ConfirmKeeps
<1>22. CASE \E i \in File, f \in Field : SaveFields(i, f) BY <1>22, SaveKeeps
<1>23. TRUE \in BOOLEAN /\ FALSE \in BOOLEAN BY Zenon
<1> QED
  BY <1>1, <1>2, <1>3, <1>4, <1>5, <1>6, <1>7, <1>8, <1>9, <1>10, <1>11, <1>12, <1>13, <1>14,
     <1>15, <1>16, <1>17, <1>18, <1>19, <1>20, <1>21, <1>22, <1>23, Zenon
  DEF MediaNext, MediaProgress

(* What holds throughout the life of the media library.                    *)
THEOREM MediaInvariant == MediaSpec => []MediaInv
<1>1. MediaInit => MediaInv BY MediaStarts
<1>2. MediaInv /\ [MediaNext]_mediaVars => MediaInv' BY MediaKeeps, MediaStutters
<1> QED BY <1>1, <1>2, PTL DEF MediaSpec

(* The media library is of its type in every state.                        *)
THEOREM MediaIsTyped == MediaSpec => []MediaTypeOK
<1>1. MediaInv => MediaTypeOK BY MediaTypeIs DEF MediaInv
<1> QED BY <1>1, MediaInvariant, PTL

(* The media library at rest shows what was asked for last unless answers  *)
(* were outrun or failed; a new post is given the files that are selected, *)
(* but for those of a long press; and saves keep the fields that were      *)
(* saved unless a panel was older or two saves crossed: for any number of  *)
(* files, of listings under way and of uses.                               *)
THEOREM MediaHolds == MediaSpec => []MediaKept
<1>1. MediaInv => MediaKept
  <2> SUFFICES ASSUME MediaInv PROVE MediaKept OBVIOUS
  <2>1. PostHasSelected /\ PickerHolds BY Zenon DEF MediaInv
  <2>3. FieldsAreKept
    <3>1. SavesAgree BY Zenon DEF MediaInv
    <3> QED BY <3>1 DEF SavesAgree, FieldsAreKept
  <2>2. ListedIsAsked
    <3> SUFFICES ASSUME listings = <<>>, searching = "none", usable, ~outrun, ~masked
                 PROVE  ~loadError /\ grid.query.filter = narrowed /\ grid.query.per = lastPer
      BY Zenon DEF ListedIsAsked
    <3>1. LastListing /\ ErrorIsMasked BY Zenon DEF MediaInv
    <3>2. AsAsked(grid.query) BY <3>1, Zenon DEF LastListing
    <3>3. ~loadError BY <3>1, Zenon DEF ErrorIsMasked
    <3> QED BY <3>2, <3>3 DEF AsAsked
  <2> QED BY <2>1, <2>2, <2>3 DEF MediaKept
<1> QED BY <1>1, MediaInvariant, PTL

=============================================================================
