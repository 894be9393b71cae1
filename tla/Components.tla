----------------------------- MODULE Components -----------------------------
(***************************************************************************)
(* The base class of every page and part of the front end                  *)
(* (components/Component.ts) and the store they subscribe to (store.ts).   *)
(*                                                                         *)
(* A page (component 1) mounts children at each render, and each render of *)
(* a component acquires one resource: a subscription to one key of the     *)
(* store stands for what registerCleanup, on, timer, interval, observe and *)
(* raf acquire alike.  A subscription is a pair of its owner and a number: *)
(* every callback is an object of its own, and the store's Set keeps them  *)
(* in the order in which they were added, which is that of the numbers.    *)
(*                                                                         *)
(* Store.set calls the subscribers over a snapshot.  A callback is code of *)
(* its component: it may render it again, render its parent (a callback    *)
(* prop), have the page unmounted, or write to the store, which starts a   *)
(* dispatch within the dispatch.  frames is that stack.                    *)
(***************************************************************************)
EXTENDS Naturals, Sequences

CONSTANTS
    Parts,      \* bound: components alive at a time, the page included
    MaxWrites,  \* bound: writes of the key
    MaxMoves    \* bound: renders that events ask for

ASSUME ComponentsAssumption == Parts \in Nat \ {0} /\ MaxWrites \in Nat /\ MaxMoves \in Nat

VARIABLES
    alive,      \* components that are mounted
    listeners,  \* the store's Set of subscriptions
    serial,     \* the number of the last subscription
    frames,     \* dispatches under way: the value and who is still to call
    value,      \* the value of the key
    held,       \* held[i]: the value component i last heard or read
    moves,
    strays,     \* history: a callback ran for a component that was gone
    nested      \* history: the key was written during a dispatch

compVars == <<alive, listeners, serial, frames, value, held, moves, strays, nested>>

Page == 1
Part == 1..Parts
Subscription == Part \X Nat
Frame == [value : 0..MaxWrites, rest : SUBSET Subscription]

CompTypeOK ==
    /\ alive \subseteq Part
    /\ listeners \subseteq Subscription
    /\ serial \in Nat
    /\ frames \in Seq(Frame)
    /\ value \in 0..MaxWrites
    /\ held \in [Part -> 0..MaxWrites]
    /\ moves \in 0..MaxMoves
    /\ {strays, nested} \subseteq BOOLEAN

CompInit ==
    /\ alive = {}
    /\ listeners = {}
    /\ serial = 0
    /\ frames = <<>>
    /\ value = 0
    /\ held = [i \in Part |-> 0]
    /\ moves = 0
    /\ strays = FALSE
    /\ nested = FALSE

(***************************************************************************)
(* One render.                                                             *)
(***************************************************************************)

(* subscribe: a callback of its own for every render.                      *)
Subscribe(i, number) == <<i, number>>

(* A component goes with the children it mounted.                          *)
Below(i) == IF i = Page THEN alive \ {Page} ELSE {}

(* _runCleanups of all that goes.                                          *)
(* Mutant: the children's are forgotten.                                   *)
ReleasedAlone(i) == {s \in listeners : s[1] # i}

Released(i) == {s \in listeners : s[1] \notin {i} \cup Below(i)}

(* _rerender and mount: release, unmount the children, render, acquire.    *)
(* The n children that a render of the page mounts get the lowest numbers  *)
(* after its own; they subscribe one after the other, and the component    *)
(* itself before they do, or after.                                        *)
Render(i, n, before, heard) ==
    LET kids == {i + k : k \in 1..n}
        own == Subscribe(i, serial + (IF before THEN 1 ELSE n + 1))
        theirs == {Subscribe(i + k, serial + k + (IF before THEN 1 ELSE 0)) : k \in 1..n}
    IN /\ alive' = (alive \ Below(i)) \cup {i} \cup kids
       /\ listeners' = Released(i) \cup {own} \cup theirs
       /\ serial' = serial + n + 1
       /\ held' = [j \in Part |-> IF j \in {i} \cup kids THEN value ELSE heard[j]]

Unmount ==
    /\ alive' = {}
    /\ listeners' = Released(Page)
    /\ UNCHANGED serial

(* setState and setProps: nothing on an unmounted component; update() may  *)
(* say that the change is handled.                                         *)
Changed(i, heard) ==
    \/ /\ i \in alive
       /\ \E n \in 0..(Parts - 1), before \in BOOLEAN :
            /\ i # Page => n = 0
            /\ Render(i, n, before, heard)
    \/ /\ held' = [heard EXCEPT ![i] = IF i \in alive THEN value ELSE @]
       /\ UNCHANGED <<alive, listeners, serial>>

(***************************************************************************)
(* Steps outside a dispatch.                                               *)
(***************************************************************************)
Move == frames = <<>> /\ moves < MaxMoves /\ moves' = moves + 1

Mount ==
    /\ Move
    /\ alive = {}
    /\ \E n \in 0..(Parts - 1), before \in BOOLEAN : Render(Page, n, before, held)
    /\ UNCHANGED <<frames, value, strays, nested>>

SetState(i) ==
    /\ Move
    /\ Changed(i, held)
    /\ UNCHANGED <<frames, value, strays, nested>>

UnmountPage ==
    /\ Move
    /\ Page \in alive
    /\ Unmount
    /\ UNCHANGED <<held, frames, value, strays, nested>>

(***************************************************************************)
(* Store.set.                                                              *)
(***************************************************************************)

(* The snapshot of a dispatch.                                             *)
Snapshot(v) == [value |-> v, rest |-> listeners]

(* A write of the value in place is dropped, by set and by merge.          *)
Write ==
    /\ frames = <<>>
    /\ value < MaxWrites
    /\ value' = value + 1
    /\ frames' = <<Snapshot(value')>>
    /\ UNCHANGED <<alive, listeners, serial, held, moves, strays, nested>>

Top == Head(frames)

(* What is left of the snapshot once its first subscriber was called.      *)
Rest(s) == [frames EXCEPT ![1].rest = @ \ {s}]

(* Who is called: not a subscriber that an earlier callback tore down.     *)
Called(s) == s \in listeners

(* The callback of one subscriber.  With the value it was called with, it  *)
(* does something of its own, or renders.                                  *)
Callback(s) ==
    LET heard == [held EXCEPT ![s[1]] = Top.value] IN
    /\ strays' = (strays \/ s[1] \notin alive)
    /\ \/ /\ \/ Changed(s[1], heard)
             \/ held' = heard /\ UNCHANGED <<alive, listeners, serial>>
             \/ s[1] # Page /\ Changed(Page, heard)
             \/ Page \in alive /\ Unmount /\ held' = heard
          /\ frames' = Rest(s)
          /\ UNCHANGED <<value, nested>>
       \/ /\ value < MaxWrites
          /\ value' = value + 1
          /\ held' = heard
          /\ frames' = <<Snapshot(value')>> \o Rest(s)
          /\ nested' = TRUE
          /\ UNCHANGED <<alive, listeners, serial>>

(* The first of those still to call, in the order in which they came.      *)
First(s) == \A t \in Top.rest : s[2] <= t[2]

Dispatch ==
    /\ frames # <<>>
    /\ \E s \in Top.rest :
        /\ First(s)
        /\ IF Called(s) THEN Callback(s)
           ELSE /\ frames' = Rest(s)
                /\ UNCHANGED <<alive, listeners, serial, value, held, strays, nested>>
    /\ UNCHANGED moves

Return ==
    /\ frames # <<>> /\ Top.rest = {}
    /\ frames' = Tail(frames)
    /\ UNCHANGED <<alive, listeners, serial, value, held, moves, strays, nested>>

CompNext ==
    \/ Mount \/ UnmountPage \/ Write \/ Dispatch \/ Return
    \/ \E i \in Part : SetState(i)

CompSpec == CompInit /\ [][CompNext]_compVars

(* JavaScript runs a call to its end.                                      *)
CompProgress == Dispatch \/ Return

(***************************************************************************)
(* Properties.                                                             *)
(***************************************************************************)

(* The resource contract (Component.ts:18-28): what a render acquired is   *)
(* held once while the component lives, and by nobody afterwards, whatever *)
(* the callbacks did to each other.                                        *)
HeldOnce ==
    /\ \A s \in listeners : s[1] \in alive
    /\ \A i \in alive : \E s \in listeners :
        /\ s[1] = i
        /\ \A t \in listeners : t[1] = i => t = s

(* A callback runs only while the render that subscribed it is on screen.  *)
NoStrayCallback == ~strays

(* Once the dispatches are over, every component has heard the value of    *)
(* the key.  A write from within a dispatch voids it: the outer dispatch   *)
(* goes on with the older value, and it comes last.                        *)
LatestIsHeard == frames = <<>> /\ ~nested => \A i \in alive : held[i] = value

(* What is promised of the base class and the store.                       *)
ContractKept == HeldOnce /\ NoStrayCallback /\ LatestIsHeard

(* What every behaviour comes back to, although callbacks subscribe anew.  *)
CompSettled == frames = <<>>

=============================================================================
