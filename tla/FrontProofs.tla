---------------------------- MODULE FrontProofs ----------------------------
(***************************************************************************)
(* Proofs about what the front end stands on, the feeds and the editor.    *)
(***************************************************************************)
EXTENDS MCFront, SequenceTheorems, FiniteSetTheorems, TLAPS

-----------------------------------------------------------------------------
(***************************************************************************)
(* Proofs, for any number of components, writes and renders.               *)
(***************************************************************************)

(* No two subscriptions are taken for one another: the numbers of those    *)
(* that are listened to tell them apart.                                   *)
Numbered ==
    /\ \A s \in listeners : s[2] <= serial
    /\ \A s, t \in listeners : s[2] = t[2] => s = t

(* Unless a write came in between, a component that has not heard the value *)
(* is still to be called, by the only dispatch there is.                   *)
Owed ==
    ~nested =>
        /\ Len(frames) <= 1
        /\ frames # <<>> => Top.value = value
        /\ \A i \in alive :
            \/ held[i] = value
            \/ frames # <<>> /\ \E s \in Top.rest \cap listeners : s[1] = i

IInv == CompTypeOK /\ HeldOnce /\ Numbered /\ NoStrayCallback /\ Owed

(* What renders, unmounts and changes have in common: whoever is alive     *)
(* afterwards read the value, or is as before and can still be called.     *)
Carried(heard) ==
    /\ alive' \subseteq Part
    /\ listeners' \subseteq Subscription
    /\ serial' \in Nat
    /\ held' \in [Part -> 0..MaxWrites]
    /\ HeldOnce'
    /\ Numbered'
    /\ \A j \in alive' :
        \/ held'[j] = value
        \/ /\ j \in alive
           /\ held'[j] = heard[j]
           /\ \A s \in listeners : s[1] = j => s \in listeners'

(* A render of a child puts one new subscription in the place of the old.  *)
LEMMA ChildRenders ==
    ASSUME CompTypeOK, HeldOnce, Numbered,
           NEW heard \in [Part -> 0..MaxWrites], NEW i \in alive, i # Page,
           NEW before \in BOOLEAN, Render(i, 0, before, heard)
    PROVE  Carried(heard)
<1> DEFINE own == <<i, serial + 1>>
<1>1. listeners' = {s \in listeners : s[1] # i} \cup {own}
  <2>1. {Subscribe(i + k, serial + k + (IF before THEN 1 ELSE 0)) : k \in 1..0} = {}
    OBVIOUS
  <2>2. Subscribe(i, serial + (IF before THEN 1 ELSE 0 + 1)) = own
    BY DEF Subscribe
  <2>3. Released(i) = {s \in listeners : s[1] # i}
    BY DEF Released, Below, Page
  <2> QED  BY <2>1, <2>2, <2>3 DEF Render
<1>2. alive' = alive
  <2>1. {i + k : k \in 1..0} = {}
    OBVIOUS
  <2> QED  BY <2>1 DEF Render, Below
<1>3. serial' = serial + 1 /\ serial \in Nat
  BY DEF Render, CompTypeOK
<1>4. held' = [j \in Part |-> IF j = i THEN value ELSE heard[j]]
  <2>1. {i} \cup {i + k : k \in 1..0} = {i}
    OBVIOUS
  <2> QED  BY <2>1 DEF Render
<1>5. i \in Part /\ own \in Subscription /\ own[1] = i /\ own[2] = serial + 1
  BY <1>3 DEF CompTypeOK, Subscription
<1> HIDE DEF own
<1>6. alive' \subseteq Part /\ listeners' \subseteq Subscription /\ serial' \in Nat
  BY <1>1, <1>2, <1>3, <1>5 DEF CompTypeOK
<1>7. held' \in [Part -> 0..MaxWrites]
  BY <1>4 DEF CompTypeOK
<1>8. HeldOnce'
  <2>1. \A s \in listeners' : s[1] \in alive'
    BY <1>1, <1>2, <1>5 DEF HeldOnce
  <2>2. ASSUME NEW j \in alive'
        PROVE  \E s \in listeners' : s[1] = j /\ \A t \in listeners' : t[1] = j => t = s
    <3>1. CASE j = i
      BY <3>1, <1>1, <1>5
    <3>2. CASE j # i
      BY <3>2, <1>1, <1>2, <1>5 DEF HeldOnce
    <3> QED  BY <3>1, <3>2
  <2> QED  BY <2>1, <2>2 DEF HeldOnce
<1>9. Numbered'
  <2>1. \A s \in listeners : s[2] \in Nat
    BY DEF CompTypeOK, Subscription
  <2> QED  BY <2>1, <1>1, <1>3, <1>5 DEF Numbered
<1>10. ASSUME NEW j \in alive', held'[j] # value
       PROVE  /\ j \in alive
              /\ held'[j] = heard[j]
              /\ \A s \in listeners : s[1] = j => s \in listeners'
  <2>1. j # i /\ j \in Part
    BY <1>2, <1>4, <1>10, <1>5 DEF CompTypeOK
  <2> QED  BY <2>1, <1>1, <1>2, <1>4
<1> QED  BY <1>6, <1>7, <1>8, <1>9, <1>10 DEF Carried

(* A render of the page puts its own subscription and those of the new     *)
(* children in the place of all that were there.                           *)
LEMMA PageRenders ==
    ASSUME CompTypeOK, HeldOnce, Numbered,
           NEW heard \in [Part -> 0..MaxWrites], NEW n \in 0..(Parts - 1),
           NEW before \in BOOLEAN, Render(Page, n, before, heard)
    PROVE  Carried(heard)
<1> USE ComponentsAssumption
<1> DEFINE first == IF before THEN 1 ELSE 0
           own == <<1, serial + (IF before THEN 1 ELSE n + 1)>>
           their(k) == <<1 + k, serial + k + first>>
<1>1. Released(Page) = {}
  BY DEF Released, Below, HeldOnce, CompTypeOK
<1>2. listeners' = {own} \cup {their(k) : k \in 1..n}
  BY <1>1 DEF Render, Subscribe, Page
<1>3. alive' = {1} \cup {1 + k : k \in 1..n}
  BY DEF Render, Below, Page
<1>4. serial' = serial + n + 1 /\ serial \in Nat /\ n \in Nat /\ first \in {0, 1}
  BY DEF Render, CompTypeOK
<1>5. held' = [j \in Part |-> IF j \in {1} \cup {1 + k : k \in 1..n} THEN value ELSE heard[j]]
  BY DEF Render, Page
<1>6. /\ own \in Subscription /\ own[1] = 1
      /\ own[2] \in Nat /\ own[2] <= serial'
  BY <1>4 DEF Subscription, Part
<1>7. \A k \in 1..n : /\ their(k) \in Subscription /\ their(k)[1] = 1 + k
                      /\ their(k)[2] = serial + k + first
                      /\ their(k)[2] <= serial' /\ their(k)[2] # own[2]
  BY <1>4 DEF Subscription, Part
<1> HIDE DEF own, their, first
<1>8. alive' \subseteq Part /\ listeners' \subseteq Subscription /\ serial' \in Nat
  BY <1>2, <1>3, <1>4, <1>6, <1>7 DEF Part
<1>9. held' \in [Part -> 0..MaxWrites]
  BY <1>5 DEF CompTypeOK
<1>10. HeldOnce'
  <2>1. \A s \in listeners' : s[1] \in alive'
    BY <1>2, <1>3, <1>6, <1>7
  <2>2. ASSUME NEW j \in alive'
        PROVE  \E s \in listeners' : s[1] = j /\ \A t \in listeners' : t[1] = j => t = s
    <3>1. CASE j = 1
      <4>1. \A t \in listeners' : t[1] = j => t = own
        BY <3>1, <1>2, <1>7
      <4> QED  BY <3>1, <4>1, <1>2, <1>6
    <3>2. CASE j # 1
      <4>1. PICK k \in 1..n : j = 1 + k
        BY <3>2, <1>3
      <4>2. \A t \in listeners' : t[1] = j => t = their(k)
        BY <4>1, <3>2, <1>2, <1>6, <1>7
      <4> QED  BY <4>1, <4>2, <1>2, <1>7
    <3> QED  BY <3>1, <3>2
  <2> QED  BY <2>1, <2>2 DEF HeldOnce
<1>11. Numbered'
  <2>1. \A s \in listeners' : s[2] <= serial'
    BY <1>2, <1>6, <1>7
  <2>2. \A k, m \in 1..n : their(k)[2] = their(m)[2] => k = m
    BY <1>4, <1>7
  <2>3. \A s, t \in listeners' : s[2] = t[2] => s = t
    BY <2>2, <1>2, <1>7
  <2> QED  BY <2>1, <2>3 DEF Numbered
<1>12. \A j \in alive' : held'[j] = value
  BY <1>3, <1>5, <1>8
<1> QED  BY <1>8, <1>9, <1>10, <1>11, <1>12 DEF Carried

(* setState and setProps, whoever is asked.                                *)
LEMMA ChangeIsCarried ==
    ASSUME CompTypeOK, HeldOnce, Numbered,
           NEW heard \in [Part -> 0..MaxWrites], NEW i \in Part, Changed(i, heard)
    PROVE  Carried(heard)
<1>1. ASSUME NEW n \in 0..(Parts - 1), NEW before \in BOOLEAN,
             i \in alive, i # Page => n = 0, Render(i, n, before, heard)
      PROVE  Carried(heard)
  BY <1>1, ChildRenders, PageRenders
<1>2. ASSUME held' = [heard EXCEPT ![i] = IF i \in alive THEN value ELSE @],
             UNCHANGED <<alive, listeners, serial>>
      PROVE  Carried(heard)
  BY <1>2 DEF Carried, CompTypeOK, HeldOnce, Numbered
<1> QED  BY <1>1, <1>2 DEF Changed

(* An unmount of the page releases everything.                             *)
LEMMA UnmountIsCarried ==
    ASSUME CompTypeOK, HeldOnce, Numbered, Unmount,
           NEW heard \in [Part -> 0..MaxWrites], held' = heard
    PROVE  Carried(heard)
<1>1. listeners' = {}
  BY DEF Unmount, Released, Below, HeldOnce
<1> QED  BY <1>1 DEF Carried, Unmount, HeldOnce, Numbered, CompTypeOK

(* A dispatch that goes on.                                                *)
LEMMA RestIsLeft ==
    ASSUME CompTypeOK, frames # <<>>, NEW s
    PROVE  /\ Rest(s) \in Seq(Frame)
           /\ Len(Rest(s)) = Len(frames)
           /\ Rest(s) # <<>>
           /\ Head(Rest(s)).value = Top.value
           /\ Head(Rest(s)).rest = Top.rest \ {s}
           /\ Top \in Frame
<1> DEFINE shorter == [frames[1] EXCEPT !.rest = @ \ {s}]
<1>1. frames \in Seq(Frame) /\ 1 \in 1..Len(frames) /\ frames[1] \in Frame /\ Top = frames[1]
  BY DEF CompTypeOK, Top
<1>2. shorter \in Frame /\ shorter.value = Top.value /\ shorter.rest = Top.rest \ {s}
  BY <1>1 DEF Frame
<1>3. Rest(s) = [frames EXCEPT ![1] = shorter]
  BY DEF Rest
<1> HIDE DEF shorter
<1>4. /\ Rest(s) \in Seq(Frame)
      /\ Len(Rest(s)) = Len(frames)
      /\ Rest(s)[1] = shorter
  BY <1>1, <1>2, <1>3, ExceptSeq
<1>5. Rest(s) # <<>> /\ Head(Rest(s)) = shorter
  BY <1>1, <1>4
<1> QED  BY <1>1, <1>2, <1>4, <1>5

(* A step that carries what was heard, with no dispatch under way.         *)
LEMMA CarriedOutside ==
    ASSUME IInv, frames = <<>>, Carried(held), UNCHANGED <<frames, value, strays, nested>>,
           moves' \in 0..MaxMoves
    PROVE  IInv'
<1>1. CompTypeOK' /\ HeldOnce' /\ Numbered' /\ NoStrayCallback'
  BY DEF IInv, Carried, CompTypeOK, NoStrayCallback
<1>2. Owed'
  BY DEF IInv, Carried, Owed
<1> QED  BY <1>1, <1>2 DEF IInv

(* One call of a dispatch that does not write.                             *)
LEMMA CarriedInside ==
    ASSUME IInv, frames # <<>>, NEW s \in listeners,
           Carried([held EXCEPT ![s[1]] = Top.value]),
           frames' = Rest(s), UNCHANGED <<value, moves, nested>>,
           strays' = (strays \/ s[1] \notin alive)
    PROVE  IInv'
<1> DEFINE heard == [held EXCEPT ![s[1]] = Top.value]
<1>1. strays' = FALSE
  BY DEF IInv, NoStrayCallback, HeldOnce
<1>2. CompTypeOK' /\ HeldOnce' /\ Numbered' /\ NoStrayCallback'
  BY <1>1, RestIsLeft DEF IInv, Carried, CompTypeOK, NoStrayCallback
<1>3. Owed'
  <2> SUFFICES ASSUME ~nested
               PROVE  /\ Len(frames') <= 1
                      /\ Top' = Head(Rest(s))
                      /\ Head(Rest(s)).value = value
                      /\ \A i \in alive' :
                            \/ held'[i] = value
                            \/ \E t \in Top'.rest \cap listeners' : t[1] = i
    BY RestIsLeft DEF Owed, IInv
  <2>1. Len(frames') <= 1 /\ Top' = Head(Rest(s)) /\ Head(Rest(s)).value = value
    BY RestIsLeft DEF Owed, IInv, Top
  <2>2. Top'.rest = Top.rest \ {s}
    BY <2>1, RestIsLeft DEF IInv
  <2>3. ASSUME NEW i \in alive', held'[i] # value
        PROVE  \E t \in Top'.rest \cap listeners' : t[1] = i
    <3>1. /\ i \in alive
          /\ held'[i] = heard[i]
          /\ \A t \in listeners : t[1] = i => t \in listeners'
      BY <2>3 DEF Carried
    <3>2. i \in Part /\ held \in [Part -> 0..MaxWrites] /\ Top.value = value
      BY <3>1 DEF IInv, CompTypeOK, Owed
    <3>3. i # s[1] /\ held[i] # value
      BY <2>3, <3>1, <3>2
    <3>4. PICK t \in Top.rest \cap listeners : t[1] = i
      BY <3>1, <3>3 DEF IInv, Owed
    <3> QED  BY <3>1, <3>3, <3>4, <2>2
  <2> QED  BY <2>1, <2>3
<1> QED  BY <1>2, <1>3 DEF IInv

LEMMA MountKeeps == IInv /\ Mount => IInv'
<1> SUFFICES ASSUME IInv, Mount PROVE IInv'
  OBVIOUS
<1>1. Carried(held)
  BY PageRenders DEF IInv, Mount, CompTypeOK
<1>2. frames = <<>> /\ moves' \in 0..MaxMoves
  BY ComponentsAssumption DEF IInv, Mount, Move, CompTypeOK
<1> QED  BY <1>1, <1>2, CarriedOutside DEF Mount

LEMMA SetStateKeeps == ASSUME IInv, NEW i \in Part, SetState(i) PROVE IInv'
<1>1. Carried(held)
  BY ChangeIsCarried DEF IInv, SetState, CompTypeOK
<1>2. frames = <<>> /\ moves' \in 0..MaxMoves
  BY ComponentsAssumption DEF IInv, SetState, Move, CompTypeOK
<1> QED  BY <1>1, <1>2, CarriedOutside DEF SetState

LEMMA UnmountPageKeeps == IInv /\ UnmountPage => IInv'
<1> SUFFICES ASSUME IInv, UnmountPage PROVE IInv'
  OBVIOUS
<1>1. Carried(held)
  BY UnmountIsCarried DEF IInv, UnmountPage, CompTypeOK
<1>2. frames = <<>> /\ moves' \in 0..MaxMoves
  BY ComponentsAssumption DEF IInv, UnmountPage, Move, CompTypeOK
<1> QED  BY <1>1, <1>2, CarriedOutside DEF UnmountPage

(* The snapshot of a first dispatch owes the value to all that is mounted. *)
LEMMA WriteKeeps == IInv /\ Write => IInv'
<1> SUFFICES ASSUME IInv, Write PROVE IInv'
  OBVIOUS
<1>1. Snapshot(value') \in Frame /\ value' \in 0..MaxWrites
  BY ComponentsAssumption DEF IInv, Write, CompTypeOK, Snapshot, Frame
<1>2. frames' \in Seq(Frame) /\ frames' # <<>> /\ Len(frames') = 1 /\ Top' = Snapshot(value')
  BY <1>1 DEF Write, Top
<1>3. CompTypeOK' /\ HeldOnce' /\ Numbered' /\ NoStrayCallback'
  BY <1>1, <1>2 DEF IInv, Write, CompTypeOK, HeldOnce, Numbered, NoStrayCallback
<1>4. Owed'
  BY <1>2 DEF IInv, Write, Owed, HeldOnce, Snapshot
<1> QED  BY <1>3, <1>4 DEF IInv

LEMMA CallbackKeeps ==
    ASSUME IInv, frames # <<>>, NEW s \in listeners, Callback(s), UNCHANGED moves
    PROVE  IInv'
<1> DEFINE heard == [held EXCEPT ![s[1]] = Top.value]
<1>1. heard \in [Part -> 0..MaxWrites] /\ s[1] \in Part /\ Page \in Part
  <2>1. Top.value \in 0..MaxWrites
    BY RestIsLeft DEF IInv, Frame
  <2>2. s[1] \in Part
    BY DEF IInv, CompTypeOK, Subscription
  <2>3. Page \in Part
    BY ComponentsAssumption DEF Page, Part
  <2> QED  BY <2>1, <2>2, <2>3 DEF IInv, CompTypeOK
<1>2. CASE /\ \/ Changed(s[1], heard)
              \/ held' = heard /\ UNCHANGED <<alive, listeners, serial>>
              \/ s[1] # Page /\ Changed(Page, heard)
              \/ Page \in alive /\ Unmount /\ held' = heard
           /\ frames' = Rest(s)
           /\ UNCHANGED <<value, nested>>
  <2> HIDE DEF heard
  <2>1. ASSUME held' = heard, UNCHANGED <<alive, listeners, serial>>
        PROVE  Carried(heard)
    BY <2>1, <1>1 DEF Carried, IInv, CompTypeOK, HeldOnce, Numbered
  <2>2. Carried(heard)
    BY <2>1, <1>1, <1>2, ChangeIsCarried, UnmountIsCarried DEF IInv
  <2> QED  BY <2>2, <1>2, CarriedInside DEF Callback, heard
<1>3. CASE /\ value < MaxWrites
           /\ value' = value + 1
           /\ held' = heard
           /\ frames' = <<Snapshot(value')>> \o Rest(s)
           /\ nested' = TRUE
           /\ UNCHANGED <<alive, listeners, serial>>
  <2>1. value' \in 0..MaxWrites /\ Snapshot(value') \in Frame
    BY <1>3, ComponentsAssumption DEF IInv, CompTypeOK, Snapshot, Frame
  <2>2. <<Snapshot(value')>> \in Seq(Frame)
    BY <2>1
  <2>3. frames' \in Seq(Frame)
    BY <1>3, <2>2, RestIsLeft, ConcatProperties DEF IInv
  <2>4. strays' = FALSE
    BY DEF Callback, IInv, NoStrayCallback, HeldOnce
  <2> QED  BY <1>1, <1>3, <2>1, <2>3, <2>4
           DEF IInv, CompTypeOK, HeldOnce, Numbered, NoStrayCallback, Owed
<1> QED  BY <1>2, <1>3 DEF Callback

(* Who was torn down is passed over: it owes nothing.                      *)
LEMMA SkipKeeps ==
    ASSUME IInv, frames # <<>>, NEW s, ~Called(s), frames' = Rest(s),
           UNCHANGED <<alive, listeners, serial, value, held, moves, strays, nested>>
    PROVE  IInv'
<1>1. CompTypeOK' /\ HeldOnce' /\ Numbered' /\ NoStrayCallback'
  BY RestIsLeft DEF IInv, CompTypeOK, HeldOnce, Numbered, NoStrayCallback
<1>2. Top' = Head(Rest(s))
  BY DEF Top
<1>3. Owed'
  BY <1>2, RestIsLeft DEF IInv, Owed, Called
<1> QED  BY <1>1, <1>3 DEF IInv

LEMMA ReturnKeeps == IInv /\ Return => IInv'
<1> SUFFICES ASSUME IInv, Return PROVE IInv'
  OBVIOUS
<1>1. frames' \in Seq(Frame) /\ Len(frames') = Len(frames) - 1
  BY HeadTailProperties DEF IInv, CompTypeOK, Return
<1>2. CompTypeOK' /\ HeldOnce' /\ Numbered' /\ NoStrayCallback'
  BY <1>1 DEF IInv, Return, CompTypeOK, HeldOnce, Numbered, NoStrayCallback
<1>3. Owed'
  <2>1. ~nested => frames' = <<>>
    BY <1>1, EmptySeq DEF IInv, Owed, Return, CompTypeOK
  <2> QED  BY <1>1, <2>1 DEF IInv, Owed, Return
<1> QED  BY <1>2, <1>3 DEF IInv

(* Every reachable state satisfies the inductive invariant.                *)
THEOREM ContractInvariant == CompSpec => []IInv
<1>1. CompInit => IInv
  <2> SUFFICES ASSUME CompInit PROVE IInv
    OBVIOUS
  <2>1. <<>> \in Seq(Frame)
    BY EmptySeq
  <2>2. CompTypeOK
    <3>1. 0 \in 0..MaxWrites /\ 0 \in 0..MaxMoves /\ [i \in Part |-> 0] \in [Part -> 0..MaxWrites]
      BY ComponentsAssumption
    <3>2. alive \subseteq Part /\ listeners \subseteq Subscription /\ serial \in Nat
      BY DEF CompInit
    <3>3. {strays, nested} \subseteq BOOLEAN
      BY DEF CompInit
    <3> QED  BY <2>1, <3>1, <3>2, <3>3 DEF CompInit, CompTypeOK
  <2> QED  BY <2>2 DEF CompInit, IInv, HeldOnce, Numbered, NoStrayCallback, Owed
<1>2. IInv /\ [CompNext]_compVars => IInv'
  <2> SUFFICES ASSUME IInv, [CompNext]_compVars PROVE IInv'
    OBVIOUS
  <2>1. ASSUME NEW i \in Part, SetState(i) PROVE IInv'
    BY <2>1, SetStateKeeps
  <2>2. CASE Dispatch
    <3>1. PICK s \in Top.rest :
            IF Called(s) THEN Callback(s)
            ELSE /\ frames' = Rest(s)
                 /\ UNCHANGED <<alive, listeners, serial, value, held, strays, nested>>
      BY <2>2 DEF Dispatch
    <3>2. frames # <<>> /\ UNCHANGED moves
      BY <2>2 DEF Dispatch
    <3> QED  BY <3>1, <3>2, CallbackKeeps, SkipKeeps DEF Called
  <2>3. CASE UNCHANGED compVars
    BY <2>3
    DEF compVars, IInv, CompTypeOK, HeldOnce, Numbered, NoStrayCallback, Owed, Top
  <2> QED
    BY <2>1, <2>2, <2>3, MountKeeps, UnmountPageKeeps, WriteKeeps, ReturnKeeps DEF CompNext
<1> QED  BY <1>1, <1>2, PTL DEF CompSpec

(* The state has its type.                                                 *)
THEOREM TypeIsKept == CompSpec => []CompTypeOK
<1>1. IInv => CompTypeOK
  BY DEF IInv
<1> QED  BY <1>1, ContractInvariant, PTL

(* The resource contract and the dispatch, however many components there   *)
(* are, whatever they render, unmount or write from their callbacks.       *)
THEOREM ContractHolds == CompSpec => []ContractKept
<1>1. IInv => ContractKept
  BY DEF IInv, ContractKept, LatestIsHeard, Owed
<1> QED  BY <1>1, ContractInvariant, PTL

(* Subscriptions are told apart, so that the order of a dispatch is that   *)
(* in which its subscribers came.                                          *)
THEOREM OrderIsKept == CompSpec => []Numbered
<1>1. IInv => Numbered
  BY DEF IInv
<1> QED  BY <1>1, ContractInvariant, PTL

-----------------------------------------------------------------------------
(***************************************************************************)
(* The router, for any number of calls, pages and moves of the reader.     *)
(***************************************************************************)

(* A document that boots has nothing of the one before.                    *)
Booting == doc = "boot" => Idle = 1..Slots /\ Alive = {} /\ keydowns = 0

(* Escape is dispatched in a document that is there.                       *)
Escaping == dispatching > 0 => doc = "ready"

(* Until a sign-in is sent a form has one listener at most.                *)
FormsReleased ==
    ~sent => ~signing /\ keydowns = 0 /\ \A i \in 1..Pages : pages[i].forms <= 1

(* The setup status is asked for the pages of the administrator, the form  *)
(* and the wizard: none of those refreshes in place.                       *)
Guarded ==
    \A c \in 1..Slots :
        visits[c].at = "status" => visits[c].path \in {"light", "posts", "login", "setup"}

(* While no call overtakes another, there is one at a time, for the path of *)
(* the address, and it has left the page before its chunk is asked for.    *)
Followed ==
    ~overtaken =>
        /\ \A c, d \in (1..Slots) \ Idle : c = d
        /\ \A c \in (1..Slots) \ Idle :
            /\ visits[c].path = location
            /\ visits[c].at = "load" => showing = None
        /\ Alive \subseteq {showing}
        /\ screen # None => screen = showing
        /\ Quiet /\ showing # None => pages[showing].path = location /\ screen = showing

RouterInv == RouterTypeOK /\ Booting /\ Escaping /\ FormsReleased /\ Guarded /\ Followed

Instance == [path : Routed, fetching : BOOLEAN, forms : Nat]
Visit == [path : Routed, at : {"status", "load"}]

(* What tells the entries that are in use from the others.                 *)
LEMMA Entries ==
    ASSUME RouterTypeOK
    PROVE  /\ \A i \in 1..Pages : pages[i] = Gone \/ pages[i] \in Instance
           /\ \A c \in 1..Slots : visits[c] = Free \/ visits[c] \in Visit
           /\ \A i \in 1..Pages : pages[i].forms \in Nat
           /\ \A i \in Alive : i \in 1..Pages /\ pages[i] \in Instance
           /\ \A c \in 1..Slots : c \in Idle <=> visits[c].at = "none"
<1>1. \A i \in 1..Pages : pages[i] = Gone \/ pages[i] \in Instance
  BY DEF RouterTypeOK, Instance
<1>2. \A c \in 1..Slots : visits[c] = Free \/ visits[c] \in Visit
  BY DEF RouterTypeOK, Visit
<1>3. Gone.forms \in Nat /\ Free.at = "none"
  BY DEF Gone, Free
<1>4. (\A x \in Instance : x.forms \in Nat) /\ (\A x \in Visit : x.at # "none")
  BY DEF Instance, Visit
<1> QED  BY <1>1, <1>2, <1>3, <1>4 DEF Alive, Idle

LEMMA GoneIsNoInstance == Gone \notin Instance /\ Free \notin Visit
BY DEF Gone, Free, Instance, Visit, Routed, Public, Light, Unknown

(* What leaving a page and the error page have in common.                  *)
Cleared == Drop /\ (screen' = None \/ (showing = None /\ screen' = screen))

LEMMA LeavingClears == Leave \/ (\E c \in 1..Slots : Fallback(c)) => Cleared
BY DEF Leave, Fallback, Cleared

(* The page is left: nothing of it stays, and it leaves a listener only if *)
(* the form was sent.                                                      *)
LEMMA LeaveClears ==
    ASSUME RouterTypeOK, FormsReleased, Cleared
    PROVE  /\ pages' \in [1..Pages -> {Gone} \cup Instance]
           /\ \A i \in 1..Pages : pages'[i] = Gone \/ pages'[i] = pages[i]
           /\ showing' = None
           /\ screen' \in {None} \cup {i \in 1..Pages : pages'[i] # Gone}
           /\ keydowns' \in Nat
           /\ ~sent => keydowns' = 0
           /\ Alive \subseteq {showing} /\ (screen # None => screen = showing)
                => Alive' = {} /\ screen' = None
<1>1. CASE showing = None
  BY <1>1 DEF Cleared, Drop, RouterTypeOK, FormsReleased, Instance, Alive, None
<1>2. CASE showing # None
  <2>1. showing \in 1..Pages /\ pages[showing].forms \in Nat
    BY <1>2, Entries DEF RouterTypeOK
  <2>2. pages' = [pages EXCEPT ![showing] = Gone]
    BY <1>2 DEF Cleared, Drop
  <2>3. /\ pages' \in [1..Pages -> {Gone} \cup Instance]
        /\ \A i \in 1..Pages : pages'[i] = Gone \/ pages'[i] = pages[i]
        /\ pages'[showing] = Gone
        /\ \A i \in 1..Pages : i # showing => pages'[i] = pages[i]
    BY <2>1, <2>2 DEF RouterTypeOK, Instance
  <2>4. showing' = None /\ screen' = None
    BY <1>2 DEF Cleared, Drop
  <2>5. Stray(showing) \in Nat /\ (pages[showing].forms <= 1 => Stray(showing) = 0)
    BY <2>1 DEF Stray
  <2>6. keydowns' \in Nat /\ (~sent => keydowns' = 0)
    BY <1>2, <2>1, <2>5 DEF Cleared, Drop, RouterTypeOK, FormsReleased
  <2>7. Alive \subseteq {showing} => Alive' = {}
    BY <2>3 DEF Alive
  <2> QED  BY <2>3, <2>4, <2>6, <2>7
<1> QED  BY <1>1, <1>2

(* The state that a call leaves behind in its variables.                   *)
LEMMA CallKeeps ==
    ASSUME RouterInv, NEW c \in 1..Slots, NEW v \in {Free} \cup Visit, Call(c, v)
    PROVE  /\ visits' \in [1..Slots -> {Free} \cup Visit]
           /\ visits'[c] = v
           /\ \A d \in 1..Slots : d # c => visits'[d] = visits[d]
           /\ overtaken' \in BOOLEAN
           /\ ~overtaken' =>
                /\ ~overtaken
                /\ \A d \in 1..Slots : d # c => visits[d] = Free
                /\ visits[c] = Free => Idle = 1..Slots
           /\ ~overtaken' => \A d \in (1..Slots) \ Idle' : d = c
<1>1. /\ visits' \in [1..Slots -> {Free} \cup Visit]
      /\ visits'[c] = v
      /\ \A d \in 1..Slots : d # c => visits'[d] = visits[d]
  BY DEF Call, RouterInv, RouterTypeOK, Visit
<1>2. overtaken' \in BOOLEAN
  BY DEF Call, RouterInv, RouterTypeOK
<1>3. ASSUME ~overtaken'
      PROVE  /\ ~overtaken
             /\ \A d \in 1..Slots : d # c => visits[d] = Free
             /\ visits[c] = Free => Idle = 1..Slots
  BY <1>3 DEF Call, RouterInv, Followed, Idle
<1> QED  BY <1>1, <1>2, <1>3 DEF Idle

(* A page that is refreshed in place is as it was, but for its path.       *)
LEMMA ReuseKeeps ==
    ASSUME RouterInv, NEW p \in Routed, showing # None,
           pages' = [pages EXCEPT ![showing].path = p, ![showing].fetching = TRUE]
    PROVE  /\ pages' \in [1..Pages -> {Gone} \cup Instance]
           /\ showing \in 1..Pages
           /\ pages'[showing] # Gone
           /\ pages'[showing].path = p
           /\ pages'[showing].forms = pages[showing].forms
           /\ \A i \in 1..Pages : i # showing => pages'[i] = pages[i]
<1>1. showing \in 1..Pages /\ pages[showing] \in Instance
  BY Entries DEF RouterInv, RouterTypeOK
<1> DEFINE fresh == [pages[showing] EXCEPT !.path = p, !.fetching = TRUE]
<1>2. fresh \in Instance /\ fresh.path = p /\ fresh.forms = pages[showing].forms
  BY <1>1 DEF Instance
<1>3. pages' = [pages EXCEPT ![showing] = fresh]
  BY <1>1 DEF RouterInv, RouterTypeOK
<1> HIDE DEF fresh
<1>4. pages \in [1..Pages -> {Gone} \cup Instance]
  BY DEF RouterInv, RouterTypeOK, Instance
<1> QED  BY <1>1, <1>2, <1>3, <1>4, GoneIsNoInstance

(* The part of the invariant that calls, pages and the address make up.    *)
ViewOK ==
    /\ location \in Routed \cup Unknown
    /\ visits \in [1..Slots -> {Free} \cup Visit]
    /\ pages \in [1..Pages -> {Gone} \cup Instance]
    /\ showing \in {None} \cup {i \in 1..Pages : pages[i] # Gone}
    /\ screen \in {None} \cup {i \in 1..Pages : pages[i] # Gone}
    /\ keydowns \in Nat
    /\ overtaken \in BOOLEAN
    /\ ~sent => keydowns = 0 /\ \A i \in 1..Pages : pages[i].forms <= 1
    /\ Guarded
    /\ Followed

LEMMA ViewIsPart == RouterInv => ViewOK
BY DEF RouterInv, RouterTypeOK, ViewOK, Visit, Instance, FormsReleased

(* The rest of it, which most steps leave as it is.                        *)
LEMMA WholeOfParts ==
    ASSUME ViewOK', doc' = "ready", dispatching' \in Nat, hops' \in Nat,
           {cookie', user', installed', claimed', signing', sent'} \subseteq BOOLEAN,
           signing' => sent'
    PROVE  RouterInv'
<1>1. RouterTypeOK'
  BY DEF ViewOK, RouterTypeOK, Visit, Instance
<1>2. Booting' /\ Escaping' /\ FormsReleased'
  BY DEF ViewOK, Booting, Escaping, FormsReleased
<1> QED  BY <1>1, <1>2 DEF RouterInv, ViewOK

(* The page goes, and the call awaits a chunk or is over.                  *)
LEMMA LeavingKeeps ==
    ASSUME RouterInv, NEW c \in 1..Slots, NEW p \in Routed, Cleared, UNCHANGED sent,
           location' \in Routed \cup Unknown,
           Call(c, Free) \/ Call(c, [path |-> p, at |-> "load"]),
           overtaken' \/ p = location' \/ Call(c, Free)
    PROVE  ViewOK'
<1> DEFINE v == visits'[c]
<1>1. v \in {Free} \cup Visit /\ Call(c, v)
      /\ (v # Free => v.at = "load" /\ (overtaken' \/ v.path = location'))
  <2>1. CASE Call(c, Free)
    BY <2>1, CallKeeps
  <2>2. CASE Call(c, [path |-> p, at |-> "load"]) /\ (overtaken' \/ p = location')
    <3>1. [path |-> p, at |-> "load"] \in Visit
      BY DEF Visit
    <3> QED  BY <2>2, <3>1, CallKeeps
  <2> QED  BY <2>1, <2>2
<1> HIDE DEF v
<1>2. RouterTypeOK /\ FormsReleased /\ Followed /\ Guarded
  BY DEF RouterInv
<1>3. /\ visits' \in [1..Slots -> {Free} \cup Visit]
      /\ visits'[c] = v
      /\ \A d \in 1..Slots : d # c => visits'[d] = visits[d]
      /\ overtaken' \in BOOLEAN
      /\ ~overtaken' => ~overtaken /\ \A d \in (1..Slots) \ Idle' : d = c
  BY <1>1, CallKeeps
<1>4. Guarded'
  <2>1. Free.at = "none"
    BY DEF Free
  <2> QED  BY <1>1, <1>2, <1>3, <2>1 DEF Guarded
<1>5. ~sent' => keydowns' = 0 /\ \A i \in 1..Pages : pages'[i].forms <= 1
  <2>1. Gone.forms = 0
    BY DEF Gone
  <2> QED  BY <1>2, <2>1, LeaveClears DEF FormsReleased
<1>6. Followed'
  BY <1>1, <1>2, <1>3, LeaveClears DEF Followed, Idle, Quiet
<1>7. /\ pages' \in [1..Pages -> {Gone} \cup Instance]
      /\ showing' = None
      /\ screen' \in {None} \cup {i \in 1..Pages : pages'[i] # Gone}
      /\ keydowns' \in Nat
  BY <1>2, LeaveClears
<1> QED  BY <1>3, <1>4, <1>5, <1>6, <1>7 DEF ViewOK

(* The call awaits the setup status, the page stays.                       *)
LEMMA AskingKeeps ==
    ASSUME RouterInv, NEW c \in 1..Slots, UNCHANGED <<view, sent>>,
           location' \in {"light", "posts", "login", "setup"},
           Call(c, [path |-> location', at |-> "status"])
    PROVE  ViewOK'
<1> DEFINE v == [path |-> location', at |-> "status"]
<1>1. v \in Visit /\ v.path = location' /\ v.at = "status" /\ v # Free
      /\ location' \in Routed \cup Unknown
  BY DEF Visit, Routed, Public, Light, Unknown, Free
<1> HIDE DEF v
<1>2. Call(c, v)
  BY DEF v
<1>3. /\ visits' \in [1..Slots -> {Free} \cup Visit]
      /\ visits'[c] = v
      /\ \A d \in 1..Slots : d # c => visits'[d] = visits[d]
      /\ overtaken' \in BOOLEAN
      /\ ~overtaken' => ~overtaken /\ \A d \in (1..Slots) \ Idle' : d = c
  BY <1>1, <1>2, CallKeeps
<1>4. Guarded'
  BY <1>1, <1>3 DEF Guarded, RouterInv
<1>5. ~Quiet'
  BY <1>1, <1>3 DEF Quiet, Idle
<1>6. Followed'
  BY <1>1, <1>3, <1>5 DEF Followed, RouterInv, view, Alive
<1> QED  BY <1>1, <1>3, <1>4, <1>6, ViewIsPart DEF ViewOK, view

(* Resolve, for a path that is the address's.                              *)
LEMMA ResolveKeeps ==
    ASSUME RouterInv, NEW c \in 1..Slots, NEW p \in Routed, UNCHANGED sent,
           location' \in Routed \cup Unknown, overtaken' \/ p = location',
           Resolve(c, p), doc = "ready" \/ Alive = {},
           visits[c] = Free \/ p \notin Refreshes
    PROVE  ViewOK'
<1>1. CASE ~Reused(p)
  BY <1>1, LeavingClears, LeavingKeeps DEF Resolve
<1>2. CASE Reused(p)
  <2>1. /\ showing # None
        /\ pages' = [pages EXCEPT ![showing].path = p, ![showing].fetching = TRUE]
        /\ Call(c, Free)
        /\ UNCHANGED <<showing, screen, keydowns>>
    BY <1>2 DEF Resolve, Reused
  <2>2. /\ pages' \in [1..Pages -> {Gone} \cup Instance]
        /\ showing \in 1..Pages
        /\ pages'[showing] # Gone
        /\ pages'[showing].path = p
        /\ pages'[showing].forms = pages[showing].forms
        /\ \A i \in 1..Pages : i # showing => pages'[i] = pages[i]
    BY <2>1, ReuseKeeps
  <2>3. /\ visits' \in [1..Slots -> {Free} \cup Visit]
        /\ visits'[c] = Free
        /\ \A d \in 1..Slots : d # c => visits'[d] = visits[d]
        /\ overtaken' \in BOOLEAN
        /\ ~overtaken' =>
             /\ ~overtaken
             /\ \A d \in (1..Slots) \ Idle' : d = c
             /\ visits[c] = Free => Idle = 1..Slots
    BY <2>1, CallKeeps
  <2>4. showing \in Alive /\ pages[showing] # Gone
    BY <2>1 DEF RouterInv, RouterTypeOK, Alive
  <2>5. Guarded'
    <3>1. Free.at = "none"
      BY DEF Free
    <3> QED  BY <2>3, <3>1 DEF Guarded, RouterInv
  <2>6. Followed'
    <3> SUFFICES ASSUME ~overtaken'
                 PROVE  /\ Idle' = 1..Slots
                        /\ Alive' \subseteq {showing'}
                        /\ screen' = showing'
      BY <2>1, <2>2 DEF Followed, Idle, Quiet
    <3>1. Idle' = 1..Slots
      BY <2>3 DEF Idle
    <3>2. Alive \subseteq {showing} /\ Alive' = Alive
      BY <2>2, <2>3, <2>4 DEF Followed, RouterInv, Alive
    <3>3. screen = showing
      <4>1. visits[c] = Free
        BY <1>2 DEF Reused
      <4>2. Quiet
        BY <2>3, <2>4, <4>1 DEF Quiet
      <4> QED  BY <2>1, <2>3, <4>2 DEF Followed, RouterInv
    <3> QED  BY <2>1, <3>1, <3>2, <3>3
  <2>7. screen' \in {None} \cup {i \in 1..Pages : pages'[i] # Gone}
    BY <2>1, <2>2 DEF RouterInv, RouterTypeOK
  <2> QED  BY <2>1, <2>2, <2>3, <2>5, <2>6, <2>7, ViewIsPart DEF ViewOK
<1> QED  BY <1>1, <1>2

(* _render from its start, in a new call or in one that was redirected.    *)
LEMMA EnterKeeps ==
    ASSUME RouterInv, NEW c \in 1..Slots, NEW p \in Routed \cup Unknown, UNCHANGED sent,
           Enter(c, p), doc = "ready" \/ Alive = {},
           visits[c] = Free \/ p \in {"light", "setup"}
    PROVE  ViewOK'
<1>1. CASE p \in Light \cup {"setup"} /\ Call(c, [path |-> location', at |-> "status"])
           /\ UNCHANGED view
  <2>1. location' \in {"light", "posts", "login", "setup"}
    BY <1>1 DEF Enter, Light
  <2> QED  BY <1>1, <2>1, AskingKeeps
<1>2. CASE p = "nowhere" /\ Fallback(c)
  <2>1. location' = p
    BY <1>2 DEF Enter
  <2>2. Cleared /\ Call(c, Free) /\ "light" \in Routed
    BY <1>2, LeavingClears DEF Fallback, Routed, Public, Light, Unknown
  <2> QED  BY <2>1, <2>2, LeavingKeeps
<1>3. CASE p \in Refreshes /\ Resolve(c, p)
  <2>1. location' = p /\ p \in Routed /\ visits[c] = Free
    BY <1>3 DEF Enter, Refreshes, Routed, Public, Light, Unknown
  <2> QED  BY <1>3, <2>1, ResolveKeeps
<1> QED  BY <1>1, <1>2, <1>3 DEF Enter

(* A new document.                                                         *)
LEMMA LoadKeeps ==
    ASSUME RouterInv, dispatching = 0, dispatching' = 0, NEW p \in Routed, HardLoad(p),
           hops' \in Nat, {cookie', installed', claimed'} \subseteq BOOLEAN
    PROVE  RouterInv'
<1>1. /\ Idle' = 1..Slots
      /\ Alive' = {}
      /\ \A i \in 1..Pages : pages'[i] = Gone
      /\ \A c \in 1..Slots : visits'[c] = Free
  BY DEF HardLoad, Idle, Alive
<1>2. Gone.forms = 0 /\ Free.at = "none"
  BY DEF Gone, Free
<1>3. RouterTypeOK'
  BY DEF HardLoad, RouterTypeOK, RouterInv
<1>4. Booting' /\ Escaping' /\ FormsReleased' /\ Guarded'
  BY <1>1, <1>2 DEF HardLoad, Booting, Escaping, FormsReleased, Guarded
<1>5. Followed'
  BY <1>1 DEF HardLoad, Followed, Quiet, Idle, Alive
<1> QED  BY <1>3, <1>4, <1>5 DEF RouterInv

(* The types of what most steps leave alone.                               *)
LEMMA Outside ==
    ASSUME RouterInv
    PROVE  /\ {cookie, user, installed, claimed, signing, sent} \subseteq BOOLEAN
           /\ dispatching \in Nat /\ hops \in Nat
           /\ signing => sent
           /\ location \in Routed \cup Unknown
           /\ dispatching > 0 => doc = "ready"
BY DEF RouterInv, RouterTypeOK, FormsReleased, Escaping

LEMMA PathsAre ==
    /\ {"light", "setup", "home", "login"} \subseteq Routed
    /\ Refreshes \subseteq Routed
BY DEF Routed, Public, Light, Unknown, Refreshes

LEMMA BootstrapKeeps == ASSUME RouterInv, Bootstrap PROVE RouterInv'
<1>1. 1 \in 1..Slots
  BY RouterAssumption
<1>2. Alive = {} /\ visits[1] = Free
  BY <1>1 DEF Bootstrap, RouterInv, Booting, Idle
<1>3. ViewOK'
  BY <1>1, <1>2, Outside, EnterKeeps DEF Bootstrap
<1>4. /\ doc' = "ready" /\ dispatching' \in Nat /\ hops' \in Nat
      /\ {cookie', user', installed', claimed', signing', sent'} \subseteq BOOLEAN
      /\ signing' => sent'
  BY Outside DEF Bootstrap, env
<1> QED  BY <1>3, <1>4, WholeOfParts

LEMMA NavigateKeeps ==
    ASSUME RouterInv, NEW c \in 1..Slots, NEW p \in Links, Navigate(c, p)
    PROVE  RouterInv'
<1>1. p \in Routed \cup Unknown
  BY RouterAssumption
<1>2. ViewOK'
  BY <1>1, EnterKeeps DEF Navigate, Ready, Slot, Idle
<1>3. /\ doc' = "ready" /\ dispatching' \in Nat /\ hops' \in Nat
      /\ {cookie', user', installed', claimed', signing', sent'} \subseteq BOOLEAN
      /\ signing' => sent'
  BY Outside DEF Navigate, Ready, Hop, env
<1> QED  BY <1>2, <1>3, WholeOfParts

LEMMA RefreshKeeps ==
    ASSUME RouterInv, NEW c \in 1..Slots, Refresh(c)
    PROVE  RouterInv'
<1>1. location' \in Routed /\ location' = location
  BY PathsAre DEF Refresh
<1>2. ViewOK'
  BY <1>1, LeavingClears, LeavingKeeps DEF Refresh
<1>3. /\ doc' = "ready" /\ dispatching' \in Nat /\ hops' \in Nat
      /\ {cookie', user', installed', claimed', signing', sent'} \subseteq BOOLEAN
      /\ signing' => sent'
  BY Outside DEF Refresh, Ready, Hop, env
<1> QED  BY <1>2, <1>3, WholeOfParts

LEMMA StatusKeeps ==
    ASSUME RouterInv, NEW c \in 1..Slots, NEW fails \in BOOLEAN, StatusAnswered(c, fails)
    PROVE  RouterInv'
<1> DEFINE p == visits[c].path
           q == IF fails THEN p ELSE Redirect(p)
<1>1. Ready /\ visits[c].at = "status" /\ UNCHANGED <<env, dispatching>>
  BY DEF StatusAnswered
<1>2. /\ p \in {"light", "posts", "login", "setup"}
      /\ p \in Routed
      /\ visits[c] # Free
      /\ c \notin Idle
  BY <1>1, Entries DEF RouterInv, Guarded, Routed, Public, Light, Unknown, Idle
<1>3. CASE q # p
  <2>1. q \in {"light", "setup"}
    BY <1>2, <1>3 DEF Redirect
  <2>2. ViewOK'
    BY <1>1, <1>3, <2>1, PathsAre, EnterKeeps DEF StatusAnswered, Ready
  <2>3. UNCHANGED <<doc, user, hops, signing, sent>>
    BY <1>3 DEF StatusAnswered
  <2> QED  BY <1>1, <2>2, <2>3, Outside, WholeOfParts DEF Ready, env
<1>4. CASE q = p /\ Barred(p)
  <2>1. HardLoad("login") /\ UNCHANGED hops
    BY <1>4 DEF StatusAnswered
  <2> QED  BY <1>1, <2>1, Outside, PathsAre, LoadKeeps DEF Ready, env
<1>5. CASE q = p /\ ~Barred(p)
  <2>1. Resolve(c, p) /\ UNCHANGED <<doc, location, user, hops, signing, sent>>
    BY <1>5 DEF StatusAnswered
  <2>2. p \notin Refreshes
    BY <1>2 DEF Refreshes
  <2>3. overtaken' \/ p = location'
    <3>1. overtaken => overtaken'
      BY <2>1 DEF Resolve, Call
    <3> QED  BY <1>2, <2>1, <3>1 DEF RouterInv, Followed
  <2>4. ViewOK'
    BY <1>1, <1>2, <2>1, <2>2, <2>3, Outside, ResolveKeeps DEF Ready
  <2> QED  BY <1>1, <2>1, <2>4, Outside, WholeOfParts DEF Ready, env
<1> QED  BY <1>3, <1>4, <1>5

(* The page that is made is the current one, and the call is over, or it   *)
(* goes on to where the page sends the reader.                             *)
LEMMA MountPageKeeps ==
    ASSUME RouterInv, NEW c \in 1..Slots, NEW i \in 1..Pages, MountPage(c, i)
    PROVE  RouterInv'
<1> DEFINE p == visits[c].path
<1>1. /\ Ready /\ visits[c].at = "load" /\ i \notin Alive
      /\ UNCHANGED <<doc, user, env, hops, dispatching, signing, sent>>
  BY DEF MountPage
<1>2. p \in Routed /\ visits[c] # Free /\ c \notin Idle
  <2>1. visits[c] \in Visit /\ visits[c] # Free
    <3>1. Free.at = "none"
      BY DEF Free
    <3>2. visits[c] # Free
      BY <1>1, <3>1
    <3> QED  BY <3>2, Entries DEF RouterInv
  <2>2. \A x \in Visit : x.path \in Routed
    BY DEF Visit
  <2> QED  BY <1>1, <2>1, <2>2 DEF Idle
<1>3. ~overtaken => p = location /\ showing = None
  BY <1>1, <1>2 DEF RouterInv, Followed
<1>4. Gone.forms = 0 /\ Free.at = "none"
  BY DEF Gone, Free
<1>5. CASE p = "tags" /\ ~claimed
  <2> DEFINE v == [path |-> "home", at |-> "load"]
  <2>1. v \in Visit /\ v # Free /\ v.at = "load" /\ v.path = "home"
    BY PathsAre DEF Visit, Free
  <2>2. /\ location' = "home" /\ showing' = None /\ screen' = None
        /\ UNCHANGED <<pages, keydowns>>
        /\ Call(c, v)
    BY <1>5 DEF MountPage
  <2> HIDE DEF v
  <2>3. /\ visits' \in [1..Slots -> {Free} \cup Visit]
        /\ visits'[c] = v
        /\ \A d \in 1..Slots : d # c => visits'[d] = visits[d]
        /\ overtaken' \in BOOLEAN
        /\ ~overtaken' => ~overtaken /\ \A d \in (1..Slots) \ Idle' : d = c
    BY <2>1, <2>2, CallKeeps
  <2>4. Guarded'
    BY <2>1, <2>3 DEF Guarded, RouterInv
  <2>5. Followed'
    <3>1. Alive' = Alive
      BY <2>2 DEF Alive
    <3> QED  BY <1>3, <2>1, <2>2, <2>3, <3>1 DEF Followed, RouterInv, Quiet
  <2>6. ViewOK'
    BY <2>2, <2>3, <2>4, <2>5, <1>1, ViewIsPart, PathsAre DEF ViewOK
  <2> QED  BY <1>1, <2>6, Outside, WholeOfParts DEF Ready, env
<1>6. CASE ~(p = "tags" /\ ~claimed)
  <2>1. /\ pages' = [pages EXCEPT ![i] = NewPage(p)]
        /\ showing' = i /\ screen' = i /\ keydowns' = keydowns
        /\ \/ /\ p = "login" /\ location' = "light"
              /\ Call(c, [path |-> "light", at |-> "status"])
           \/ location' = location /\ Call(c, Free)
    BY <1>6 DEF MountPage
  <2>2. NewPage(p) \in Instance /\ NewPage(p).forms <= 1 /\ NewPage(p).path = p
    BY <1>2 DEF NewPage, Instance
  <2>3. /\ pages' \in [1..Pages -> {Gone} \cup Instance]
        /\ pages'[i] = NewPage(p) /\ pages'[i] # Gone
        /\ \A j \in 1..Pages : j # i => pages'[j] = pages[j]
        /\ i # None
    BY <2>1, <2>2, GoneIsNoInstance DEF RouterInv, RouterTypeOK, Instance, None
  <2>4. ~overtaken => Alive' = {i}
    BY <1>3, <2>3 DEF Alive, RouterInv, Followed, None
  <2>5. ~sent' => keydowns' = 0 /\ \A j \in 1..Pages : pages'[j].forms <= 1
    BY <1>1, <2>1, <2>2, <2>3 DEF RouterInv, FormsReleased
  <2> DEFINE v == visits'[c]
             w == [path |-> "light", at |-> "status"]
  <2>6. w \in Visit /\ w # Free /\ w.at = "status" /\ w.path = "light"
    BY PathsAre DEF Visit, Free
  <2> HIDE DEF w
  <2>7. /\ v \in {Free} \cup Visit /\ Call(c, v)
        /\ v # Free => v.at = "status" /\ v.path = "light" /\ location' = "light"
        /\ v = Free => location' = location
        /\ location' \in Routed \cup Unknown
    <3>1. CASE location' = "light" /\ Call(c, w)
      BY <2>6, <3>1, CallKeeps, PathsAre
    <3>2. CASE location' = location /\ Call(c, Free)
      BY <3>2, CallKeeps, Outside
    <3> QED  BY <2>1, <3>1, <3>2 DEF w
  <2> HIDE DEF v
  <2>8. /\ visits' \in [1..Slots -> {Free} \cup Visit]
        /\ visits'[c] = v
        /\ \A d \in 1..Slots : d # c => visits'[d] = visits[d]
        /\ overtaken' \in BOOLEAN
        /\ ~overtaken' => ~overtaken /\ \A d \in (1..Slots) \ Idle' : d = c
    BY <2>7, CallKeeps
  <2>9. Guarded'
    BY <1>4, <2>7, <2>8 DEF Guarded, RouterInv
  <2>10. Followed'
    <3> SUFFICES ASSUME ~overtaken'
                 PROVE  /\ \A d \in (1..Slots) \ Idle' :
                             visits'[d].path = location' /\ visits'[d].at # "load"
                        /\ Alive' \subseteq {showing'}
                        /\ screen' = showing'
                        /\ Quiet' => pages'[showing'].path = location'
      BY <2>8 DEF Followed
    <3>1. Alive' = {i} /\ showing' = i /\ screen' = i
      BY <2>1, <2>4, <2>8
    <3>2. \A d \in (1..Slots) \ Idle' : d = c /\ v # Free
      BY <2>8 DEF Idle
    <3>3. Quiet' => v = Free
      BY <2>8 DEF Quiet, Idle
    <3> QED  BY <1>3, <2>2, <2>3, <2>7, <2>8, <3>1, <3>2, <3>3
  <2>11. ViewOK'
    BY <2>1, <2>3, <2>5, <2>7, <2>8, <2>9, <2>10, ViewIsPart DEF ViewOK
  <2> QED  BY <1>1, <2>11, Outside, WholeOfParts DEF Ready, env
<1> QED  BY <1>5, <1>6

LEMMA LoadFailsKeeps ==
    ASSUME RouterInv, NEW c \in 1..Slots, LoadFails(c)
    PROVE  RouterInv'
<1>1. Ready /\ Hop /\ UNCHANGED <<doc, user, env, dispatching, signing, sent>>
  BY DEF LoadFails
<1>2. ViewOK'
  <2>1. CASE Enter(c, "light")
    BY <1>1, <2>1, EnterKeeps, PathsAre DEF Ready
  <2>2. CASE Fallback(c) /\ UNCHANGED location
    <3>1. Cleared /\ Call(c, Free) /\ "light" \in Routed
      BY <2>2, LeavingClears, PathsAre DEF Fallback
    <3> QED  BY <1>1, <2>2, <3>1, Outside, LeavingKeeps
  <2> QED  BY <2>1, <2>2 DEF LoadFails
<1> QED  BY <1>1, <1>2, Outside, WholeOfParts DEF Ready, Hop, env

LEMMA AcceptedKeeps ==
    ASSUME RouterInv, NEW c \in 1..Slots, Accepted(c)
    PROVE  RouterInv'
<1>1. ViewOK'
  BY EnterKeeps, PathsAre DEF Accepted, Ready
<1> QED  BY <1>1, Outside, WholeOfParts DEF Accepted, Ready

LEMMA EscapeKeeps ==
    ASSUME RouterInv, NEW c \in 1..Slots, Escape(c)
    PROVE  RouterInv'
<1>1. ViewOK'
  BY EnterKeeps, PathsAre DEF Escape, Ready, Slot, Idle
<1>2. Listening \in 1..Cardinality(Idle) /\ dispatching' = Listening - 1
  BY DEF Escape
<1>3. dispatching' \in Nat
  <2> DEFINE n == Cardinality(Idle)
  <2>1. Idle \subseteq 1..Slots /\ IsFiniteSet(1..Slots)
    BY RouterAssumption, FS_Interval DEF Idle
  <2>2. n \in Nat
    BY <2>1, FS_Subset, FS_CardinalityType
  <2> HIDE DEF n
  <2> QED  BY <1>2, <2>2 DEF n
<1> QED  BY <1>1, <1>3, Outside, WholeOfParts DEF Escape, Ready, Hop, env

LEMMA EscapeGoesOnKeeps ==
    ASSUME RouterInv, NEW c \in 1..Slots, EscapeGoesOn(c)
    PROVE  RouterInv'
<1>1. doc = "ready" /\ dispatching' \in Nat
  BY Outside DEF EscapeGoesOn
<1>2. ViewOK'
  BY <1>1, EnterKeeps, PathsAre DEF EscapeGoesOn, Slot, Idle
<1> QED  BY <1>1, <1>2, Outside, WholeOfParts DEF EscapeGoesOn, env

LEMMA PageAnsweredKeeps ==
    ASSUME RouterInv, NEW i \in 1..Pages, PageAnswered(i)
    PROVE  RouterInv'
<1>1. /\ Ready /\ pages[i].fetching
      /\ pages' = [pages EXCEPT ![i].fetching = FALSE] /\ screen' = i
      /\ UNCHANGED <<doc, location, user, env, visits, showing, keydowns, hops,
                     overtaken, dispatching, signing, sent>>
  BY DEF PageAnswered
<1> DEFINE page == [pages[i] EXCEPT !.fetching = FALSE]
<1>2. pages[i] # Gone /\ pages[i] \in Instance
  <2>1. Gone.fetching = FALSE
    BY DEF Gone
  <2>2. pages[i] # Gone
    BY <1>1, <2>1
  <2> QED  BY <2>2, Entries DEF RouterInv
<1>3. page \in Instance /\ page.path = pages[i].path /\ page.forms = pages[i].forms
  BY <1>2 DEF Instance
<1>4. pages' = [pages EXCEPT ![i] = page] /\ pages \in [1..Pages -> {Gone} \cup Instance]
  BY <1>1 DEF RouterInv, RouterTypeOK, Instance
<1> HIDE DEF page
<1>5. /\ pages' \in [1..Pages -> {Gone} \cup Instance]
      /\ pages'[i].path = pages[i].path
      /\ pages'[i].forms = pages[i].forms
      /\ \A j \in 1..Pages : j # i => pages'[j] = pages[j]
      /\ \A j \in 1..Pages : pages'[j] = Gone <=> pages[j] = Gone
  BY <1>2, <1>3, <1>4, GoneIsNoInstance
<1>6. Alive' = Alive /\ i \in Alive /\ Idle' = Idle /\ (Quiet' <=> Quiet)
  BY <1>1, <1>2, <1>5 DEF Alive, Idle, Quiet
<1>7. Followed'
  <2>1. ~overtaken => showing = i /\ i # None
    BY <1>6 DEF RouterInv, Followed, None, Alive
  <2> QED  BY <1>1, <1>5, <1>6, <2>1 DEF Followed, RouterInv
<1>8. ~sent' => keydowns' = 0 /\ \A j \in 1..Pages : pages'[j].forms <= 1
  BY <1>1, <1>5 DEF RouterInv, FormsReleased
<1>9. ViewOK'
  <2>1. i \in {j \in 1..Pages : pages'[j] # Gone}
    BY <1>2, <1>5
  <2>2. showing \in {None} \cup {j \in 1..Pages : pages'[j] # Gone}
    BY <1>5 DEF RouterInv, RouterTypeOK
  <2>3. Guarded'
    BY <1>1 DEF Guarded, RouterInv
  <2> QED  BY <1>1, <1>5, <1>7, <1>8, <2>1, <2>2, <2>3, ViewIsPart DEF ViewOK
<1> QED  BY <1>1, <1>9, Outside, WholeOfParts DEF Ready, env

(* The form of page i binds one more listener and is written.              *)
FormAgain(i) ==
    /\ pages[i] # Gone
    /\ pages' = [pages EXCEPT ![i].forms = @ + 1]
    /\ screen' = i
    /\ UNCHANGED <<location, visits, showing, keydowns, overtaken>>

LEMMA FormAgainKeeps ==
    ASSUME RouterInv, NEW i \in 1..Pages, FormAgain(i), doc' = doc, sent'
    PROVE  ViewOK'
<1> DEFINE page == [pages[i] EXCEPT !.forms = @ + 1]
<1>1. pages[i] # Gone /\ pages[i] \in Instance
  BY Entries DEF RouterInv, FormAgain
<1>2. page \in Instance /\ page.path = pages[i].path
  BY <1>1 DEF Instance
<1>3. pages' = [pages EXCEPT ![i] = page] /\ pages \in [1..Pages -> {Gone} \cup Instance]
  BY DEF FormAgain, RouterInv, RouterTypeOK, Instance
<1> HIDE DEF page
<1>4. /\ pages' \in [1..Pages -> {Gone} \cup Instance]
      /\ pages'[i].path = pages[i].path
      /\ \A j \in 1..Pages : j # i => pages'[j] = pages[j]
      /\ \A j \in 1..Pages : pages'[j] = Gone <=> pages[j] = Gone
  BY <1>1, <1>2, <1>3, GoneIsNoInstance
<1>5. Alive' = Alive /\ i \in Alive /\ Idle' = Idle /\ (Quiet' <=> Quiet)
  BY <1>1, <1>4 DEF Alive, Idle, Quiet, FormAgain
<1>6. Followed'
  <2>1. ~overtaken => showing = i /\ i # None
    BY <1>5 DEF RouterInv, Followed, None, Alive
  <2> QED  BY <1>4, <1>5, <2>1 DEF Followed, RouterInv, FormAgain
<1>7. Guarded'
  BY DEF Guarded, RouterInv, FormAgain
<1>8. /\ i \in {j \in 1..Pages : pages'[j] # Gone}
      /\ showing \in {None} \cup {j \in 1..Pages : pages'[j] # Gone}
  BY <1>1, <1>4 DEF RouterInv, RouterTypeOK
<1> QED  BY <1>4, <1>6, <1>7, <1>8, ViewIsPart DEF ViewOK, FormAgain

LEMMA SubmitKeeps ==
    ASSUME RouterInv, NEW i \in 1..Pages, Submit(i)
    PROVE  RouterInv'
<1>1. /\ Ready /\ Hop /\ sent' = TRUE /\ signing' = TRUE /\ FormAgain(i)
      /\ UNCHANGED <<doc, user, env, dispatching>>
  <2>1. i = showing
    BY DEF Submit
  <2>2. pages[i] # Gone
    BY <2>1 DEF RouterInv, RouterTypeOK, None
  <2> QED  BY <2>2 DEF Submit, FormAgain
<1> QED  BY <1>1, FormAgainKeeps, Outside, WholeOfParts DEF Ready, Hop, env

(* What nothing but the outside changes keeps its part of the invariant.   *)
LEMMA ViewStays ==
    ASSUME RouterInv, UNCHANGED <<doc, location, visits, view, sent, overtaken>>
    PROVE  ViewOK'
<1>1. Followed' /\ Guarded'
  BY DEF RouterInv, Followed, Guarded, view, Quiet, Idle, Alive
<1> QED  BY <1>1, ViewIsPart DEF ViewOK, view

LEMMA RefusedKeeps == ASSUME RouterInv, Refused PROVE RouterInv'
<1>1. /\ Ready /\ signing /\ signing' = FALSE
      /\ UNCHANGED <<doc, location, user, env, visits, showing, keydowns, hops,
                     overtaken, dispatching, sent>>
  BY DEF Refused
<1>2. sent
  BY <1>1, Outside
<1>3. PICK i \in Alive \cup {None} :
          /\ pages' = IF i = None THEN pages ELSE [pages EXCEPT ![i].forms = @ + 1]
          /\ screen' = IF i = None THEN screen ELSE i
  BY DEF Refused
<1>4. ViewOK'
  <2>1. CASE i = None
    BY <1>1, <1>3, <2>1, ViewStays DEF view
  <2>2. CASE i # None
    BY <1>1, <1>2, <1>3, <2>2, FormAgainKeeps DEF FormAgain, Alive
  <2> QED  BY <2>1, <2>2
<1> QED  BY <1>1, <1>2, <1>4, Outside, WholeOfParts DEF Ready, env

LEMMA SessionKeeps == ASSUME RouterInv, SessionEnds \/ SignOut \/ SetUp PROVE RouterInv'
<1>1. CASE SessionEnds
  <2>1. ViewOK'
    BY <1>1, ViewStays DEF SessionEnds
  <2>2. /\ Ready /\ Hop
        /\ UNCHANGED <<doc, user, installed, claimed, dispatching, signing, sent>>
    BY <1>1 DEF SessionEnds
  <2>3. cookie' \in BOOLEAN
    BY <1>1 DEF SessionEnds
  <2> QED  BY <2>1, <2>2, <2>3, Outside, WholeOfParts DEF Ready, Hop
<1>2. CASE SignOut
  <2>1. /\ dispatching = 0 /\ dispatching' = 0 /\ HardLoad("home")
        /\ hops' \in Nat /\ {cookie', installed', claimed'} \subseteq BOOLEAN
    <3>1. /\ Ready /\ Hop /\ HardLoad("home")
          /\ UNCHANGED <<installed, claimed, dispatching>>
      BY <1>2 DEF SignOut
    <3>2. cookie' \in BOOLEAN
      BY <1>2 DEF SignOut
    <3> QED  BY <3>1, <3>2, Outside DEF Ready, Hop
  <2> QED  BY <2>1, LoadKeeps, PathsAre
<1>3. CASE SetUp
  <2>1. /\ dispatching = 0 /\ dispatching' = 0 /\ HardLoad("light")
        /\ hops' \in Nat /\ {cookie', installed', claimed'} \subseteq BOOLEAN
    BY <1>3, Outside DEF SetUp, Ready, Hop
  <2> QED  BY <2>1, LoadKeeps, PathsAre
<1> QED  BY <1>1, <1>2, <1>3

LEMMA UnauthorizedKeeps ==
    ASSUME RouterInv, NEW i \in 1..Pages, Unauthorized(i)
    PROVE  RouterInv'
BY LoadKeeps, Outside, PathsAre DEF Unauthorized, Ready, env

(* The invariant of the router.                                            *)
THEOREM RouterInvariant == RouterSpec => []RouterInv
<1>1. RouterInit => RouterInv
  <2> SUFFICES ASSUME RouterInit PROVE RouterInv
    OBVIOUS
  <2>1. /\ \A c \in 1..Slots : visits[c] = Free
        /\ \A i \in 1..Pages : pages[i] = Gone
        /\ Idle = 1..Slots /\ Alive = {}
    BY DEF RouterInit, Idle, Alive
  <2>2. Gone.forms = 0 /\ Free.at = "none"
    BY DEF Gone, Free
  <2>3. RouterTypeOK
    <3>1. /\ visits \in [1..Slots -> {Free} \cup [path : Routed, at : {"status", "load"}]]
          /\ pages \in [1..Pages -> {Gone} \cup
                               [path : Routed, fetching : BOOLEAN, forms : Nat]]
      BY DEF RouterInit
    <3>2. location \in Routed \cup Unknown
      BY RouterAssumption DEF RouterInit
    <3>3. /\ cookie \in BOOLEAN /\ user \in BOOLEAN
          /\ installed \in BOOLEAN /\ claimed \in BOOLEAN
          /\ signing \in BOOLEAN /\ sent \in BOOLEAN /\ overtaken \in BOOLEAN
      BY Zenon DEF RouterInit
    <3>4. /\ doc = "boot" /\ showing = None /\ screen = None
          /\ keydowns = 0 /\ dispatching = 0 /\ hops = 0
      BY DEF RouterInit
    <3> QED  BY <3>1, <3>2, <3>3, <3>4 DEF RouterTypeOK
  <2> QED  BY <2>1, <2>2, <2>3
         DEF RouterInit, RouterInv, Booting, Escaping, FormsReleased, Guarded, Followed, Quiet
<1>2. RouterInv /\ [RouterNext]_routerVars => RouterInv'
  <2> SUFFICES ASSUME RouterInv, [RouterNext]_routerVars PROVE RouterInv'
    OBVIOUS
  <2>1. CASE RouterNext
    BY <2>1, BootstrapKeeps, SessionKeeps, RefusedKeeps, NavigateKeeps, RefreshKeeps,
       StatusKeeps, MountPageKeeps, LoadFailsKeeps, AcceptedKeeps, EscapeKeeps,
       EscapeGoesOnKeeps, PageAnsweredKeeps, UnauthorizedKeeps, SubmitKeeps
       DEF RouterNext
  <2>2. CASE UNCHANGED routerVars
    <3>1. ViewOK'
      BY <2>2, ViewStays DEF routerVars
    <3>2. RouterTypeOK'
      BY <2>2 DEF RouterInv, RouterTypeOK, routerVars, env, view
    <3> QED  BY <2>2, <3>1, <3>2 DEF RouterInv, ViewOK, Booting, Escaping, FormsReleased,
                 Idle, Alive, routerVars, view
  <2> QED  BY <2>1, <2>2
<1> QED  BY <1>1, <1>2, PTL DEF RouterSpec

(* The type invariant of the router.                                       *)
THEOREM RouterIsTyped == RouterSpec => []RouterTypeOK
<1>1. RouterInv => RouterTypeOK
  BY DEF RouterInv
<1> QED  BY <1>1, RouterInvariant, PTL

(* Whatever the reader, the network and the session do, and however many   *)
(* calls of _render and pages there may be: unless one call overtook       *)
(* another, the page the reader sees once the router rests is the page of  *)
(* the address and no other page lives (router.ts, _render), and a sign-in *)
(* form that was never sent leaves no Escape listener behind               *)
(* (LoginPage.ts).                                                         *)
THEOREM RouterHolds == RouterSpec => []RouterKept
<1>1. RouterInv => RouterKept
  <2> SUFFICES ASSUME RouterInv PROVE RouterKept
    OBVIOUS
  <2>1. screen \in Alive => screen # None
    BY DEF Alive, None
  <2> QED  BY <2>1 DEF RouterInv, Followed, FormsReleased, RouterKept,
                       ShownIsAddressed, EscapeIsReleased
<1> QED  BY <1>1, RouterInvariant, PTL

-----------------------------------------------------------------------------
(***************************************************************************)
(* The service worker, for any number of builds, shares and deeds.         *)
(***************************************************************************)

(* Nothing is of a build that was not deployed; a copy of a script is no   *)
(* older than the document it was asked for, nor younger while the server  *)
(* runs that document's build.                                             *)
Aged ==
    /\ \A e \in shell : e.holds <= build /\ (e.url = "script" => e.key <= e.holds)
    /\ \A r \in refresh : r[2] <= build
    /\ tab.html <= build
    /\ tab.phase = "script" => tab.html # 0

(* What a document that nothing raced has from the server is of one build. *)
Fresh ==
    ~raced =>
        /\ Loading => link = "up"
        /\ tab.phase = "script" => tab.html = build
        /\ tab.phase = "ready" => tab.html = tab.app

(* A worker that is past its install has tried every URL; one that runs    *)
(* has its page, or has it still to fetch, and at most one is in charge.   *)
Stocked ==
    /\ \A v \in Build : worker[v] \in {"waiting", "activating", "active"} => toAdd[v] = {}
    /\ \A v \in Build \ patchy :
        worker[v] # "none" => "page" \in toAdd[v] \/ Found(v, "page", 0) # {}
    /\ \A v, w \in Build :
        {worker[v], worker[w]} \subseteq {"activating", "active"} => v = w

(* The pictures there are, with those still to come, have one generation   *)
(* of thumbnails and are some.                                             *)
Gathered(pictures) ==
    /\ pictures # {}
    /\ \A p, q \in pictures : p.cache = "thumbs" /\ q.cache = "thumbs" => p.gen = q.gen

Filling == download.step \in {"thumbs", "originals", "stamp"}

Stored ==
    /\ ~frayed => IF Filling THEN Gathered(images \cup download.left)
                  ELSE lastSync => Gathered(images)
    /\ download.step = "stamp" => download.left = {}

(* What was read of the store is what it holds, or something was stored    *)
(* since.                                                                  *)
Read ==
    /\ answer.torn => answer.over /\ answer.step = "done"
    /\ answer.step = "posts" => answer.over \/ answer.tags = snapshot

(* What is queued is what the editor at work has read, or it is dealt with.*)
Queued ==
    /\ SharesAreKept
    /\ \A e \in Editor :
        /\ editors[e].step \in {"insert", "drafts"} =>
              inbox \subseteq editors[e].entries \cup kept \cup trampled
        /\ editors[e].step = "clear" => inbox \subseteq kept \cup trampled

(* The state in three parts: the builds, workers and documents; what is    *)
(* kept to be read without a network; and the shares.                      *)
shellVars == <<build, gen, link, worker, toAdd, shell, orphan, patchy, refresh, tab, raced>>
storeVars == <<frayed, download, images, lastSync, answer, snapshot>>
shareVars == <<shared, inbox, editors, kept, trampled>>

ShellTyped ==
    /\ build \in Build /\ gen \in 0..1 /\ link \in {"up", "deaf", "down"}
    /\ worker \in [Build -> {"none", "installing", "waiting", "activating", "active"}]
    /\ toAdd \in [Build -> SUBSET Url]
    /\ shell \subseteq Entry /\ refresh \subseteq Build \X Build
    /\ orphan \subseteq Build /\ patchy \subseteq Build
    /\ tab \in [phase : {"closed", "page", "script", "ready"}, via : 0..Builds, html : 0..Builds,
                app : 0..Builds, gen : 0..1]
    /\ raced \in BOOLEAN

StoreTyped ==
    /\ snapshot \in 0..MaxDeeds /\ lastSync \in BOOLEAN /\ frayed \in BOOLEAN
    /\ images \subseteq Picture
    /\ download \in [step : {"none", "fetch", "save", "clear", "thumbs", "originals", "stamp"},
                     left : SUBSET Picture]
    /\ answer \in [step : {"none", "tags", "posts", "done"}, tags : 0..MaxDeeds,
                   posts : 0..MaxDeeds, over : BOOLEAN, torn : BOOLEAN]

ShareTyped ==
    /\ shared \subseteq Shares /\ inbox \subseteq shared
    /\ kept \subseteq Shares /\ trampled \subseteq Shares
    /\ editors \in [Editor -> EditorState]

ShellPart == ShellTyped /\ Aged /\ Fresh /\ Stocked
StorePart == StoreTyped /\ Stored /\ Read
SharePart == ShareTyped /\ Queued

WorkerInv == ShellPart /\ StorePart /\ SharePart /\ deeds \in 0..MaxDeeds

LEMMA TypesAreParts ==
    WorkerTypeOK <=> ShellTyped /\ StoreTyped /\ ShareTyped /\ deeds \in 0..MaxDeeds
BY DEF WorkerTypeOK, ShellTyped, StoreTyped, ShareTyped

(* What a step leaves alone is as it was.                                  *)
LEMMA ShellStaysAsIs == ShellPart /\ UNCHANGED shellVars => ShellPart'
BY DEF ShellPart, shellVars, ShellTyped, Aged, Fresh, Stocked, Loading, Found

LEMMA StoreStaysAsIs == StorePart /\ UNCHANGED storeVars => StorePart'
BY DEF StorePart, storeVars, StoreTyped, Stored, Read, Filling, Gathered

LEMMA SharesStayAsIs == SharePart /\ UNCHANGED shareVars => SharePart'
BY DEF SharePart, shareVars, ShareTyped, Queued, SharesAreKept

LEMMA DeedsStay ==
    deeds \in 0..MaxDeeds /\ (Deed \/ UNCHANGED deeds) => deeds' \in 0..MaxDeeds
BY WorkerAssumption DEF Deed

LEMMA BuildsAre == 0 \in 0..Builds /\ 1 \in Build /\ Build \subseteq 0..Builds /\ Build \subseteq Nat
BY WorkerAssumption DEF Build

(* An entry of a cache takes the place of the one with its key.            *)
LEMMA PutReplaces ==
    ASSUME NEW entries, NEW new
    PROVE  /\ new \in Put(entries, new)
           /\ \A e \in Put(entries, new) : e = new \/ e \in entries
           /\ \A e \in entries :
                <<e.in, e.url, e.key>> = <<new.in, new.url, new.key>> \/ e \in Put(entries, new)
BY DEF Put

(* What a page or a script that is put into a cache leaves of Aged and of  *)
(* the pages that are there.                                               *)
LEMMA PutKeeps ==
    ASSUME ShellTyped, Aged, NEW v \in Build, NEW url \in Url, NEW key \in 0..Builds,
           key <= build,
           shell' = Put(shell, [in |-> v, url |-> url, key |-> key, holds |-> build])
    PROVE  /\ shell' \subseteq Entry
           /\ \A e \in shell' : e.holds <= build /\ (e.url = "script" => e.key <= e.holds)
           /\ \A w \in Build : Found(w, "page", 0) # {} => Found(w, "page", 0)' # {}
           /\ url = "page" /\ key = 0 => Found(v, "page", 0)' # {}
<1> DEFINE new == [in |-> v, url |-> url, key |-> key, holds |-> build]
<1>1. new \in Entry /\ new.holds = build /\ new.key = key /\ new.in = v /\ new.url = url
  BY DEF Entry, ShellTyped
<1>2. build <= build
  BY DEF ShellTyped, Build
<1> HIDE DEF new
<1>3. shell' = Put(shell, new)
  BY DEF new
<1>4. /\ new \in shell'
      /\ \A e \in shell' : e = new \/ e \in shell
      /\ \A e \in shell : <<e.in, e.url, e.key>> = <<new.in, new.url, new.key>> \/ e \in shell'
  BY <1>3, PutReplaces
<1>5. shell' \subseteq Entry
  BY <1>1, <1>4 DEF ShellTyped
<1>6. \A e \in shell' : e.holds <= build /\ (e.url = "script" => e.key <= e.holds)
  BY <1>1, <1>2, <1>4 DEF Aged
<1>7. ASSUME NEW w \in Build, NEW e \in Found(w, "page", 0)
      PROVE  Found(w, "page", 0)' # {}
  <2>1. e \in shell /\ e.in = w /\ e.url = "page" /\ e.key = 0
    BY DEF Found
  <2>2. CASE e \in shell'
    BY <2>1, <2>2 DEF Found
  <2>3. CASE <<e.in, e.url, e.key>> = <<new.in, new.url, new.key>>
    BY <2>1, <2>3, <1>4 DEF Found
  <2> QED  BY <2>1, <2>2, <2>3, <1>4
<1>8. url = "page" /\ key = 0 => Found(v, "page", 0)' # {}
  BY <1>1, <1>4 DEF Found
<1> QED  BY <1>5, <1>6, <1>7, <1>8

(* The world.                                                              *)
LEMMA DeployKeeps == ShellPart /\ Deploy => ShellPart'
<1> SUFFICES ASSUME ShellPart, Deploy PROVE ShellPart'
  OBVIOUS
<1>1. /\ build' = build + 1 /\ build < Builds /\ raced' = (raced \/ Loading)
      /\ UNCHANGED <<gen, link, worker, toAdd, shell, orphan, patchy, refresh, tab>>
  BY DEF Deploy, workers
<1>2. build \in Nat /\ build' \in Build /\ build <= build'
  BY <1>1, WorkerAssumption DEF ShellPart, ShellTyped, Build
<1>3. ShellTyped'
  BY <1>1, <1>2 DEF ShellPart, ShellTyped
<1>4. Aged'
  <2>1. \A e \in shell : e.holds \in Nat
    BY DEF ShellPart, ShellTyped, Entry, Build
  <2>2. \A r \in refresh : r[2] \in Nat
    BY DEF ShellPart, ShellTyped, Build
  <2>3. tab.html \in Nat
    BY DEF ShellPart, ShellTyped
  <2> QED  BY <1>1, <1>2, <2>1, <2>2, <2>3 DEF ShellPart, Aged
<1>5. Fresh'
  <2> SUFFICES ASSUME ~raced'
               PROVE  ~Loading' /\ (tab'.phase = "ready" => tab'.html = tab'.app)
    BY DEF Fresh, Loading
  <2> QED  BY <1>1 DEF ShellPart, Fresh, Loading
<1>6. Stocked'
  BY <1>1 DEF ShellPart, Stocked, Found
<1> QED  BY <1>3, <1>4, <1>5, <1>6 DEF ShellPart

LEMMA LinkKeeps ==
    ASSUME ShellPart, NEW state \in {"up", "deaf", "down"}, LinkBecomes(state)
    PROVE  ShellPart'
<1>1. /\ link' = state /\ raced' = (raced \/ Loading)
      /\ UNCHANGED <<build, gen, worker, toAdd, shell, orphan, patchy, refresh, tab>>
  BY DEF LinkBecomes, workers
<1>2. ShellTyped' /\ Aged' /\ Stocked'
  BY <1>1 DEF ShellPart, ShellTyped, Aged, Stocked, Found
<1>3. Fresh'
  BY <1>1 DEF ShellPart, Fresh, Loading
<1> QED  BY <1>2, <1>3 DEF ShellPart

(* The life of a worker: Aged and Fresh say nothing of it.                 *)
LEMMA WorkerLifeKeeps ==
    ASSUME ShellPart, UNCHANGED <<build, gen, link, tab, raced>>,
           shell' \subseteq shell, refresh' \subseteq refresh,
           ShellTyped', Stocked'
    PROVE  ShellPart'
BY DEF ShellPart, Aged, Fresh, Loading

LEMMA RegisterKeeps == ASSUME ShellPart, Register PROVE ShellPart'
<1>1. /\ worker[build] = "none"
      /\ worker' = [v \in Build |-> IF v = build THEN "installing"
                                    ELSE IF worker[v] = "waiting" THEN "none" ELSE worker[v]]
      /\ toAdd' = [toAdd EXCEPT ![build] = Url]
      /\ UNCHANGED <<build, gen, link, shell, orphan, patchy, refresh, tab, raced>>
  BY DEF Register, world
<1>2. build \in Build /\ "page" \in Url
  BY DEF ShellPart, ShellTyped, Url
<1>3. ShellTyped'
  <2>1. toAdd' \in [Build -> SUBSET Url]
    BY <1>1 DEF ShellPart, ShellTyped
  <2>2. worker' \in [Build -> {"none", "installing", "waiting", "activating", "active"}]
    BY <1>1 DEF ShellPart, ShellTyped
  <2> QED  BY <1>1, <2>1, <2>2 DEF ShellPart, ShellTyped
<1>4. \A v \in Build : Found(v, "page", 0)' = Found(v, "page", 0)
  BY <1>1 DEF Found
<1>5. \A v \in Build : toAdd'[v] = IF v = build THEN Url ELSE toAdd[v]
  BY <1>1 DEF ShellPart, ShellTyped
<1>6. Stocked'
  BY <1>1, <1>2, <1>4, <1>5 DEF ShellPart, Stocked
<1> QED  BY <1>1, <1>3, <1>6, WorkerLifeKeeps

LEMMA AddKeeps ==
    ASSUME ShellPart, NEW v \in Build, NEW url \in Url, Add(v, url)
    PROVE  ShellPart'
<1> DEFINE fetched == link = "up" /\ v \notin orphan
           new == [in |-> v, url |-> url, key |-> 0, holds |-> build]
<1>1. /\ worker[v] = "installing" /\ url \in toAdd[v]
      /\ toAdd' = [toAdd EXCEPT ![v] = @ \ {url}]
      /\ shell' = IF fetched THEN Put(shell, new) ELSE shell
      /\ patchy' = IF fetched \/ url # "page" THEN patchy ELSE patchy \cup {v}
      /\ UNCHANGED <<build, gen, link, worker, orphan, refresh, tab, raced>>
  BY DEF Add, world
<1>2. 0 \in 0..Builds /\ 0 <= build
  BY BuildsAre DEF ShellPart, ShellTyped, Build
<1>3. /\ shell' \subseteq Entry
      /\ \A e \in shell' : e.holds <= build /\ (e.url = "script" => e.key <= e.holds)
      /\ \A w \in Build : Found(w, "page", 0) # {} => Found(w, "page", 0)' # {}
      /\ fetched /\ url = "page" => Found(v, "page", 0)' # {}
  <2>1. CASE fetched
    <3>1. shell' = Put(shell, new)
      BY <1>1, <2>1
    <3> QED  BY <1>2, <3>1, PutKeeps DEF ShellPart
  <2>2. CASE ~fetched
    BY <1>1, <2>2 DEF ShellPart, ShellTyped, Aged, Found
  <2> QED  BY <2>1, <2>2
<1> HIDE DEF fetched, new
<1>4. \A w \in Build : toAdd'[w] = IF w = v THEN toAdd[v] \ {url} ELSE toAdd[w]
  BY <1>1 DEF ShellPart, ShellTyped
<1>5. ShellTyped'
  <2>1. toAdd' \in [Build -> SUBSET Url]
    BY <1>1 DEF ShellPart, ShellTyped
  <2> QED  BY <1>1, <1>3, <2>1 DEF ShellPart, ShellTyped
<1>6. Aged' /\ Fresh'
  BY <1>1, <1>3 DEF ShellPart, Aged, Fresh, Loading
<1>7. Stocked'
  <2>1. ASSUME NEW w \in Build, w \notin patchy', worker'[w] # "none"
        PROVE  "page" \in toAdd'[w] \/ Found(w, "page", 0)' # {}
    BY <1>1, <1>3, <1>4, <2>1 DEF ShellPart, Stocked
  <2> QED  BY <1>1, <1>4, <2>1 DEF ShellPart, Stocked
<1> QED  BY <1>5, <1>6, <1>7 DEF ShellPart

LEMMA InstalledKeeps ==
    ASSUME ShellPart, NEW v \in Build, Installed(v)
    PROVE  ShellPart'
<1>1. /\ worker[v] = "installing" /\ toAdd[v] = {}
      /\ worker' = [worker EXCEPT ![v] = "waiting"]
      /\ orphan' = orphan \ {v}
      /\ UNCHANGED <<build, gen, link, toAdd, shell, patchy, refresh, tab, raced>>
  BY DEF Installed, world
<1>2. ShellTyped'
  BY <1>1 DEF ShellPart, ShellTyped
<1>3. \A w \in Build : worker'[w] = IF w = v THEN "waiting" ELSE worker[w]
  BY <1>1 DEF ShellPart, ShellTyped
<1>4. Stocked'
  BY <1>1, <1>3 DEF ShellPart, Stocked, Found
<1> QED  BY <1>1, <1>2, <1>4, WorkerLifeKeeps

LEMMA ReplaceKeeps ==
    ASSUME ShellPart, NEW v \in Build, Replace(v)
    PROVE  ShellPart'
<1>1. /\ worker[v] = "waiting"
      /\ \A w \in Build : worker[w] # "activating"
      /\ worker' = [w \in Build |-> IF w = v THEN "activating"
                                    ELSE IF worker[w] = "active" THEN "none" ELSE worker[w]]
      /\ refresh' \subseteq refresh
      /\ UNCHANGED <<build, gen, link, toAdd, shell, orphan, patchy, tab, raced>>
  BY DEF Replace, world
<1>2. ShellTyped'
  BY <1>1 DEF ShellPart, ShellTyped
<1>3. Stocked'
  BY <1>1 DEF ShellPart, Stocked, Found
<1> QED  BY <1>1, <1>2, <1>3, WorkerLifeKeeps

LEMMA ActivateKeeps ==
    ASSUME ShellPart, NEW v \in Build, Activate(v)
    PROVE  ShellPart'
<1> DEFINE others == {w \in Build : worker[w] \in {"installing", "waiting"}}
<1>1. /\ worker[v] = "activating"
      /\ worker' = [worker EXCEPT ![v] = "active"]
      /\ shell' = {e \in shell : e.in = v}
      /\ patchy' = patchy \cup others
      /\ orphan' = orphan \cup {w \in others : worker[w] = "installing"}
      /\ UNCHANGED <<build, gen, link, toAdd, refresh, tab, raced>>
  BY DEF Activate, world
<1>2. ShellTyped'
  BY <1>1 DEF ShellPart, ShellTyped
<1>3. \A w \in Build : worker'[w] = IF w = v THEN "active" ELSE worker[w]
  BY <1>1 DEF ShellPart, ShellTyped
<1>4. \A w \in Build \ patchy' : worker'[w] # "none" => w = v
  <2> SUFFICES ASSUME NEW w \in Build \ patchy', worker[w] # "none", w # v PROVE FALSE
    BY <1>3
  <2>1. worker[w] \in {"activating", "active"}
    BY <1>1 DEF ShellPart, ShellTyped
  <2> QED  BY <1>1, <2>1 DEF ShellPart, Stocked
<1>5. Found(v, "page", 0)' = Found(v, "page", 0)
  BY <1>1 DEF Found
<1>6. Stocked'
  <2>1. \A w \in Build : worker'[w] \in {"waiting", "activating", "active"} => toAdd'[w] = {}
    BY <1>1, <1>3 DEF ShellPart, Stocked
  <2>2. \A w \in Build \ patchy' :
           worker'[w] # "none" => "page" \in toAdd'[w] \/ Found(w, "page", 0)' # {}
    BY <1>1, <1>4, <1>5 DEF ShellPart, Stocked
  <2>3. \A u, w \in Build :
           {worker'[u], worker'[w]} \subseteq {"activating", "active"} => u = w
    BY <1>1, <1>3 DEF ShellPart, Stocked
  <2> QED  BY <2>1, <2>2, <2>3 DEF Stocked
<1> QED  BY <1>1, <1>2, <1>6, WorkerLifeKeeps

(* A document and its script.                                              *)
LEMMA ViaIs == ShellTyped => Via \in 0..Builds
BY BuildsAre DEF ShellTyped, Via, Active

(* A tab that shows no script of a document needs little.                  *)
LEMMA EmptyTabKeeps ==
    ASSUME ShellPart, UNCHANGED <<build, gen, link, worker, toAdd, shell, orphan, patchy, refresh>>,
           raced' \in BOOLEAN,
           NEW via \in 0..Builds, NEW phase \in {"closed", "page"},
           tab' = [phase |-> phase, via |-> via, html |-> 0, app |-> 0, gen |-> 0],
           phase = "closed" \/ raced' \/ link = "up"
    PROVE  ShellPart'
<1>1. tab'.phase = phase /\ tab'.html = 0
  OBVIOUS
<1>2. tab' \in [phase : {"closed", "page", "script", "ready"}, via : 0..Builds,
                html : 0..Builds, app : 0..Builds, gen : 0..1]
  BY BuildsAre
<1>3. ShellTyped'
  BY <1>2 DEF ShellPart, ShellTyped
<1>4. 0 <= build
  BY DEF ShellPart, ShellTyped, Build
<1>5. Aged' /\ Fresh' /\ Stocked'
  BY <1>1, <1>4 DEF ShellPart, Aged, Fresh, Stocked, Loading, Found
<1> QED  BY <1>3, <1>5 DEF ShellPart

LEMMA OpenKeeps == ASSUME ShellPart, Open \/ Close PROVE ShellPart'
<1>1. UNCHANGED <<build, gen, link, worker, toAdd, shell, orphan, patchy, refresh>>
  BY DEF Open, Close, Cut, world, workers
<1>2. CASE Open
  <2>1. tab' = [phase |-> "page", via |-> Via, html |-> 0, app |-> 0, gen |-> 0]
    BY <1>2 DEF Open, NoTab
  <2>2. raced' \in BOOLEAN /\ (raced' \/ link = "up")
    BY <1>2 DEF Open
  <2> QED  BY <1>1, <2>1, <2>2, ViaIs, EmptyTabKeeps DEF ShellPart
<1>3. CASE Close
  BY <1>1, <1>3, BuildsAre, EmptyTabKeeps DEF Close, NoTab, ShellPart, ShellTyped
<1> QED  BY <1>2, <1>3

(* What a worker finds in its caches is of a build that was deployed.      *)
LEMMA CopiesAre ==
    ASSUME ShellPart, NEW e \in shell
    PROVE  e \in Entry /\ e.holds \in Build /\ e.holds <= build /\ e.holds # 0
           /\ e.holds \in 0..Builds /\ (e.url = "script" => e.key <= e.holds)
BY DEF ShellPart, ShellTyped, Aged, Entry, Build

(* The tab goes on, and a worker may have put what it fetched aside.       *)
LEMMA TabKeeps ==
    ASSUME ShellPart, UNCHANGED <<build, gen, link, worker, toAdd, orphan, patchy, raced>>,
           \/ UNCHANGED shell
           \/ \E v \in Build, url \in Url, key \in 0..Builds :
                /\ key <= build
                /\ shell' = Put(shell, [in |-> v, url |-> url, key |-> key, holds |-> build]),
           refresh' \subseteq Build \X Build, \A r \in refresh' : r[2] <= build,
           tab' \in [phase : {"closed", "page", "script", "ready"}, via : 0..Builds,
                     html : 0..Builds, app : 0..Builds, gen : 0..1],
           tab'.html <= build, tab'.phase = "script" => tab'.html # 0,
           Fresh'
    PROVE  ShellPart'
<1>1. /\ shell' \subseteq Entry
      /\ \A e \in shell' : e.holds <= build /\ (e.url = "script" => e.key <= e.holds)
      /\ \A w \in Build : Found(w, "page", 0) # {} => Found(w, "page", 0)' # {}
  <2>1. CASE UNCHANGED shell
    BY <2>1 DEF ShellPart, ShellTyped, Aged, Found
  <2>2. ASSUME NEW v \in Build, NEW url \in Url, NEW key \in 0..Builds, key <= build,
               shell' = Put(shell, [in |-> v, url |-> url, key |-> key, holds |-> build])
        PROVE  /\ shell' \subseteq Entry
               /\ \A e \in shell' : e.holds <= build /\ (e.url = "script" => e.key <= e.holds)
               /\ \A w \in Build : Found(w, "page", 0) # {} => Found(w, "page", 0)' # {}
    BY <2>2, PutKeeps DEF ShellPart
  <2> QED  BY <2>1, <2>2
<1>2. ShellTyped'
  BY <1>1 DEF ShellPart, ShellTyped
<1>3. Aged'
  BY <1>1 DEF Aged
<1>4. Stocked'
  BY <1>1 DEF ShellPart, Stocked
<1> QED  BY <1>2, <1>3, <1>4 DEF ShellPart

LEMMA DocumentKeeps == ASSUME ShellPart, DocumentAnswered PROVE ShellPart'
<1> DEFINE v == tab.via
           cached == IF v = 0 THEN {} ELSE Found(v, "page", 0)
           Loads(h) == [tab EXCEPT !.phase = "script", !.html = h, !.gen = gen, !.via = Via]
           Tabs == [phase : {"closed", "page", "script", "ready"}, via : 0..Builds,
                    html : 0..Builds, app : 0..Builds, gen : 0..1]
<1>1. /\ tab.phase = "page"
      /\ UNCHANGED <<build, gen, link, worker, toAdd, orphan, patchy, refresh, raced>>
      /\ IF link = "up"
         THEN /\ tab' = Loads(build)
              /\ shell' = IF v = 0 THEN shell
                          ELSE Put(shell, [in |-> v, url |-> "page", key |-> 0, holds |-> build])
         ELSE /\ tab' = IF cached = {} THEN NoTab
                        ELSE Loads((CHOOSE e \in cached : TRUE).holds)
              /\ UNCHANGED shell
  BY DEF DocumentAnswered, world
<1>2. tab \in Tabs /\ v \in 0..Builds /\ gen \in 0..1 /\ Via \in 0..Builds
      /\ build \in Build /\ build \in 0..Builds /\ build # 0 /\ build <= build /\ 0 <= build
  BY ViaIs, BuildsAre DEF ShellPart, ShellTyped, Build
<1>3. ASSUME NEW h \in 0..Builds
      PROVE  /\ Loads(h) \in Tabs /\ Loads(h).html = h /\ Loads(h).phase = "script"
  BY <1>2
<1>4. CASE link = "up"
  <2>1. tab' = Loads(build) /\ tab'.html = build /\ tab'.phase = "script" /\ tab' \in Tabs
    <3>1. tab' = Loads(build)
      BY <1>1, <1>4
    <3> HIDE DEF Loads, Tabs
    <3> QED  BY <1>2, <1>3, <3>1
  <2>2. \/ UNCHANGED shell
        \/ \E w \in Build, url \in Url, key \in 0..Builds :
             /\ key <= build
             /\ shell' = Put(shell, [in |-> w, url |-> url, key |-> key, holds |-> build])
    <3>1. CASE v = 0
      BY <1>1, <1>4, <3>1
    <3>2. CASE v # 0
      <4>1. v \in Build /\ "page" \in Url /\ 0 \in 0..Builds
        BY <1>2, <3>2, BuildsAre DEF Build, Url
      <4>2. shell' = Put(shell, [in |-> v, url |-> "page", key |-> 0, holds |-> build])
        BY <1>1, <1>4, <3>2
      <4> HIDE DEF v
      <4> QED  BY <1>2, <4>1, <4>2
    <3> QED  BY <3>1, <3>2
  <2>3. Fresh'
    BY <1>1, <1>4, <2>1 DEF Fresh, Loading
  <2>4. refresh' \subseteq Build \X Build /\ (\A r \in refresh' : r[2] <= build)
    BY <1>1 DEF ShellPart, ShellTyped, Aged
  <2> HIDE DEF v, cached, Loads
  <2> QED  BY <1>1, <1>2, <2>1, <2>2, <2>3, <2>4, TabKeeps
<1>5. CASE link # "up"
  <2>1. raced /\ raced'
    BY <1>1, <1>5 DEF ShellPart, Fresh, Loading
  <2>2. refresh' \subseteq Build \X Build /\ (\A r \in refresh' : r[2] <= build)
    BY <1>1 DEF ShellPart, ShellTyped, Aged
  <2>3. /\ tab' \in Tabs /\ tab'.html <= build /\ (tab'.phase = "script" => tab'.html # 0)
    <3>1. CASE cached = {}
      <4>1. tab' = NoTab /\ NoTab \in Tabs /\ NoTab.html = 0 /\ NoTab.phase = "closed"
        BY <1>1, <1>5, <3>1, BuildsAre DEF NoTab
      <4> HIDE DEF cached, v, Loads, Tabs
      <4> QED  BY <1>2, <4>1
    <3>2. CASE cached # {}
      <4> DEFINE h == (CHOOSE e \in cached : TRUE).holds
      <4>1. (CHOOSE e \in cached : TRUE) \in shell
        BY <3>2 DEF Found
      <4>2. h \in 0..Builds /\ h <= build /\ h # 0
        BY <4>1, CopiesAre
      <4>3. tab' = Loads(h)
        BY <1>1, <1>5, <3>2
      <4> HIDE DEF h
      <4> QED  BY <1>3, <4>2, <4>3
    <3> QED  BY <3>1, <3>2
  <2>4. Fresh' /\ UNCHANGED shell
    BY <1>1, <1>5, <2>1 DEF Fresh
  <2> HIDE DEF v, cached, Loads
  <2> QED  BY <1>1, <2>2, <2>3, <2>4, TabKeeps
<1> QED  BY <1>4, <1>5

LEMMA RevalidatedKeeps ==
    ASSUME ShellPart, NEW r \in Build \X Build, Revalidated(r)
    PROVE  ShellPart'
<1>1. /\ r \in refresh /\ refresh' = refresh \ {r}
      /\ shell' = IF link = "up"
                  THEN Put(shell, [in |-> r[1], url |-> "script", key |-> r[2], holds |-> build])
                  ELSE shell
      /\ UNCHANGED <<build, gen, link, worker, toAdd, orphan, patchy, tab, raced>>
  BY DEF Revalidated, world
<1>2. r[1] \in Build /\ r[2] \in 0..Builds /\ r[2] <= build /\ "script" \in Url
  BY <1>1, BuildsAre DEF ShellPart, Aged, Url
<1>3. \/ UNCHANGED shell
      \/ \E w \in Build, url \in Url, key \in 0..Builds :
           /\ key <= build
           /\ shell' = Put(shell, [in |-> w, url |-> url, key |-> key, holds |-> build])
  BY <1>1, <1>2
<1>4. /\ refresh' \subseteq Build \X Build /\ (\A s \in refresh' : s[2] <= build)
      /\ tab'.html <= build /\ (tab'.phase = "script" => tab'.html # 0)
      /\ tab' \in [phase : {"closed", "page", "script", "ready"}, via : 0..Builds,
                   html : 0..Builds, app : 0..Builds, gen : 0..1]
  BY <1>1 DEF ShellPart, ShellTyped, Aged
<1>5. Fresh'
  BY <1>1 DEF ShellPart, Fresh, Loading
<1> QED  BY <1>1, <1>3, <1>4, <1>5, TabKeeps

LEMMA ScriptKeeps == ASSUME ShellPart, ScriptAnswered PROVE ShellPart'
<1> DEFINE v == tab.via
           exact == IF v = 0 THEN {} ELSE Found(v, "script", tab.html)
           any == IF v = 0 THEN {} ELSE {e \in shell : e.in = v /\ e.url = "script"}
           Runs(a) == [tab EXCEPT !.phase = "ready", !.app = a, !.via = 0]
           Tabs == [phase : {"closed", "page", "script", "ready"}, via : 0..Builds,
                    html : 0..Builds, app : 0..Builds, gen : 0..1]
<1>1. /\ tab.phase = "script"
      /\ UNCHANGED <<build, gen, link, worker, toAdd, orphan, patchy, raced>>
      /\ IF exact # {}
         THEN /\ tab' = Runs((CHOOSE e \in exact : TRUE).holds)
              /\ refresh' = refresh \cup {<<v, tab.html>>}
              /\ UNCHANGED shell
         ELSE /\ UNCHANGED refresh
              /\ IF link = "up"
                 THEN /\ tab' = Runs(build)
                      /\ shell' = IF v = 0 THEN shell
                                  ELSE Put(shell, [in |-> v, url |-> "script", key |-> tab.html,
                                                   holds |-> build])
                 ELSE /\ \/ any = {} /\ tab' = NoTab
                         \/ \E e \in any : tab' = Runs(e.holds)
                      /\ UNCHANGED shell
  BY DEF ScriptAnswered, world
<1>2. tab \in Tabs /\ v \in 0..Builds /\ build \in 0..Builds /\ build \in Nat
      /\ tab.html \in 0..Builds /\ tab.html # 0 /\ tab.html <= build
  BY <1>1, BuildsAre DEF ShellPart, ShellTyped, Build, Aged
<1>3. ASSUME NEW a \in 0..Builds
      PROVE  /\ Runs(a) \in Tabs /\ Runs(a).html = tab.html
             /\ Runs(a).phase = "ready" /\ Runs(a).app = a
  BY <1>2, BuildsAre
<1>4. ~raced => link = "up" /\ tab.html = build
  BY <1>1 DEF ShellPart, Fresh, Loading
<1>5. \A e \in any : e.holds \in 0..Builds
  BY CopiesAre
<1>6. ASSUME NEW a \in 0..Builds, tab' = Runs(a), ~raced => a = build
      PROVE  /\ tab' \in Tabs /\ tab'.html <= build /\ tab'.phase # "script" /\ Fresh'
  <2>1. tab' \in Tabs /\ tab'.html = tab.html /\ tab'.phase = "ready" /\ tab'.app = a
    <3> HIDE DEF Runs, Tabs
    <3> QED  BY <1>3, <1>6
  <2> QED  BY <1>1, <1>2, <1>4, <1>6, <2>1 DEF Fresh, Loading
<1>7. refresh \subseteq Build \X Build /\ (\A r \in refresh : r[2] <= build)
  BY DEF ShellPart, ShellTyped, Aged
<1>8. CASE exact # {}
  <2> DEFINE e == CHOOSE x \in exact : TRUE
  <2>1. e \in shell /\ e.url = "script" /\ e.key = tab.html /\ v # 0
    BY <1>8 DEF Found
  <2>2. e.holds \in 0..Builds /\ (~raced => e.holds = build)
    BY <1>2, <1>4, <2>1, CopiesAre
  <2>3. tab' = Runs(e.holds)
    BY <1>1, <1>8
  <2> HIDE DEF e
  <2>4. tab' \in Tabs /\ tab'.html <= build /\ tab'.phase # "script" /\ Fresh'
    <3> HIDE DEF Runs, Tabs
    <3> QED  BY <1>6, <2>2, <2>3
  <2>5. refresh' \subseteq Build \X Build /\ (\A r \in refresh' : r[2] <= build)
    <3>1. v \in Build /\ tab.html \in Build
      BY <1>2, <2>1 DEF Build
    <3>2. refresh' = refresh \cup {<<v, tab.html>>}
      BY <1>1, <1>8
    <3> HIDE DEF v
    <3> QED  BY <1>2, <1>7, <3>1, <3>2
  <2>6. UNCHANGED shell
    BY <1>1, <1>8
  <2> HIDE DEF v, exact, any, Runs
  <2> QED  BY <1>1, <2>4, <2>5, <2>6, TabKeeps
<1>9. CASE exact = {} /\ link = "up"
  <2>1. /\ tab' = Runs(build) /\ UNCHANGED refresh
        /\ shell' = IF v = 0 THEN shell
                    ELSE Put(shell, [in |-> v, url |-> "script", key |-> tab.html,
                                     holds |-> build])
    BY <1>1, <1>9
  <2>2. tab' \in Tabs /\ tab'.html <= build /\ tab'.phase # "script" /\ Fresh'
    <3> HIDE DEF Runs, Tabs
    <3> QED  BY <1>2, <1>6, <2>1
  <2>3. \/ UNCHANGED shell
        \/ \E w \in Build, url \in Url, key \in 0..Builds :
             /\ key <= build
             /\ shell' = Put(shell, [in |-> w, url |-> url, key |-> key, holds |-> build])
    <3>1. v # 0 => v \in Build
      BY <1>2 DEF Build
    <3>2. "script" \in Url
      BY DEF Url
    <3> HIDE DEF v
    <3> QED  BY <1>2, <2>1, <3>1, <3>2
  <2> HIDE DEF v, exact, any, Runs
  <2> QED  BY <1>1, <1>7, <2>1, <2>2, <2>3, TabKeeps
<1>10. CASE exact = {} /\ link # "up"
  <2>1. UNCHANGED <<refresh, shell>> /\ raced /\ raced'
    BY <1>1, <1>4, <1>10
  <2>2. CASE tab' = NoTab
    <3>1. tab' \in Tabs /\ tab'.html <= build /\ tab'.phase # "script"
      BY <1>2, <2>2, BuildsAre DEF NoTab
    <3>2. Fresh'
      BY <2>1 DEF Fresh
    <3> HIDE DEF v, exact, any, Runs
    <3> QED  BY <1>1, <1>7, <2>1, <3>1, <3>2, TabKeeps
  <2>3. CASE \E e \in any : tab' = Runs(e.holds)
    <3>1. PICK e \in any : tab' = Runs(e.holds)
      BY <2>3
    <3>2. tab' \in Tabs /\ tab'.html <= build /\ tab'.phase # "script" /\ Fresh'
      <4>1. e.holds \in 0..Builds
        BY <1>5
      <4> HIDE DEF Runs, Tabs
      <4> QED  BY <1>6, <2>1, <3>1, <4>1
    <3> HIDE DEF v, exact, any, Runs
    <3> QED  BY <1>1, <1>7, <2>1, <3>2, TabKeeps
  <2> QED  BY <1>1, <1>10, <2>2, <2>3
<1> QED  BY <1>8, <1>9, <1>10

(* Offline data.  A step that leaves the pictures and the answer alone.    *)
LEMMA StampKeeps == ASSUME StorePart, Update \/ StampUpdate PROVE StorePart'
<1>1. UNCHANGED <<snapshot, images, frayed, answer>>
  BY DEF Update, StampUpdate
<1>2. CASE Update
  <2>1. download.step = "none" /\ download' = [step |-> "fetch", left |-> {}]
        /\ lastSync' = lastSync
    BY <1>2 DEF Update
  <2>2. StoreTyped'
    BY <1>1, <2>1 DEF StorePart, StoreTyped
  <2> QED  BY <1>1, <2>1, <2>2 DEF StorePart, Stored, Read, Filling, Gathered
<1>3. CASE StampUpdate
  <2>1. download.step = "stamp" /\ download' = [step |-> "none", left |-> {}]
        /\ lastSync' \in BOOLEAN
    BY <1>3 DEF StampUpdate
  <2>2. StoreTyped'
    BY <1>1, <2>1 DEF StorePart, StoreTyped
  <2>3. images \cup download.left = images
    BY <2>1 DEF StorePart, Stored
  <2>4. Stored'
    BY <1>1, <2>1, <2>3 DEF StorePart, Stored, Filling, Gathered
  <2> QED  BY <1>1, <2>2, <2>4 DEF StorePart, Read
<1> QED  BY <1>2, <1>3

(* A page that goes while it fills the caches leaves them frayed.          *)
LEMMA CutKeeps == ASSUME StorePart, Cut PROVE StorePart'
<1>1. /\ download' = [step |-> "none", left |-> {}]
      /\ frayed' = (frayed \/ download.step \notin {"none", "fetch", "save", "clear"})
      /\ UNCHANGED <<snapshot, lastSync, images, answer>>
  BY DEF Cut
<1>2. StoreTyped'
  BY <1>1 DEF StorePart, StoreTyped
<1>3. ~frayed' => ~frayed /\ ~Filling
  BY <1>1 DEF Filling
<1>4. Stored'
  BY <1>1, <1>3 DEF StorePart, Stored, Filling, Gathered
<1> QED  BY <1>1, <1>2, <1>4 DEF StorePart, Read

LEMMA SaveKeeps ==
    ASSUME StorePart, deeds \in 0..MaxDeeds, SaveSnapshot
    PROVE  StorePart'
<1>1. CASE download.step = "fetch"
  <2>1. /\ download' = [download EXCEPT !.step = IF link = "up" THEN "save" ELSE "none"]
        /\ UNCHANGED <<snapshot, lastSync, images, frayed, answer>>
    BY <1>1 DEF SaveSnapshot
  <2>2. StoreTyped' /\ download'.step \in {"save", "none"}
    BY <2>1 DEF StorePart, StoreTyped
  <2>3. Stored'
    BY <1>1, <2>1, <2>2 DEF StorePart, Stored, Filling, Gathered
  <2> QED  BY <2>1, <2>2, <2>3 DEF StorePart, Read
<1>2. CASE download.step = "save"
  <2>1. /\ snapshot' = deeds
        /\ answer' = [answer EXCEPT !.over = @ \/ answer.step = "posts"]
        /\ download' = [download EXCEPT !.step = "clear"]
        /\ UNCHANGED <<lastSync, images, frayed>>
    BY <1>2 DEF SaveSnapshot
  <2>2. /\ answer'.step = answer.step /\ answer'.torn = answer.torn
        /\ answer'.over = (answer.over \/ answer.step = "posts")
        /\ download'.step = "clear"
    BY <2>1 DEF StorePart, StoreTyped
  <2>3. StoreTyped'
    BY <2>1 DEF StorePart, StoreTyped
  <2>4. Stored'
    BY <1>2, <2>1, <2>2 DEF StorePart, Stored, Filling, Gathered
  <2>5. Read'
    BY <2>2 DEF StorePart, Read
  <2> QED  BY <2>3, <2>4, <2>5 DEF StorePart
<1> QED  BY <1>1, <1>2 DEF SaveSnapshot

LEMMA WantedIs ==
    ASSUME ShellTyped, NEW cache \in {"thumbs", "full"}
    PROVE  /\ Wanted(cache) \subseteq Picture
           /\ Wanted(cache) # {}
           /\ \A p \in Wanted(cache) : p.cache = cache
           /\ \A p, q \in Wanted(cache) : p = q
<1>1. tab.gen \in 0..1
  BY DEF ShellTyped
<1>2. CASE cache = "thumbs"
  <2> DEFINE small == [cache |-> "thumbs", rung |-> "small", gen |-> tab.gen]
  <2>1. small \in Picture /\ small.cache = "thumbs"
    BY <1>1 DEF Picture, Rung
  <2>2. Wanted(cache) = {small}
    BY <1>2 DEF Wanted
  <2> HIDE DEF small
  <2> QED  BY <1>2, <2>1, <2>2
<1>3. CASE cache = "full"
  <2> DEFINE original == [cache |-> "full", rung |-> "original", gen |-> 0]
  <2>1. original \in Picture /\ original.cache = "full"
    BY DEF Picture, Rung
  <2>2. Wanted(cache) = {original}
    BY <1>3 DEF Wanted
  <2> HIDE DEF original
  <2> QED  BY <1>3, <2>1, <2>2
<1> QED  BY <1>2, <1>3

LEMMA ClearKeeps ==
    ASSUME ShellTyped, StorePart, ClearImages
    PROVE  StorePart'
<1>1. /\ images' = {} /\ frayed' = FALSE
      /\ download' = [step |-> "thumbs", left |-> Wanted("thumbs")]
      /\ UNCHANGED <<snapshot, lastSync, answer>>
  BY DEF ClearImages
<1>2. /\ Wanted("thumbs") \subseteq Picture /\ Wanted("thumbs") # {}
      /\ \A p, q \in Wanted("thumbs") : p = q
  BY WantedIs
<1>3. StoreTyped'
  BY <1>1, <1>2 DEF StorePart, StoreTyped
<1>4. download'.step = "thumbs" /\ download'.left = Wanted("thumbs")
  BY <1>1
<1>5. Stored'
  BY <1>1, <1>2, <1>4 DEF Stored, Filling, Gathered
<1> QED  BY <1>1, <1>3, <1>5 DEF StorePart, Read

LEMMA CacheKeeps ==
    ASSUME ShellTyped, StorePart, CacheImage
    PROVE  StorePart'
<1>1. download.step \in {"thumbs", "originals"} /\ UNCHANGED <<snapshot, lastSync, answer>>
  BY DEF CacheImage
<1>2. PICK p \in download.left :
        /\ images' = IF link = "up" THEN images \cup {p} ELSE images
        /\ frayed' = (frayed \/ link # "up")
        /\ download' =
            IF download.left # {p} THEN [download EXCEPT !.left = @ \ {p}]
            ELSE IF download.step = "thumbs" THEN [step |-> "originals", left |-> Wanted("full")]
            ELSE [step |-> "stamp", left |-> {}]
  BY DEF CacheImage
<1>3. /\ download \in [step : {"none", "fetch", "save", "clear", "thumbs", "originals", "stamp"},
                       left : SUBSET Picture]
      /\ images \subseteq Picture
  BY DEF StorePart, StoreTyped
<1>4. Wanted("full") \subseteq Picture /\ (\A q \in Wanted("full") : q.cache = "full")
  BY WantedIs
<1>5. /\ download' \in [step : {"thumbs", "originals", "stamp"}, left : SUBSET Picture]
      /\ \/ download'.left = download.left \ {p} /\ download.left # {p}
         \/ download'.left = Wanted("full") /\ download.left = {p}
         \/ download'.left = {} /\ download.left = {p}
      /\ download'.step = "stamp" => download'.left = {}
  <2>1. CASE download.left # {p}
    BY <1>1, <1>2, <1>3, <2>1
  <2>2. CASE download.left = {p}
    BY <1>1, <1>2, <1>4, <2>2
  <2> QED  BY <2>1, <2>2
<1>6. StoreTyped'
  BY <1>1, <1>2, <1>3, <1>5 DEF StorePart, StoreTyped
<1>7. Filling'
  BY <1>5 DEF Filling
<1>8. ASSUME ~frayed' PROVE Gathered(images \cup download.left)'
  <2>1. ~frayed /\ images' = images \cup {p}
    BY <1>2, <1>8
  <2>2. Gathered(images \cup download.left)
    BY <1>1, <2>1 DEF StorePart, Stored, Filling
  <2>3. \A q \in images' \cup download'.left :
           q \in images \cup download.left \/ q.cache = "full"
    BY <1>2, <1>4, <1>5, <2>1
  <2> QED  BY <2>1, <2>2, <2>3 DEF Gathered
<1>9. Stored'
  BY <1>5, <1>7, <1>8 DEF Stored
<1> QED  BY <1>1, <1>6, <1>9 DEF StorePart, Read

LEMMA AskKeeps == ASSUME StorePart, AskStore \/ ReadStore PROVE StorePart'
<1>1. UNCHANGED <<snapshot, lastSync, images, download, frayed>>
  BY DEF AskStore, ReadStore
<1>2. Stored'
  BY <1>1 DEF StorePart, Stored, Filling, Gathered
<1>3. CASE AskStore
  <2>1. answer' = [step |-> "tags", tags |-> 0, posts |-> 0, over |-> FALSE, torn |-> FALSE]
    BY <1>3 DEF AskStore, NoAnswer
  <2>2. StoreTyped' /\ Read'
    BY <1>1, <2>1, WorkerAssumption DEF StorePart, StoreTyped, Read
  <2> QED  BY <1>2, <2>2 DEF StorePart
<1>4. CASE answer.step = "tags" /\ ReadStore
  <2>1. answer' = [answer EXCEPT !.step = IF lastSync THEN "posts" ELSE "done",
                                 !.tags = snapshot, !.over = FALSE]
    BY <1>4 DEF ReadStore
  <2>2. StoreTyped' /\ answer'.tags = snapshot /\ answer'.torn = answer.torn
    BY <1>1, <2>1 DEF StorePart, StoreTyped
  <2>3. ~answer.torn
    BY <1>4 DEF StorePart, Read
  <2> QED  BY <1>1, <1>2, <2>2, <2>3 DEF StorePart, Read
<1>5. CASE answer.step = "posts" /\ ReadStore
  <2>1. answer' = [answer EXCEPT !.step = "done", !.posts = snapshot,
                                 !.torn = answer.tags # snapshot]
    BY <1>5 DEF ReadStore
  <2>2. /\ StoreTyped' /\ answer'.step = "done" /\ answer'.over = answer.over
        /\ answer'.torn = (answer.tags # snapshot)
    BY <1>1, <2>1 DEF StorePart, StoreTyped
  <2> QED  BY <1>1, <1>2, <1>5, <2>2 DEF StorePart, Read
<1> QED  BY <1>3, <1>4, <1>5 DEF ReadStore

(* Shares.                                                                 *)
LEMMA ReceiveKeeps ==
    ASSUME SharePart, NEW s \in Shares, Receive(s)
    PROVE  SharePart'
<1>1. /\ shared' = shared \cup {s} /\ inbox' = inbox \cup {s}
      /\ trampled' = IF Busy = {} THEN trampled ELSE trampled \cup {s}
      /\ UNCHANGED <<editors, kept>>
  BY DEF Receive
<1>2. ShareTyped'
  BY <1>1 DEF SharePart, ShareTyped
<1>3. SharesAreKept'
  BY <1>1 DEF SharePart, Queued, SharesAreKept
<1>4. \A e \in Editor : editors[e].step # "none" => s \in trampled'
  BY <1>1 DEF Busy
<1>5. trampled \subseteq trampled'
  BY <1>1
<1>6. Queued'
  BY <1>1, <1>3, <1>4, <1>5 DEF SharePart, Queued
<1> QED  BY <1>2, <1>6 DEF SharePart

LEMMA ReadSharesKeeps ==
    ASSUME SharePart, NEW e \in Editor, ReadShares(e)
    PROVE  SharePart'
<1>1. /\ editors' = [d \in Editor |-> IF d = e
                         THEN [step |-> "insert", entries |-> inbox, open |-> TRUE]
                         ELSE [editors[d] EXCEPT !.open = FALSE]]
      /\ UNCHANGED <<shared, inbox, kept, trampled>>
  BY DEF ReadShares, Opens
<1>2. ASSUME NEW d \in Editor
      PROVE  /\ editors'[d] \in EditorState
             /\ d = e => editors'[d].step = "insert" /\ editors'[d].entries = inbox
             /\ d # e => /\ editors'[d].step = editors[d].step
                         /\ editors'[d].entries = editors[d].entries
  <2>1. editors[d] \in EditorState /\ inbox \in SUBSET Shares
    BY DEF SharePart, ShareTyped
  <2>2. CASE d = e
    <3>1. editors'[d] = [step |-> "insert", entries |-> inbox, open |-> TRUE]
      BY <1>1, <2>2
    <3> QED  BY <2>1, <2>2, <3>1 DEF EditorState
  <2>3. CASE d # e
    <3>1. editors'[d] = [editors[d] EXCEPT !.open = FALSE]
      BY <1>1, <2>3
    <3> QED  BY <2>1, <2>3, <3>1 DEF EditorState
  <2> QED  BY <2>2, <2>3
<1>3. ShareTyped'
  <2>1. editors' = [d \in Editor |-> editors'[d]]
    BY <1>1
  <2>2. editors' \in [Editor -> EditorState]
    BY <1>2, <2>1
  <2> QED  BY <1>1, <2>2 DEF SharePart, ShareTyped
<1>4. Queued'
  BY <1>1, <1>2 DEF SharePart, Queued, SharesAreKept
<1> QED  BY <1>3, <1>4 DEF SharePart

LEMMA LeaveSharesKeeps ==
    ASSUME SharePart, NEW e \in Editor, LeaveShares(e)
    PROVE  SharePart'
<1>1. /\ editors' = [editors EXCEPT ![e].open = FALSE]
      /\ UNCHANGED <<shared, inbox, kept, trampled>>
  BY DEF LeaveShares
<1>2. ShareTyped'
  BY <1>1 DEF SharePart, ShareTyped, EditorState
<1>3. \A d \in Editor : /\ editors'[d].step = editors[d].step
                        /\ editors'[d].entries = editors[d].entries
  BY <1>1 DEF SharePart, ShareTyped, EditorState
<1>4. Queued'
  BY <1>1, <1>3 DEF SharePart, Queued, SharesAreKept
<1> QED  BY <1>2, <1>4 DEF SharePart

LEMMA UploadKeeps ==
    ASSUME SharePart, NEW e \in Editor, NEW s \in Shares, Upload(e, s)
    PROVE  SharePart'
<1> DEFINE entry == editors[e]
           step == IF entry.entries = {s} THEN "clear" ELSE "drafts"
           next == [entry EXCEPT !.step = step, !.entries = @ \ {s}]
<1>1. /\ entry.step \in {"insert", "drafts"} /\ s \in entry.entries
      /\ kept \subseteq kept' /\ trampled \subseteq trampled'
      /\ kept' \subseteq kept \cup {s} /\ trampled' \subseteq trampled \cup {s}
      /\ s \in kept' \cup trampled'
      /\ UNCHANGED <<shared, inbox>>
  BY DEF Upload
<1>2. entry \in EditorState
  BY DEF SharePart, ShareTyped
<1>3. editors' = [editors EXCEPT ![e] = next]
  BY DEF Upload, SharePart, ShareTyped
<1>4. /\ next \in EditorState
      /\ next.entries = entry.entries \ {s}
      /\ next.step = "clear" => entry.entries = {s}
      /\ next.step \in {"drafts", "clear"}
  BY <1>2 DEF EditorState
<1>5. inbox \subseteq entry.entries \cup kept \cup trampled
  BY <1>1 DEF SharePart, Queued
<1> HIDE DEF entry, next, step
<1>6. ShareTyped'
  BY <1>1, <1>3, <1>4 DEF SharePart, ShareTyped
<1>7. \A d \in Editor : editors'[d] = IF d = e THEN next ELSE editors[d]
  BY <1>3 DEF SharePart, ShareTyped
<1>8. SharesAreKept'
  BY <1>1 DEF SharePart, Queued, SharesAreKept
<1>9. ASSUME NEW d \in Editor
      PROVE  /\ editors'[d].step \in {"insert", "drafts"} =>
                  inbox' \subseteq editors'[d].entries \cup kept' \cup trampled'
             /\ editors'[d].step = "clear" => inbox' \subseteq kept' \cup trampled'
  <2>1. CASE d = e
    <3>1. editors'[d] = next
      BY <1>7, <2>1
    <3>2. CASE next.step = "drafts"
      BY <1>1, <1>4, <1>5, <3>1, <3>2
    <3>3. CASE next.step = "clear"
      BY <1>1, <1>4, <1>5, <3>1, <3>3
    <3> QED  BY <1>4, <3>2, <3>3
  <2>2. CASE d # e
    <3>1. editors'[d] = editors[d]
      BY <1>7, <2>2
    <3> QED  BY <1>1, <3>1 DEF SharePart, Queued
  <2> QED  BY <2>1, <2>2
<1> QED  BY <1>6, <1>8, <1>9 DEF SharePart, Queued

LEMMA NoEditorIs == NoEditor \in EditorState /\ NoEditor.step = "none"
BY DEF NoEditor, EditorState

LEMMA ClearSharesKeeps ==
    ASSUME SharePart, NEW e \in Editor, ClearShares(e)
    PROVE  SharePart'
<1>1. /\ editors[e].step = "clear" /\ inbox' = {}
      /\ editors' = [editors EXCEPT ![e] = NoEditor]
      /\ UNCHANGED <<shared, kept, trampled>>
  BY DEF ClearShares
<1>2. inbox \subseteq kept \cup trampled
  BY <1>1 DEF SharePart, Queued
<1>3. ShareTyped'
  BY <1>1, NoEditorIs DEF SharePart, ShareTyped
<1>4. SharesAreKept'
  BY <1>1, <1>2 DEF SharePart, Queued, SharesAreKept
<1> QED  BY <1>1, <1>3, <1>4 DEF SharePart, Queued

LEMMA CutShares == SharePart /\ Cut => SharePart'
<1> SUFFICES ASSUME SharePart, Cut PROVE SharePart'
  OBVIOUS
<1>1. /\ editors' = [e \in Editor |-> NoEditor]
      /\ UNCHANGED <<shared, inbox, kept, trampled>>
  BY DEF Cut
<1>2. \A e \in Editor : editors'[e].step = "none"
  BY <1>1, NoEditorIs
<1>3. ShareTyped'
  BY <1>1, NoEditorIs DEF SharePart, ShareTyped
<1> QED  BY <1>1, <1>2, <1>3 DEF SharePart, Queued, SharesAreKept

(* The invariant of the worker, the offline data and the shares.           *)
THEOREM WorkerInvariant == WorkerSpec => []WorkerInv
<1>1. WorkerInit => WorkerInv
  <2> SUFFICES ASSUME WorkerInit PROVE WorkerInv
    OBVIOUS
  <2>1. /\ build = 1 /\ gen = 0 /\ link = "up"
        /\ shell = {} /\ orphan = {} /\ patchy = {} /\ refresh = {}
        /\ worker = [v \in Build |-> "none"] /\ toAdd = [v \in Build |-> {}]
        /\ tab = [phase |-> "closed", via |-> 0, html |-> 0, app |-> 0, gen |-> 0]
        /\ raced = FALSE
    BY DEF WorkerInit, NoTab
  <2>2. /\ snapshot = 0 /\ lastSync = FALSE /\ images = {} /\ frayed = FALSE
        /\ download = [step |-> "none", left |-> {}]
        /\ answer = [step |-> "none", tags |-> 0, posts |-> 0, over |-> FALSE, torn |-> FALSE]
        /\ shared = {} /\ inbox = {} /\ kept = {} /\ trampled = {}
        /\ editors = [e \in Editor |-> NoEditor]
        /\ deeds = 0
    BY DEF WorkerInit, NoAnswer
  <2>3. ShellPart
    <3>1. 1 \in Build /\ 0 \in 0..Builds
      BY BuildsAre
    <3>2. ShellTyped
      <4>1. raced \in BOOLEAN
        BY <2>1
      <4>2. tab \in [phase : {"closed", "page", "script", "ready"}, via : 0..Builds,
                     html : 0..Builds, app : 0..Builds, gen : 0..1]
        BY <2>1, <3>1
      <4>3. /\ worker \in [Build -> {"none", "installing", "waiting", "activating", "active"}]
            /\ toAdd \in [Build -> SUBSET Url]
        BY <2>1
      <4>4. /\ build \in Build /\ gen \in 0..1 /\ link \in {"up", "deaf", "down"}
            /\ shell \subseteq Entry /\ refresh \subseteq Build \X Build
            /\ orphan \subseteq Build /\ patchy \subseteq Build
        BY <2>1, <3>1
      <4> QED  BY <4>1, <4>2, <4>3, <4>4 DEF ShellTyped
    <3>3. Aged /\ Fresh /\ Stocked
      BY <2>1 DEF Aged, Fresh, Stocked, Loading
    <3> QED  BY <3>2, <3>3 DEF ShellPart
  <2>4. StorePart
    <3>1. StoreTyped
      <4>1. lastSync \in BOOLEAN /\ frayed \in BOOLEAN
        BY <2>2
      <4>2. /\ snapshot \in 0..MaxDeeds /\ images \subseteq Picture
            /\ download \in [step : {"none", "fetch", "save", "clear", "thumbs", "originals",
                                     "stamp"}, left : SUBSET Picture]
            /\ answer \in [step : {"none", "tags", "posts", "done"}, tags : 0..MaxDeeds,
                           posts : 0..MaxDeeds, over : BOOLEAN, torn : BOOLEAN]
        BY <2>2, WorkerAssumption
      <4> QED  BY <4>1, <4>2 DEF StoreTyped
    <3>2. Stored /\ Read
      BY <2>2 DEF Stored, Read, Filling
    <3> QED  BY <3>1, <3>2 DEF StorePart
  <2>5. SharePart
    BY <2>2, NoEditorIs DEF SharePart, ShareTyped, Queued, SharesAreKept
  <2> QED  BY <2>2, <2>3, <2>4, <2>5, WorkerAssumption DEF WorkerInv
<1>2. WorkerInv /\ [WorkerNext]_swVars => WorkerInv'
  <2> SUFFICES ASSUME WorkerInv, [WorkerNext]_swVars PROVE WorkerInv'
    OBVIOUS
  <2>1. ShellPart /\ ShellTyped /\ StorePart /\ SharePart /\ deeds \in 0..MaxDeeds
    BY DEF WorkerInv, ShellPart
  <2>2. ASSUME Deploy \/ RebuildThumbnails \/ \E state \in {"up", "deaf", "down"} : LinkBecomes(state)
        PROVE  WorkerInv'
    <3>1. Deed /\ UNCHANGED storeVars /\ UNCHANGED shareVars
      BY <2>2 DEF Deploy, RebuildThumbnails, LinkBecomes, offline, shares, storeVars, shareVars
    <3>2. CASE RebuildThumbnails
      <4>1. gen' = 1 /\ UNCHANGED <<build, link, worker, toAdd, shell, orphan, patchy, refresh, tab,
                                    raced>>
        BY <3>2 DEF RebuildThumbnails, workers
      <4>2. ShellPart'
        BY <2>1, <4>1 DEF ShellPart, ShellTyped, Aged, Fresh, Stocked, Loading, Found
      <4> QED  BY <2>1, <3>1, <4>2, StoreStaysAsIs, SharesStayAsIs, DeedsStay DEF WorkerInv
    <3>3. CASE ~RebuildThumbnails
      <4>1. ShellPart'
        BY <2>1, <2>2, <3>3, DeployKeeps, LinkKeeps
      <4> QED  BY <2>1, <3>1, <4>1, StoreStaysAsIs, SharesStayAsIs, DeedsStay DEF WorkerInv
    <3> QED  BY <3>2, <3>3
  <2>3. ASSUME \/ \E v \in Build : Installed(v) \/ Replace(v) \/ Activate(v) \/ \E url \in Url : Add(v, url)
               \/ Register \/ DocumentAnswered \/ ScriptAnswered
               \/ \E r \in Build \X Build : Revalidated(r)
        PROVE  WorkerInv'
    <3>1. UNCHANGED storeVars /\ UNCHANGED shareVars /\ UNCHANGED deeds
      BY <2>3 DEF Installed, Replace, Activate, Add, Register, DocumentAnswered, ScriptAnswered,
                  Revalidated, offline, shares, storeVars, shareVars
    <3>2. ShellPart'
      BY <2>1, <2>3, InstalledKeeps, ReplaceKeeps, ActivateKeeps, AddKeeps, RegisterKeeps,
         DocumentKeeps, ScriptKeeps, RevalidatedKeeps
    <3> QED  BY <2>1, <3>1, <3>2, StoreStaysAsIs, SharesStayAsIs, DeedsStay DEF WorkerInv
  <2>4. ASSUME Open \/ Close PROVE WorkerInv'
    <3>1. Deed /\ Cut
      BY <2>4 DEF Open, Close
    <3> QED  BY <2>1, <2>4, <3>1, OpenKeeps, CutKeeps, CutShares, DeedsStay DEF WorkerInv
  <2>5. ASSUME Update \/ SaveSnapshot \/ ClearImages \/ CacheImage \/ StampUpdate \/ AskStore \/ ReadStore
        PROVE  WorkerInv'
    <3>1. UNCHANGED shellVars /\ UNCHANGED shareVars /\ (Deed \/ UNCHANGED deeds)
      BY <2>5 DEF Update, SaveSnapshot, ClearImages, CacheImage, StampUpdate, AskStore, ReadStore,
                  world, workers, shares, shellVars, shareVars
    <3>2. StorePart'
      BY <2>1, <2>5, StampKeeps, SaveKeeps, ClearKeeps, CacheKeeps, AskKeeps
    <3> QED  BY <2>1, <3>1, <3>2, ShellStaysAsIs, SharesStayAsIs, DeedsStay DEF WorkerInv
  <2>6. ASSUME \/ \E s \in Shares : Receive(s)
               \/ \E e \in Editor : ReadShares(e) \/ LeaveShares(e)
               \/ \E e \in Editor : ClearShares(e) \/ \E s \in Shares : Upload(e, s)
        PROVE  WorkerInv'
    <3>1. UNCHANGED shellVars /\ UNCHANGED storeVars /\ (Deed \/ UNCHANGED deeds)
      BY <2>6 DEF Receive, ReadShares, LeaveShares, ClearShares, Upload,
                  world, workers, offline, shellVars, storeVars
    <3>2. SharePart'
      BY <2>1, <2>6, ReceiveKeeps, ReadSharesKeeps, LeaveSharesKeeps, ClearSharesKeeps,
         UploadKeeps
    <3> QED  BY <2>1, <3>1, <3>2, ShellStaysAsIs, StoreStaysAsIs, DeedsStay DEF WorkerInv
  <2>7. CASE UNCHANGED swVars
    <3>1. UNCHANGED shellVars /\ UNCHANGED storeVars /\ UNCHANGED shareVars /\ UNCHANGED deeds
      BY <2>7 DEF swVars, shellVars, storeVars, shareVars
    <3> QED  BY <2>1, <3>1, ShellStaysAsIs, StoreStaysAsIs, SharesStayAsIs, DeedsStay DEF WorkerInv
  <2> QED  BY <2>2, <2>3, <2>4, <2>5, <2>6, <2>7 DEF WorkerNext, WorkerProgress
<1> QED  BY <1>1, <1>2, PTL DEF WorkerSpec

(* The type invariant of the worker and the offline data.                  *)
THEOREM WorkerIsTyped == WorkerSpec => []WorkerTypeOK
<1>1. WorkerInv => WorkerTypeOK
  BY TypesAreParts DEF WorkerInv, ShellPart, StorePart, SharePart
<1> QED  BY <1>1, WorkerInvariant, PTL

(* Whatever is deployed and however the network fails, a document runs the *)
(* script of its own build unless something raced its load, and an active  *)
(* worker has its shell unless its install or an older worker spoilt it    *)
(* (sw.ts: install, activate and fetch).                                   *)
THEOREM ShellHolds == WorkerSpec => []ShellKept
<1>1. WorkerInv => ShellKept
  <2> SUFFICES ASSUME WorkerInv PROVE ShellKept
    OBVIOUS
  <2>1. ScriptFits
    BY DEF WorkerInv, ShellPart, Fresh, ScriptFits
  <2>2. ShellStays
    <3> SUFFICES ASSUME NEW v \in Active \ patchy PROVE Found(v, "page", 0) # {}
      BY DEF ShellStays
    <3>1. v \in Build /\ worker[v] = "active" /\ v \notin patchy
      BY DEF Active
    <3>2. toAdd[v] = {}
      BY <3>1 DEF WorkerInv, ShellPart, Stocked
    <3> QED  BY <3>1, <3>2 DEF WorkerInv, ShellPart, Stocked
  <2> QED  BY <2>1, <2>2 DEF ShellKept
<1> QED  BY <1>1, WorkerInvariant, PTL

(* After an update every picture is answered without a network, from one   *)
(* generation; an answer mixes two snapshots only when one was stored while *)
(* it was read; and no share is lost unless its upload failed, its editor  *)
(* was left before, or it came while another was worked off                *)
(* (imageCache.ts, sw.ts, PostEditPage.ts).                                *)
THEOREM OfflineHolds == WorkerSpec => []OfflineKept
<1>1. WorkerInv => OfflineKept
  <2> SUFFICES ASSUME WorkerInv PROVE OfflineKept
    OBVIOUS
  <2>1. PicturesStay
    <3> SUFFICES ASSUME lastSync, download.step = "none", ~frayed
                 PROVE  /\ \A r \in Rung, t \in 0..1 : Served(r, t) # {}
                        /\ \A p, q \in images :
                              p.cache = "thumbs" /\ q.cache = "thumbs" => p.gen = q.gen
      BY DEF PicturesStay
    <3>1. Gathered(images)
      BY DEF WorkerInv, StorePart, Stored, Filling
    <3>2. ASSUME NEW r \in Rung, NEW t \in 0..1 PROVE Served(r, t) # {}
      BY <3>1 DEF Served, Gathered
    <3> QED  BY <3>1, <3>2 DEF Gathered
  <2>2. AnswersAreWhole /\ SharesAreKept
    BY DEF WorkerInv, StorePart, SharePart, Read, Queued, AnswersAreWhole
  <2> QED  BY <2>1, <2>2 DEF OfflineKept
<1> QED  BY <1>1, WorkerInvariant, PTL

-----------------------------------------------------------------------------
(***************************************************************************)
(* Proofs about the post editor, for any number of calls, edits, commands, *)
(* handlers of one Ctrl+S and rows.                                        *)
(***************************************************************************)

CallType == [kind : Kinds, new : BOOLEAN, id : 1..MaxPosts \cup {NoId}, data : Versions,
             stage : {"sent", "ok", "failed"}, parted : BOOLEAN]
RowType == [data : Versions, trashed : BOOLEAN]

EditorFlags ==
    /\ mounted \in BOOLEAN /\ isNew \in BOOLEAN /\ saving \in BOOLEAN /\ deleting \in BOOLEAN
    /\ pending \in BOOLEAN /\ timer \in BOOLEAN /\ late \in BOOLEAN /\ parked \in BOOLEAN

PageTyped ==
    /\ awaited \in {"post", "igStatus", "none"}
    /\ viewing \in Calls \cup {NoId}
    /\ postId \in 1..MaxPosts \cup {NoId}
    /\ isNew <=> postId = NoId
    /\ timer => mounted
    /\ chip \in {"none", "idle", "saving", "saved", "failed"}
    /\ mode \in {"visual", "text"}
    /\ form \in Versions /\ post \in Versions
    /\ hooks \in 0..MaxHandlers
    /\ edits \in 0..MaxEdits
    /\ errands \in 0..MaxErrands

CallsTyped ==
    /\ calls \in [Calls -> CallType]
    /\ rows \in Seq(RowType)
    /\ Len(rows) <= MaxPosts
    /\ spare \in Nat
    /\ missed \subseteq Kinds \X BOOLEAN

(* Creates that the server has yet to serve.                               *)
NewSent == {c \in Calls : calls[c].new /\ calls[c].stage = "sent"}

(* No call can bring this page the row it does not have.                   *)
Rowless == mounted /\ isNew /\ \A c \in Calls : calls[c].new => calls[c].stage = "failed"

(* Every row beyond the first, there or on its way, was counted; and the   *)
(* first one is still to be had as long as the page may ask for it.        *)
Counted ==
    /\ Len(rows) + Cardinality(NewSent) <= spare + 1
    /\ Rowless => Len(rows) + Cardinality(NewSent) <= spare

(* Whoever needs a row knows one that is there.                            *)
Addressed ==
    /\ postId \in DOMAIN rows \cup {NoId}
    /\ \A c \in Calls :
          /\ calls[c].new => calls[c].kind \in Writes
          /\ calls[c].new /\ calls[c].stage = "ok" => calls[c].id \in DOMAIN rows
          /\ calls[c].kind \in Writes \cup {"delete", "instagram"} /\ ~calls[c].new
                => calls[c].id \in DOMAIN rows

Parting == \A c \in Calls : calls[c].kind = "autosave" => ~calls[c].parted

Issued == CallsTyped /\ Counted /\ Addressed /\ Parting /\ DeletingParks

(* Until the post is there nothing is sent; and who has edits to save does *)
(* not say Saved.                                                          *)
Awaiting ==
    /\ awaited = "post" => /\ ~isNew /\ ~timer /\ chip # "saved"
                           /\ \A c \in Calls : calls[c].kind = "none"
    /\ chip = "saved" => ~pending
    /\ ~mounted => ~pending /\ awaited # "post"

(* A write under way is the only one, goes to the page's row, and brings   *)
(* what the form will be when it is answered: an autosave the form as it   *)
(* is; a save, which draws the form again, at least the blocks, or all of  *)
(* it once it is answered as text.                                         *)
Bringing(c) ==
    calls[c].kind \in Writes =>
        /\ \A d \in Calls : calls[d].kind \in Writes => d = c
        /\ ~calls[c].new => calls[c].id = postId
        /\ calls[c].stage = "ok" => rows[calls[c].id].data = calls[c].data
        /\ calls[c].kind = "autosave" => calls[c].data = form
        /\ calls[c].data.content = form.content \/ (calls[c].kind = "save" /\ mode = "text")

Latest ==
    mounted /\ ~late =>
        /\ \A c \in Calls : Bringing(c)
        /\ chip = "saved" /\ ~Writing => postId \in DOMAIN rows /\ rows[postId].data = form

EditorInv == EditorFlags /\ PageTyped /\ Issued /\ Awaiting /\ Latest

LEMMA NumbersAre ==
    /\ MaxCalls \in Nat /\ MaxEdits \in Nat /\ MaxErrands \in Nat
    /\ MaxHandlers \in Nat /\ MaxHandlers > 0 /\ MaxPosts \in Nat /\ MaxPosts > 0
    /\ NoId \notin Nat /\ NoId \notin 1..MaxPosts
<1>1. /\ MaxCalls \in Nat /\ MaxEdits \in Nat /\ MaxErrands \in Nat /\ NoId \notin Nat
      /\ MaxHandlers \in Nat \ {0} /\ MaxPosts \in Nat \ {0}
  BY EditorAssumption
<1> QED  BY <1>1

LEMMA BlankIs == Blank \in Versions /\ Blank.content = 0 /\ Blank.fields = 0
<1>1. 0 \in 0..MaxEdits /\ 0 \in 0..Published
  BY NumbersAre DEF Published
<1> QED  BY <1>1 DEF Blank, Versions

LEMMA VersionsAre ==
    ASSUME NEW f \in Versions
    PROVE  /\ f.fields \in 0..MaxEdits /\ f.status \in 0..Published
           /\ f.details \in 0..MaxEdits /\ f.content \in 0..MaxEdits
           /\ \A e \in 0..MaxEdits : /\ [f EXCEPT !.fields = e] \in Versions
                                    /\ [f EXCEPT !.details = e] \in Versions
                                    /\ [f EXCEPT !.content = e] \in Versions
           /\ \A st \in 0..Published :
                 /\ [f EXCEPT !.status = st] \in Versions
                 /\ [f EXCEPT !.status = st].content = f.content
                 /\ st = f.status => [f EXCEPT !.status = st] = f
BY DEF Versions

LEMMA StatusesAre == 0 \in 0..Published /\ Published \in 0..Published /\ 0..MaxEdits \subseteq 0..Published
BY NumbersAre DEF Published

LEMMA NoCallIs ==
    /\ NoCall \in CallType
    /\ NoCall.kind = "none" /\ ~NoCall.new /\ ~NoCall.parted
    /\ NoCall.stage = "sent" /\ NoCall.id = NoId
<1>1. FALSE \in BOOLEAN
  OBVIOUS
<1> QED  BY <1>1, BlankIs DEF NoCall, CallType, Kinds, Writes

(* What the record of a new call says.                                     *)
LEMMA SentIs ==
    ASSUME EditorFlags, PageTyped, NEW kind \in Kinds, NEW data \in Versions
    PROVE  /\ Sent(kind, data) \in CallType
           /\ Sent(kind, data).kind = kind /\ Sent(kind, data).data = data
           /\ Sent(kind, data).stage = "sent" /\ Sent(kind, data).id = postId
           /\ Sent(kind, data).new <=> isNew /\ kind \in Writes
           /\ Sent(kind, data).parted <=> deleting
<1>1. (isNew /\ kind \in Writes) \in BOOLEAN
  OBVIOUS
<1>2. deleting \in BOOLEAN
  BY DEF EditorFlags
<1>3. postId \in 1..MaxPosts \cup {NoId}
  BY DEF PageTyped
<1>4. Sent(kind, data) \in CallType
  BY <1>1, <1>2, <1>3 DEF Sent, CallType
<1> QED  BY <1>4 DEF Sent

LEMMA CallsAre ==
    ASSUME CallsTyped, NEW c \in Calls
    PROVE  /\ calls[c] \in CallType
           /\ calls[c].kind \in Kinds /\ calls[c].data \in Versions
           /\ calls[c].id \in 1..MaxPosts \cup {NoId}
           /\ calls[c].stage \in {"sent", "ok", "failed"}
<1>1. calls[c] \in CallType
  BY DEF CallsTyped
<1> QED  BY <1>1 DEF CallType

LEMMA SentCreates ==
    ASSUME CallsTyped
    PROVE  IsFiniteSet(NewSent) /\ Cardinality(NewSent) \in Nat
<1>1. IsFiniteSet(Calls)
  BY FS_Interval, NumbersAre DEF Calls
<1>2. NewSent \in SUBSET Calls
  BY DEF NewSent
<1> QED  BY <1>1, <1>2, FS_Subset, FS_CardinalityType

-----------------------------------------------------------------------------
(* What is issued.                                                         *)

LEMMA IssuedStays ==
    ASSUME Issued, UNCHANGED <<calls, serverVars, spare>>,
           UNCHANGED <<mounted, identity>> \/ (~mounted' /\ postId' = NoId)
    PROVE  Issued'
<1>1. UNCHANGED <<calls, rows, missed, spare>>
  BY DEF serverVars
<1>2. CallsTyped' /\ Parting' /\ DeletingParks'
  BY <1>1 DEF Issued, CallsTyped, Parting, DeletingParks
<1>3. NewSent' = NewSent
  BY <1>1 DEF NewSent
<1>4. Rowless' => Rowless
  BY <1>1 DEF Rowless, identity
<1>5. Counted'
  BY <1>1, <1>3, <1>4 DEF Issued, Counted
<1>6. Addressed'
  BY <1>1 DEF Issued, Addressed, identity
<1> QED  BY <1>2, <1>5, <1>6 DEF Issued

(* A call is answered: the page is gone, or it has its row if this is what *)
(* the call brought, or the call was none that could.                      *)
LEMMA IssuedEnds ==
    ASSUME Issued, NEW c \in Calls, calls[c].stage # "sent", Done(c), UNCHANGED <<serverVars,
                                                                                  spare>>,
           mounted' => mounted,
           \/ ~mounted' /\ postId' \in {postId, NoId}
           \/ UNCHANGED identity /\ (calls[c].new => calls[c].stage = "failed")
           \/ Adopt(c) /\ Ok(c)
    PROVE  Issued'
<1>1. UNCHANGED <<rows, missed, spare>> /\ calls' = [calls EXCEPT ![c] = NoCall]
  BY DEF serverVars, Done
<1>2. calls' \in [Calls -> CallType]
  BY <1>1, NoCallIs DEF Issued, CallsTyped
<1>3. /\ calls'[c] = NoCall
      /\ \A d \in Calls : d # c => calls'[d] = calls[d]
  BY <1>1 DEF Issued, CallsTyped
<1>4. CallsTyped' /\ DeletingParks'
  BY <1>1, <1>2 DEF Issued, CallsTyped, DeletingParks
<1>5. NewSent' = NewSent
  BY <1>3, NoCallIs DEF NewSent
<1>6. Parting'
  BY <1>3, NoCallIs DEF Issued, Parting
<1>7. Rowless' => Rowless
  BY <1>3 DEF Rowless, Adopt, Ok, identity
<1>8. Counted'
  BY <1>1, <1>5, <1>7 DEF Issued, Counted
<1>9. postId' \in DOMAIN rows \cup {NoId}
  BY DEF Issued, Addressed, Adopt, Ok, identity
<1>10. Addressed'
  BY <1>1, <1>3, <1>9, NoCallIs DEF Issued, Addressed, Writes
<1> QED  BY <1>4, <1>6, <1>8, <1>10 DEF Issued

(* Calls are sent, creates among them are counted unless they are the only *)
(* one.                                                                    *)
LEMMA IssuedSends ==
    ASSUME Issued, EditorFlags, PageTyped, mounted,
           NEW S \in SUBSET FreeCalls, S # {}, NEW n \in Nat, Cardinality(S) <= n, n > 0,
           NEW kind \in Kinds \ {"none"},
           kind = "autosave" => ~deleting,
           kind \in {"delete", "instagram"} => ~isNew,
           calls' \in [Calls -> CallType],
           \A d \in Calls \ S : calls'[d] = calls[d],
           \A d \in S : \E data \in Versions : calls'[d] = Sent(kind, data),
           UNCHANGED <<serverVars, mounted, identity>>,
           spare' = spare + (IF ~isNew \/ kind \notin Writes THEN 0
                                ELSE IF Creating THEN n ELSE n - 1)
    PROVE  Issued'
<1>1. UNCHANGED <<rows, missed, mounted, isNew, postId>>
  BY DEF serverVars, identity
<1>2. \A d \in S : /\ calls'[d].kind = kind /\ calls'[d].stage = "sent"
                   /\ calls'[d].id = postId
                   /\ calls'[d].new <=> isNew /\ kind \in Writes
                   /\ calls'[d].parted <=> deleting
  BY SentIs
<1>3. spare' \in Nat
  BY DEF Issued, CallsTyped
<1>4. CallsTyped' /\ DeletingParks'
  BY <1>1, <1>3 DEF Issued, CallsTyped, DeletingParks
<1>5. \A d \in S : d \in Calls /\ calls[d].kind = "none" /\ ~calls[d].new
  BY DEF FreeCalls, UnderWay, Issued, Addressed, Writes
<1>6. Parting'
  BY <1>2 DEF Issued, Parting
<1>7. Addressed'
  <2>1. ~isNew => postId \in DOMAIN rows
    BY DEF Issued, Addressed, PageTyped
  <2> QED  BY <1>1, <1>2, <2>1 DEF Issued, Addressed
<1>8. Counted'
  <2>1. CASE ~isNew \/ kind \notin Writes
    <3>1. NewSent' = NewSent
      BY <1>2, <1>5, <2>1 DEF NewSent
    <3>2. spare' = spare
      BY <2>1 DEF Issued, CallsTyped
    <3>3. Rowless' => Rowless
      BY <1>1, <1>5 DEF Rowless
    <3> QED  BY <1>1, <3>1, <3>2, <3>3 DEF Issued, Counted
  <2>2. CASE isNew /\ kind \in Writes
    <3>1. NewSent' = NewSent \cup S
      BY <1>2, <1>5, <2>2 DEF NewSent
    <3>2. /\ IsFiniteSet(S) /\ Cardinality(S) \in Nat
          /\ Cardinality(NewSent \cup S) \in Nat
          /\ Cardinality(NewSent \cup S) <= Cardinality(NewSent) + Cardinality(S)
      <4>1. IsFiniteSet(Calls)
        BY FS_Interval, NumbersAre DEF Calls
      <4>2. S \in SUBSET Calls
        BY <1>5
      <4>3. IsFiniteSet(S) /\ Cardinality(S) \in Nat
        BY <4>1, <4>2, FS_Subset, FS_CardinalityType
      <4>4. IsFiniteSet(NewSent) /\ Cardinality(NewSent) \in Nat
        BY SentCreates DEF Issued
      <4>5. IsFiniteSet(NewSent \cap S) /\ Cardinality(NewSent \cap S) \in Nat
        BY <4>3, FS_Intersection, FS_CardinalityType
      <4>6. /\ IsFiniteSet(NewSent \cup S)
            /\ Cardinality(NewSent \cup S) =
                  Cardinality(NewSent) + Cardinality(S) - Cardinality(NewSent \cap S)
        BY <4>3, <4>4, FS_Union
      <4> QED  BY <4>3, <4>4, <4>5, <4>6, FS_CardinalityType
    <3>3. ~Rowless'
      <4>1. PICK d \in S : TRUE
        OBVIOUS
      <4>2. d \in Calls /\ calls'[d].new /\ calls'[d].stage = "sent"
        BY <1>2, <1>5, <2>2
      <4> QED  BY <4>2 DEF Rowless
    <3>4. Cardinality(NewSent) \in Nat
      BY SentCreates DEF Issued
    <3>5. Len(rows) \in Nat /\ spare \in Nat
      BY DEF Issued, CallsTyped
    <3>6. Len(rows) + Cardinality(NewSent) <= spare + (IF Creating THEN 1 ELSE 0)
      <4>1. ~Creating => Rowless
        BY <2>2 DEF Rowless, Creating
      <4> QED  BY <3>4, <3>5, <4>1 DEF Issued, Counted
    <3>7. spare' = spare + (IF Creating THEN n ELSE n - 1)
      BY <2>2
    <3>8. Len(rows)' + Cardinality(NewSent') <= spare' + 1
      BY <1>1, <3>1, <3>2, <3>4, <3>5, <3>6, <3>7
    <3> QED  BY <3>3, <3>8 DEF Counted
  <2> QED  BY <2>1, <2>2
<1> QED  BY <1>4, <1>6, <1>7, <1>8 DEF Issued

(* What the service of a call does to the call.                            *)
ServedAs(c, how, id, data) ==
    calls' = [calls EXCEPT ![c] = [calls[c] EXCEPT !.stage = how, !.id = id, !.data = data]]

LEMMA ServedIs ==
    ASSUME CallsTyped, NEW c \in Calls, NEW how \in {"ok", "failed"},
           NEW id \in 1..MaxPosts \cup {NoId}, NEW data \in Versions,
           ServedAs(c, how, id, data)
    PROVE  /\ calls' \in [Calls -> CallType]
           /\ calls'[c].kind = calls[c].kind /\ (calls'[c].new <=> calls[c].new)
           /\ calls'[c].parted <=> calls[c].parted
           /\ calls'[c].stage = how /\ calls'[c].id = id /\ calls'[c].data = data
           /\ \A d \in Calls : d # c => calls'[d] = calls[d]
<1> DEFINE rec == [calls[c] EXCEPT !.stage = how, !.id = id, !.data = data]
<1>1. calls[c] \in CallType
  BY DEF CallsTyped
<1>2. rec \in CallType
  BY <1>1 DEF CallType
<1>3. /\ rec.kind = calls[c].kind /\ rec.new = calls[c].new /\ rec.parted = calls[c].parted
      /\ rec.stage = how /\ rec.id = id /\ rec.data = data
  BY <1>1 DEF CallType
<1>4. calls' = [calls EXCEPT ![c] = rec] /\ calls \in [Calls -> CallType]
  BY DEF CallsTyped, ServedAs
<1> HIDE DEF rec
<1>5. calls' \in [Calls -> CallType] /\ calls'[c] = rec /\ \A d \in Calls : d # c => calls'[d] = calls[d]
  BY <1>2, <1>4
<1> QED  BY <1>3, <1>5

(* A row that is written or trashed stays where it is.                     *)
LEMMA RowsAre ==
    ASSUME CallsTyped, NEW id \in DOMAIN rows
    PROVE  /\ id \in 1..MaxPosts /\ rows[id] \in RowType
           /\ rows[id].data \in Versions /\ rows[id].trashed \in BOOLEAN
           /\ \A row \in RowType : /\ [rows EXCEPT ![id] = row] \in Seq(RowType)
                                   /\ Len([rows EXCEPT ![id] = row]) = Len(rows)
                                   /\ DOMAIN [rows EXCEPT ![id] = row] = DOMAIN rows
<1>1. rows \in Seq(RowType) /\ Len(rows) <= MaxPosts /\ Len(rows) \in Nat /\ DOMAIN rows = 1..Len(rows)
  BY DEF CallsTyped
<1>2. id \in 1..MaxPosts /\ rows[id] \in RowType
  BY <1>1, NumbersAre
<1>3. rows[id].data \in Versions /\ rows[id].trashed \in BOOLEAN
  BY <1>2 DEF RowType
<1> QED  BY <1>1, <1>2, <1>3

(* What the service of one call does to rows and counts.                   *)
Creates(c, how, id) ==
    /\ calls[c].new
    /\ rows' = Append(rows, [data |-> calls[c].data, trashed |-> FALSE])
    /\ Len(rows) < MaxPosts
    /\ how = "ok" => id = Len(rows) + 1
    /\ spare' = spare + (IF how = "ok" THEN 0 ELSE 1)
    /\ UNCHANGED missed

Updates(c, id, data) ==
    /\ calls[c].kind \in Writes /\ ~calls[c].new
    /\ id = calls[c].id /\ id \in DOMAIN rows
    /\ data = calls[c].data
    /\ rows' = [rows EXCEPT ![id] = [data |-> data, trashed |-> rows[id].trashed]]
    /\ UNCHANGED <<spare, missed>>

Trashes(c, id) ==
    /\ calls[c].kind = "delete"
    /\ id = calls[c].id /\ id \in DOMAIN rows
    /\ rows' = [rows EXCEPT ![id] = [data |-> rows[id].data, trashed |-> TRUE]]
    /\ UNCHANGED <<spare, missed>>

Answers(c, how, id) ==
    /\ id = calls[c].id
    /\ calls[c].new => how = "failed"
    /\ calls[c].kind \in Writes => how = "failed"
    /\ missed' \subseteq missed \cup {<<calls[c].kind, calls[c].parted>>}
    /\ UNCHANGED <<rows, spare>>

LEMMA ServedSplits ==
    ASSUME Issued, NEW c \in Calls, Serve(c)
    PROVE  \E how \in {"ok", "failed"}, id \in 1..MaxPosts \cup {NoId}, data \in Versions :
              /\ ServedAs(c, how, id, data)
              /\ calls[c].kind \in Writes => data = calls[c].data
              /\ \/ Creates(c, how, id)
                 \/ Updates(c, id, data)
                 \/ Trashes(c, id)
                 \/ Answers(c, how, id)
<1> DEFINE k == calls[c]
<1>1. /\ k.kind \in Kinds /\ k.data \in Versions /\ k.id \in 1..MaxPosts \cup {NoId}
      /\ Addressed /\ CallsTyped
  BY CallsAre DEF Issued
<1>2. Len(rows) \in Nat /\ Len(rows) <= MaxPosts
  BY <1>1 DEF CallsTyped
<1>3. CASE /\ k.kind \in Writes /\ k.new /\ Len(rows) < MaxPosts
           /\ rows' = Append(rows, [data |-> k.data, trashed |-> FALSE])
           /\ \/ ServedAs(c, "ok", Len(rows) + 1, k.data) /\ UNCHANGED spare
              \/ ServedAs(c, "failed", NoId, k.data) /\ spare' = spare + 1
           /\ UNCHANGED missed
  <2>1. Len(rows) + 1 \in 1..MaxPosts /\ spare \in Nat
    BY <1>1, <1>2, <1>3, NumbersAre DEF CallsTyped
  <2>2. CASE ServedAs(c, "ok", Len(rows) + 1, k.data) /\ UNCHANGED spare
    <3>1. Creates(c, "ok", Len(rows) + 1)
      BY <1>3, <2>1, <2>2 DEF Creates
    <3> QED  BY <1>1, <2>1, <2>2, <3>1
  <2>3. CASE ServedAs(c, "failed", NoId, k.data) /\ spare' = spare + 1
    <3>1. Creates(c, "failed", NoId)
      BY <1>3, <2>1, <2>3 DEF Creates
    <3> QED  BY <1>1, <2>1, <2>3, <3>1
  <2> QED  BY <1>3, <2>2, <2>3
<1>4. CASE /\ k.kind \in Writes /\ ~k.new /\ ~rows[k.id].trashed
           /\ rows' = [rows EXCEPT ![k.id].data = k.data]
           /\ \E how \in {"ok", "failed"} : ServedAs(c, how, k.id, k.data)
           /\ UNCHANGED <<spare, missed>>
  <2>1. k.id \in DOMAIN rows
    BY <1>1, <1>4 DEF Addressed
  <2>2. rows[k.id] \in RowType
    BY <1>1, <2>1, RowsAre
  <2>3. [rows[k.id] EXCEPT !.data = k.data] = [data |-> k.data, trashed |-> rows[k.id].trashed]
    BY <2>2 DEF RowType
  <2>4. rows' = [rows EXCEPT ![k.id] = [data |-> k.data, trashed |-> rows[k.id].trashed]]
    BY <1>4, <2>3
  <2>5. Updates(c, k.id, k.data)
    BY <1>4, <2>1, <2>4 DEF Updates
  <2> QED  BY <1>1, <1>4, <2>5
<1>5. CASE /\ k.kind = "delete"
           /\ rows' = [rows EXCEPT ![k.id].trashed = TRUE]
           /\ \E how \in {"ok", "failed"} : ServedAs(c, how, k.id, k.data)
           /\ UNCHANGED <<spare, missed>>
  <2>1. k.id \in DOMAIN rows
    BY <1>1, <1>5 DEF Addressed, Writes
  <2>2. rows[k.id] \in RowType
    BY <1>1, <2>1, RowsAre
  <2>3. [rows[k.id] EXCEPT !.trashed = TRUE] = [data |-> rows[k.id].data, trashed |-> TRUE]
    <3>1. \A b \in BOOLEAN :
              [rows[k.id] EXCEPT !.trashed = b] = [data |-> rows[k.id].data, trashed |-> b]
      BY <2>2 DEF RowType
    <3>2. TRUE \in BOOLEAN
      OBVIOUS
    <3> QED  BY <3>1, <3>2, Zenon
  <2>4. rows' = [rows EXCEPT ![k.id] = [data |-> rows[k.id].data, trashed |-> TRUE]]
    BY <1>5, <2>3
  <2>5. Trashes(c, k.id)
    BY <1>5, <2>1, <2>4 DEF Trashes
  <2> QED  BY <1>1, <1>5, <2>5
<1>6. CASE /\ k.kind \in {"preview", "analyze", "field"}
           /\ ServedAs(c, "ok", k.id, k.data)
           /\ UNCHANGED <<rows, spare, missed>>
  <2>1. Answers(c, "ok", k.id)
    BY <1>1, <1>6 DEF Answers, Addressed, Writes
  <2> QED  BY <1>1, <1>6, <2>1
<1>7. CASE /\ k.kind = "instagram"
           /\ ServedAs(c, "ok", k.id, rows[k.id].data)
           /\ UNCHANGED <<rows, spare, missed>>
  <2>1. Answers(c, "ok", k.id)
    BY <1>1, <1>7 DEF Answers, Addressed, Writes
  <2>2. k.id \in DOMAIN rows
    BY <1>1, <1>7 DEF Addressed, Writes
  <2>3. rows[k.id].data \in Versions
    BY <1>1, <2>2, RowsAre
  <2> QED  BY <1>1, <1>7, <2>1, <2>3 DEF Writes
<1>8. CASE /\ ServedAs(c, "failed", k.id, k.data)
           /\ missed' = IF k.kind \in Writes /\ ~k.new /\ rows[k.id].trashed
                          THEN missed \cup {<<k.kind, k.parted>>} ELSE missed
           /\ UNCHANGED <<rows, spare>>
  <2>1. Answers(c, "failed", k.id)
    BY <1>8 DEF Answers
  <2> QED  BY <1>1, <1>8, <2>1
<1> QED  BY <1>3, <1>4, <1>5, <1>6, <1>7, <1>8 DEF Serve, ServedAs

LEMMA IssuedServed ==
    ASSUME Issued, NEW c \in Calls, Serve(c)
    PROVE  Issued'
<1>1. UNCHANGED <<mounted, isNew, postId>> /\ calls[c].stage = "sent" /\ CallsTyped /\ Addressed
  BY DEF Serve, pageVars, identity, Issued
<1>2. PICK how \in {"ok", "failed"}, id \in 1..MaxPosts \cup {NoId}, data \in Versions :
          /\ ServedAs(c, how, id, data)
          /\ calls[c].kind \in Writes => data = calls[c].data
          /\ \/ Creates(c, how, id)
             \/ Updates(c, id, data)
             \/ Trashes(c, id)
             \/ Answers(c, how, id)
  BY ServedSplits
<1>3. /\ calls' \in [Calls -> CallType]
      /\ calls'[c].kind = calls[c].kind /\ (calls'[c].new <=> calls[c].new)
      /\ calls'[c].parted <=> calls[c].parted
      /\ calls'[c].stage = how /\ calls'[c].id = id /\ calls'[c].data = data
      /\ \A d \in Calls : d # c => calls'[d] = calls[d]
  BY <1>1, <1>2, ServedIs
<1>4. /\ rows \in Seq(RowType) /\ Len(rows) \in Nat /\ DOMAIN rows = 1..Len(rows)
      /\ spare \in Nat /\ Len(rows) <= MaxPosts
  BY <1>1 DEF CallsTyped
<1>5. IsFiniteSet(NewSent) /\ Cardinality(NewSent) \in Nat
  BY <1>1, SentCreates
<1>6. NewSent' = NewSent \ {c} /\ (c \in NewSent <=> calls[c].new)
  BY <1>1, <1>2, <1>3 DEF NewSent
<1>7. Cardinality(NewSent') = IF calls[c].new THEN Cardinality(NewSent) - 1 ELSE Cardinality(NewSent)
  BY <1>5, <1>6, FS_RemoveElement
<1>8. Parting'
  BY <1>3 DEF Issued, Parting
<1>9. ~calls[c].new => (Rowless' <=> Rowless)
  BY <1>1, <1>3 DEF Rowless
<1>10. CASE Creates(c, how, id)
  <2>1. /\ rows' \in Seq(RowType) /\ Len(rows') = Len(rows) + 1 /\ Len(rows') <= MaxPosts
        /\ DOMAIN rows' = 1..(Len(rows) + 1)
    <3>1. FALSE \in BOOLEAN /\ calls[c].data \in Versions
      BY <1>1, CallsAre
    <3>2. [data |-> calls[c].data, trashed |-> FALSE] \in RowType
      BY <3>1 DEF RowType
    <3> QED  BY <1>4, <1>10, <3>2, NumbersAre DEF Creates
  <2>2. spare' \in Nat /\ UNCHANGED missed
    BY <1>4, <1>10 DEF Creates
  <2>3. CallsTyped' /\ DeletingParks'
    BY <1>3, <2>1, <2>2 DEF Issued, CallsTyped, DeletingParks
  <2>4. Addressed'
    BY <1>1, <1>3, <1>4, <1>10, <2>1 DEF Addressed, Creates
  <2>5. Len(rows) + Cardinality(NewSent) <= spare + 1
    BY DEF Issued, Counted
  <2>6. Cardinality(NewSent') = Cardinality(NewSent) - 1 /\ calls[c].new
    BY <1>7, <1>10 DEF Creates
  <2>7. CASE how = "ok"
    <3>1. spare' = spare
      BY <1>4, <1>10, <2>7 DEF Creates
    <3>2. ~Rowless'
      BY <1>3, <2>6, <2>7 DEF Rowless
    <3>3. Counted'
      BY <1>4, <1>5, <2>1, <2>5, <2>6, <3>1, <3>2 DEF Counted
    <3> QED  BY <1>8, <2>3, <2>4, <3>3 DEF Issued
  <2>8. CASE how = "failed"
    <3>1. spare' = spare + 1
      BY <1>10, <2>8 DEF Creates
    <3>2. Counted'
      BY <1>4, <1>5, <2>1, <2>5, <2>6, <3>1 DEF Counted
    <3> QED  BY <1>8, <2>3, <2>4, <3>2 DEF Issued
  <2> QED  BY <2>7, <2>8
<1>11. CASE Updates(c, id, data) \/ Trashes(c, id)
  <2>1. id \in DOMAIN rows
    BY <1>11 DEF Updates, Trashes
  <2>2. rows[id].data \in Versions /\ rows[id].trashed \in BOOLEAN /\ TRUE \in BOOLEAN
    BY <1>1, <2>1, RowsAre
  <2>3. /\ [data |-> data, trashed |-> rows[id].trashed] \in RowType
        /\ [data |-> rows[id].data, trashed |-> TRUE] \in RowType
    BY <2>2 DEF RowType
  <2>4. PICK row \in RowType : rows' = [rows EXCEPT ![id] = row]
    BY <1>11, <2>3 DEF Updates, Trashes
  <2>5. rows' \in Seq(RowType) /\ Len(rows') = Len(rows) /\ DOMAIN rows' = DOMAIN rows
    BY <1>1, <2>1, <2>4, RowsAre
  <2>6. UNCHANGED <<spare, missed>> /\ ~calls[c].new
    BY <1>1, <1>11 DEF Updates, Trashes, Addressed, Writes
  <2>7. CallsTyped' /\ DeletingParks'
    BY <1>3, <1>4, <2>5, <2>6 DEF Issued, CallsTyped, DeletingParks
  <2>8. Addressed'
    BY <1>1, <1>3, <2>1, <2>5, <2>6 DEF Addressed
  <2>9. Counted'
    BY <1>7, <1>9, <2>5, <2>6 DEF Issued, Counted
  <2> QED  BY <1>8, <2>7, <2>8, <2>9 DEF Issued
<1>12. CASE Answers(c, how, id)
  <2>1. UNCHANGED <<rows, spare>> /\ id = calls[c].id /\ (calls[c].new => how = "failed")
    BY <1>12 DEF Answers
  <2>2. missed' \subseteq Kinds \X BOOLEAN
    <3>1. calls[c].kind \in Kinds /\ calls[c].parted \in BOOLEAN
      BY <1>1 DEF CallsTyped, CallType
    <3> QED  BY <1>1, <1>12, <3>1 DEF Answers, CallsTyped
  <2>3. DeletingParks'
    <3>1. calls[c].kind = "autosave" => ~calls[c].parted
      BY DEF Issued, Parting
    <3>2. <<"autosave", TRUE>> # <<calls[c].kind, calls[c].parted>>
      BY <3>1
    <3> QED  BY <1>12, <3>2 DEF Issued, DeletingParks, Answers
  <2>4. CallsTyped'
    BY <1>1, <1>3, <2>1, <2>2 DEF CallsTyped
  <2>5. Addressed'
    BY <1>1, <1>2, <1>3, <2>1 DEF Addressed
  <2>6. Counted'
    <3>1. CASE calls[c].new
      <4>1. Len(rows) + Cardinality(NewSent) <= spare + 1
        BY DEF Issued, Counted
      <4> QED  BY <1>4, <1>5, <1>7, <2>1, <3>1, <4>1 DEF Counted
    <3>2. CASE ~calls[c].new
      BY <1>7, <1>9, <2>1, <3>2 DEF Issued, Counted
    <3> QED  BY <3>1, <3>2
  <2> QED  BY <1>8, <2>3, <2>4, <2>5, <2>6 DEF Issued
<1> QED  BY <1>2, <1>10, <1>11, <1>12

-----------------------------------------------------------------------------
(* What the writes under way bring.                                        *)

SameWrites ==
    \A d \in Calls : calls'[d] = calls[d] \/ (calls[d].kind \notin Writes /\ calls'[d].kind \notin Writes)

LEMMA SameWriting == SameWrites => (Writing' <=> Writing)
BY DEF SameWrites, Writing, UnderWay

(* The form stays as it is.                                                *)
LEMMA LatestStays ==
    ASSUME Latest, SameWrites, mounted' => mounted, ~late' => ~late,
           UNCHANGED <<form, postId, rows>>,
           ~late' => mode' = mode \/ mode # "text" \/ UnderWay({"save"}) = {},
           chip' = chip \/ chip' # "saved"
    PROVE  Latest'
<1> SUFFICES ASSUME mounted', ~late'
             PROVE  /\ \A c \in Calls : Bringing(c)'
                    /\ chip' = "saved" /\ ~Writing' => postId' \in DOMAIN rows' /\ rows'[postId'].data = form'
  BY DEF Latest
<1>1. ASSUME NEW c \in Calls PROVE Bringing(c)'
  <2> SUFFICES ASSUME calls'[c].kind \in Writes PROVE Bringing(c)'
    BY DEF Bringing
  <2>1. calls'[c] = calls[c] /\ Bringing(c)
    BY DEF Latest, SameWrites
  <2>2. \A d \in Calls : calls'[d].kind \in Writes => d = c
    BY <2>1 DEF SameWrites, Bringing
  <2>3. mode' = mode \/ calls[c].kind # "save" \/ mode # "text"
    BY DEF UnderWay
  <2> QED  BY <2>1, <2>2, <2>3 DEF Bringing
<1>2. chip' = "saved" /\ ~Writing' => postId' \in DOMAIN rows' /\ rows'[postId'].data = form'
  BY SameWriting DEF Latest
<1> QED  BY <1>1, <1>2

(* The form is drawn again: what it loses beside a write, or when nothing  *)
(* is left to save, is noted.                                              *)
LEMMA LatestDraws ==
    ASSUME Latest, Awaiting, SameWrites, mounted' => mounted,
           late' <=> late \/ (form' # form /\ (Writing \/ ~pending)),
           UNCHANGED <<postId, rows, mode, chip>>
    PROVE  Latest'
<1>1. CASE form' = form
  BY <1>1, LatestStays
<1>2. CASE form' # form
  <2>1. late' \/ (~Writing /\ chip # "saved")
    BY <1>2 DEF Awaiting
  <2>2. ~Writing' => \A c \in Calls : calls'[c].kind \notin Writes
    BY DEF Writing, UnderWay
  <2> QED  BY <2>1, <2>2, SameWriting DEF Latest, Bringing
<1> QED  BY <1>1, <1>2

LEMMA LatestServed ==
    ASSUME Latest, Issued, NEW c \in Calls, Serve(c)
    PROVE  Latest'
<1>1. UNCHANGED <<mounted, late, form, mode, postId, chip>> /\ CallsTyped /\ Addressed
  BY DEF Serve, pageVars, identity, screenVars, Issued
<1>2. PICK how \in {"ok", "failed"}, id \in 1..MaxPosts \cup {NoId}, data \in Versions :
          /\ ServedAs(c, how, id, data)
          /\ calls[c].kind \in Writes => data = calls[c].data
          /\ \/ Creates(c, how, id)
             \/ Updates(c, id, data)
             \/ Trashes(c, id)
             \/ Answers(c, how, id)
  BY ServedSplits
<1>3. /\ calls' \in [Calls -> CallType]
      /\ calls'[c].kind = calls[c].kind /\ (calls'[c].new <=> calls[c].new)
      /\ calls'[c].parted <=> calls[c].parted
      /\ calls'[c].stage = how /\ calls'[c].id = id /\ calls'[c].data = data
      /\ \A d \in Calls : d # c => calls'[d] = calls[d]
  BY <1>1, <1>2, ServedIs
<1>4. /\ rows \in Seq(RowType) /\ Len(rows) \in Nat /\ DOMAIN rows = 1..Len(rows)
  BY <1>1 DEF CallsTyped
<1> SUFFICES ASSUME mounted, ~late
             PROVE  /\ \A d \in Calls : Bringing(d)'
                    /\ chip = "saved" /\ ~Writing' => postId \in DOMAIN rows' /\ rows'[postId].data = form
  BY <1>1 DEF Latest
<1>5. CASE calls[c].kind \in Writes
  <2>1. Writing'
    BY <1>3, <1>5 DEF Writing, UnderWay
  <2>2. Bringing(c)
    BY DEF Latest
  <2>3. \A d \in Calls : calls'[d].kind \in Writes => d = c
    BY <1>3, <1>5, <2>2 DEF Bringing
  <2>4. ~calls[c].new => id = postId
    BY <1>2, <1>5, <2>2 DEF Bringing, Creates, Updates, Trashes, Answers, Writes
  <2>5. how = "ok" => rows'[id].data = calls[c].data
    <3>1. CASE Creates(c, how, id)
      BY <1>4, <3>1 DEF Creates
    <3>2. CASE Updates(c, id, data)
      BY <1>4, <3>2 DEF Updates
    <3>3. CASE Trashes(c, id) \/ Answers(c, how, id)
      BY <1>5, <3>3 DEF Trashes, Answers, Writes
    <3> QED  BY <1>2, <3>1, <3>2, <3>3
  <2>6. Bringing(c)'
    BY <1>1, <1>2, <1>3, <1>5, <2>2, <2>3, <2>4, <2>5 DEF Bringing
  <2> QED  BY <2>1, <2>3, <2>6 DEF Bringing
<1>6. CASE calls[c].kind \notin Writes
  <2>1. Trashes(c, id) \/ rows' = rows
    BY <1>1, <1>2, <1>6 DEF Creates, Updates, Answers, Addressed
  <2>2. DOMAIN rows' = DOMAIN rows /\ \A i \in DOMAIN rows : rows'[i].data = rows[i].data
    <3>1. CASE Trashes(c, id)
      BY <1>4, <3>1 DEF Trashes
    <3> QED  BY <2>1, <3>1
  <2>3. SameWrites
    BY <1>3, <1>6 DEF SameWrites
  <2>4. ASSUME NEW d \in Calls PROVE Bringing(d)'
    <3> SUFFICES ASSUME calls'[d].kind \in Writes PROVE Bringing(d)'
      BY DEF Bringing
    <3>1. calls'[d] = calls[d] /\ Bringing(d)
      BY <2>3 DEF Latest, SameWrites
    <3>2. \A e \in Calls : calls'[e].kind \in Writes => e = d
      BY <2>3, <3>1 DEF SameWrites, Bringing
    <3>3. calls[d].stage = "ok" => calls[d].id \in DOMAIN rows
      BY <1>1, <3>1 DEF Addressed
    <3>4. calls[d].stage = "ok" => rows'[calls[d].id].data = calls[d].data
      BY <2>2, <3>1, <3>3 DEF Bringing
    <3> QED  BY <1>1, <3>1, <3>2, <3>4 DEF Bringing
  <2> QED  BY <2>2, <2>3, <2>4, SameWriting DEF Latest
<1> QED  BY <1>5, <1>6

(* The only write is sent.                                                 *)
LEMMA LatestSends ==
    ASSUME EditorFlags, PageTyped, NEW c \in FreeCalls, NEW kind \in Writes,
           NEW data \in Versions, data.content = form.content,
           ~late' => ~Writing /\ calls'[c] = Sent(kind, data),
           ~late' => \A d \in Calls : d # c => calls'[d] = calls[d],
           ~late' /\ kind = "autosave" => form' = form /\ data = form,
           form'.content = form.content \/ (kind = "save" /\ mode = "text"),
           UNCHANGED <<mode, postId>>
    PROVE  Latest'
<1> SUFFICES ASSUME ~late'
             PROVE  /\ \A d \in Calls : Bringing(d)'
                    /\ Writing'
  BY DEF Latest
<1>1. c \in Calls /\ kind \in Kinds
  BY DEF FreeCalls, UnderWay, Kinds
<1>2. /\ calls'[c].kind = kind /\ calls'[c].data = data /\ calls'[c].stage = "sent"
      /\ calls'[c].id = postId
  BY <1>1, SentIs
<1>3. \A d \in Calls : calls'[d].kind \in Writes => d = c
  BY DEF Writing, UnderWay
<1>4. Bringing(c)'
  BY <1>1, <1>2, <1>3 DEF Bringing
<1> QED  BY <1>1, <1>2, <1>3, <1>4 DEF Bringing, Writing, UnderWay

(* A write is answered; without overlaps it was the only one.              *)
LEMMA LatestEnds ==
    ASSUME Latest, CallsTyped, NEW c \in Calls, calls[c].kind \in Writes, Done(c),
           mounted' => mounted, ~late' => ~late, UNCHANGED rows,
           mounted' /\ ~late' /\ chip' = "saved" =>
               postId' \in DOMAIN rows /\ rows[postId'].data = form'
    PROVE  Latest'
<1> SUFFICES ASSUME mounted', ~late'
             PROVE  \A d \in Calls : Bringing(d)'
  BY DEF Latest
<1>1. calls'[c].kind = "none" /\ \A d \in Calls : d # c => calls'[d] = calls[d]
  BY NoCallIs DEF Done, CallsTyped
<1>2. \A d \in Calls : calls[d].kind \in Writes => d = c
  BY DEF Latest, Bringing
<1> QED  BY <1>1, <1>2 DEF Bringing, Writes

-----------------------------------------------------------------------------
(* The page.                                                               *)

LEMMA RenderedIs ==
    ASSUME NEW f \in Versions, NEW p \in Versions, NEW m
    PROVE  /\ Rendered(f, p, m) \in Versions
           /\ m = "visual" => Rendered(f, p, m).content = f.content
           /\ m # "visual" => Rendered(f, p, m) = p
           /\ f.content = p.content => Rendered(f, p, m) = p
<1>1. f.content \in 0..MaxEdits
  BY VersionsAre
<1>2. [p EXCEPT !.content = f.content] \in Versions
  BY <1>1, VersionsAre
<1> QED  BY <1>2 DEF Rendered, Versions

LEMMA DrawIs ==
    ASSUME PageTyped, NEW p \in Versions, NEW m \in {"visual", "text"}, NEW n \in Nat, Draw(p, m, n)
    PROVE  /\ post' = p /\ mode' = m /\ form' = Rendered(form, p, m)
           /\ post' \in Versions /\ mode' \in {"visual", "text"} /\ form' \in Versions
           /\ hooks' \in 0..MaxHandlers
<1>1. form \in Versions /\ hooks \in 0..MaxHandlers
  BY DEF PageTyped
<1>2. form' \in Versions /\ post' = p /\ mode' = m /\ form' = Rendered(form, p, m)
  BY <1>1, RenderedIs DEF Draw
<1>3. hooks' \in 0..MaxHandlers
  BY <1>1, NumbersAre DEF Draw, AtMost
<1> QED  BY <1>2, <1>3

LEMMA RedrawIs ==
    ASSUME NEW p, NEW m, NEW n, Redraw(p, m, n)
    PROVE  /\ Draw(p, m, n)
           /\ late' <=> late \/ (form' # form /\ (Writing \/ ~pending))
           /\ late' \in BOOLEAN
<1>1. (late \/ (form' # form /\ (Writing \/ ~pending))) \in BOOLEAN
  OBVIOUS
<1>2. late' = (late \/ (form' # form /\ (Writing \/ ~pending)))
  BY DEF Redraw
<1>3. late' \in BOOLEAN
  BY <1>1, <1>2, Zenon
<1>4. late' <=> late \/ (form' # form /\ (Writing \/ ~pending))
  BY <1>2, Zenon
<1> QED  BY <1>3, <1>4 DEF Redraw

Chips == {"none", "idle", "saving", "saved", "failed"}

(* A page that is left keeps all there is to keep.                         *)
LEMMA LeftKeeps ==
    ASSUME Issued', Leaving, chip' \in Chips, edits' \in 0..MaxEdits, errands' \in 0..MaxErrands
    PROVE  EditorInv'
<1>1. EditorFlags'
  BY DEF Leaving, EditorFlags
<1>2. PageTyped'
  BY BlankIs, NumbersAre DEF Leaving, PageTyped, Chips
<1>3. Awaiting' /\ Latest'
  BY DEF Leaving, Awaiting, Latest
<1> QED  BY <1>1, <1>2, <1>3 DEF EditorInv

LEMMA CommandIs ==
    ASSUME PageTyped, Command
    PROVE  /\ mounted /\ awaited # "post"
           /\ edits' \in 0..MaxEdits /\ errands' \in 0..MaxErrands
BY NumbersAre DEF Command, Editable, PageTyped

(* One call is sent.                                                       *)
LEMMA SendIs ==
    ASSUME Issued, EditorFlags, PageTyped, mounted, NEW c \in Calls,
           NEW kind \in Kinds \ {"none"}, NEW data \in Versions, Send(c, kind, data),
           kind = "autosave" => ~deleting,
           kind \in {"delete", "instagram"} => ~isNew,
           UNCHANGED <<serverVars, mounted, identity>>,
           spare' = IF isNew /\ kind \in Writes /\ Creating THEN spare + 1 ELSE spare
    PROVE  /\ Issued'
           /\ c \in FreeCalls /\ calls'[c] = Sent(kind, data)
           /\ \A d \in Calls : d # c => calls'[d] = calls[d]
           /\ kind \notin Writes => SameWrites
<1>1. calls \in [Calls -> CallType] /\ spare \in Nat
  BY DEF Issued, CallsTyped
<1>2. Sent(kind, data) \in CallType /\ Sent(kind, data).kind = kind
  BY SentIs
<1>3. c \in FreeCalls /\ calls' = [calls EXCEPT ![c] = Sent(kind, data)]
  BY DEF Send
<1>4. /\ calls' \in [Calls -> CallType] /\ calls'[c] = Sent(kind, data)
      /\ \A d \in Calls : d # c => calls'[d] = calls[d]
  BY <1>1, <1>2, <1>3
<1>5. calls[c].kind = "none"
  BY <1>3 DEF FreeCalls, UnderWay
<1>6. Cardinality({c}) <= 1 /\ {c} \in SUBSET FreeCalls /\ {c} # {}
  BY <1>3, FS_Singleton
<1>7. spare' = spare + (IF ~isNew \/ kind \notin Writes THEN 0
                           ELSE IF Creating THEN 1 ELSE 1 - 1)
  <2>1. CASE isNew /\ kind \in Writes /\ Creating
    BY <2>1
  <2>2. CASE ~(isNew /\ kind \in Writes /\ Creating)
    BY <1>1, <2>2
  <2> QED  BY <2>1, <2>2
<1>8. Issued'
  <2>1. \A d \in Calls \ {c} : calls'[d] = calls[d]
    BY <1>4
  <2>2. \A d \in {c} : \E v \in Versions : calls'[d] = Sent(kind, v)
    BY <1>4
  <2>3. 1 \in Nat /\ 1 > 0
    OBVIOUS
  <2> QED  BY <1>4, <1>6, <1>7, <2>1, <2>2, <2>3, IssuedSends
<1>9. kind \notin Writes => SameWrites
  BY <1>2, <1>4, <1>5 DEF SameWrites, Writes
<1> QED  BY <1>3, <1>4, <1>8, <1>9

(* A call is over.                                                         *)
LEMMA DoneIs ==
    ASSUME CallsTyped, NEW c \in Calls, Done(c)
    PROVE  /\ calls'[c] = NoCall /\ calls'[c].kind = "none"
           /\ \A d \in Calls : d # c => calls'[d] = calls[d]
           /\ calls[c].kind \notin Writes => SameWrites
<1>1. calls'[c] = NoCall /\ calls'[c].kind = "none" /\ \A d \in Calls : d # c => calls'[d] = calls[d]
  BY NoCallIs DEF Done, CallsTyped
<1> QED  BY <1>1 DEF SameWrites, Writes

-----------------------------------------------------------------------------
(* Every step keeps what the page promises.                                *)

LEMMA LeaveKeeps == ASSUME EditorInv, LeaveEditor PROVE EditorInv'
<1>1. Issued'
  BY IssuedStays DEF EditorInv, LeaveEditor, Leaving
<1>2. chip' \in Chips /\ edits' \in 0..MaxEdits /\ errands' \in 0..MaxErrands
  BY DEF EditorInv, LeaveEditor, PageTyped, Chips, boundVars
<1> QED  BY <1>1, <1>2, LeftKeeps DEF LeaveEditor

LEMMA OrphanKeeps == ASSUME EditorInv, NEW c \in Calls, Orphan(c) PROVE EditorInv'
<1>1. /\ UNCHANGED <<mounted, awaited, viewing, isNew, postId, saving, deleting, pending, timer>>
      /\ UNCHANGED <<parked, mode, form, post, hooks, late, edits, errands, serverVars, spare>>
      /\ ~mounted /\ calls[c].stage # "sent" /\ Done(c)
  BY DEF Orphan, pageVars, identity, flags, saver, screenVars, boundVars
<1>2. Issued'
  BY <1>1, IssuedEnds DEF EditorInv
<1>3. EditorFlags'
  BY <1>1 DEF EditorInv, EditorFlags
<1>4. chip' \in Chips
  BY DEF EditorInv, PageTyped, Orphan, Chips
<1>5. PageTyped'
  BY <1>1, <1>4 DEF EditorInv, PageTyped, Chips
<1>6. Awaiting' /\ Latest'
  BY <1>1 DEF EditorInv, Awaiting, Latest
<1> QED  BY <1>2, <1>3, <1>5, <1>6 DEF EditorInv

LEMMA PostLoadKeeps == ASSUME EditorInv, Load PROVE EditorInv'
<1>1. /\ awaited = "post" /\ UNCHANGED <<chip, calls, serverVars, edits, errands, spare>>
  BY DEF Load, boundVars
<1>2. CASE Leaving
  <2>1. Issued'
    BY <1>1, <1>2, IssuedStays DEF EditorInv, Leaving
  <2>2. chip' \in Chips /\ edits' \in 0..MaxEdits /\ errands' \in 0..MaxErrands
    BY <1>1 DEF EditorInv, PageTyped, Chips
  <2> QED  BY <1>2, <2>1, <2>2, LeftKeeps
<1>3. CASE /\ awaited' = "none" /\ post' = rows[postId].data /\ form' = rows[postId].data
           /\ hooks' = 1
           /\ UNCHANGED <<mounted, viewing, identity, flags, saver, mode, late, debt>>
  <2>1. UNCHANGED <<mounted, viewing, isNew, postId, saving, deleting, pending, timer, parked, mode,
                    late>>
    BY <1>3 DEF identity, flags, saver
  <2>2. Issued'
    BY <1>1, <2>1, IssuedStays DEF EditorInv, identity
  <2>3. EditorFlags'
    BY <2>1 DEF EditorInv, EditorFlags
  <2>4. rows[postId].data \in Versions
    <3>1. postId \in DOMAIN rows
      BY <1>1 DEF EditorInv, Awaiting, PageTyped, Issued, Addressed
    <3> QED  BY <3>1, RowsAre DEF EditorInv, Issued
  <2>5. PageTyped'
    BY <1>1, <1>3, <2>1, <2>4, NumbersAre DEF EditorInv, PageTyped
  <2>6. Awaiting'
    BY <1>1, <1>3, <2>1 DEF EditorInv, Awaiting
  <2>7. Latest'
    BY <1>1 DEF EditorInv, Awaiting, Latest, Bringing, Writes
  <2> QED  BY <2>2, <2>3, <2>5, <2>6, <2>7 DEF EditorInv
<1> QED  BY <1>2, <1>3 DEF Load

LEMMA IgStatusKeeps == ASSUME EditorInv, IgStatus PROVE EditorInv'
<1>1. /\ UNCHANGED <<mounted, viewing, isNew, postId, saving, deleting, pending, timer, parked>>
      /\ UNCHANGED <<chip, calls, rows, missed, edits, errands, spare>>
      /\ awaited' = "none" /\ Redraw(post, mode, 1)
  BY DEF IgStatus, identity, flags, saver, serverVars, boundVars
<1>2. Issued'
  BY <1>1, IssuedStays DEF EditorInv, identity, serverVars
<1>3. Draw(post, mode, 1) /\ late' \in BOOLEAN /\ (late' <=> late \/ (form' # form /\ (Writing \/ ~pending)))
  BY <1>1, RedrawIs
<1>4. EditorFlags'
  BY <1>1, <1>3 DEF EditorInv, EditorFlags
<1>5. /\ mode' = mode /\ post' \in Versions /\ form' \in Versions /\ hooks' \in 0..MaxHandlers
  BY <1>3, DrawIs DEF EditorInv, PageTyped
<1>6. PageTyped'
  BY <1>1, <1>5 DEF EditorInv, PageTyped
<1>7. Awaiting'
  BY <1>1 DEF EditorInv, Awaiting
<1>8. Latest'
  <2>1. SameWrites
    BY <1>1 DEF SameWrites
  <2> QED  BY <1>1, <1>3, <1>5, <2>1, LatestDraws DEF EditorInv
<1> QED  BY <1>2, <1>4, <1>6, <1>7, <1>8 DEF EditorInv

LEMMA EditedIs ==
    ASSUME PageTyped, edits < MaxEdits
    PROVE  /\ edits + 1 \in 0..MaxEdits
           /\ [form EXCEPT !.content = edits + 1] \in Versions
           /\ \A chosen : [part \in PostParts |-> IF part \in chosen THEN edits + 1 ELSE form[part]]
                            \in Versions
<1>1. form \in Versions /\ edits + 1 \in 0..MaxEdits
  BY NumbersAre DEF PageTyped
<1>2. edits + 1 \in 0..Published
  BY <1>1, StatusesAre
<1>3. ASSUME NEW chosen
      PROVE  [part \in PostParts |-> IF part \in chosen THEN edits + 1 ELSE form[part]] \in Versions
  <2> DEFINE to(part) == IF part \in chosen THEN edits + 1 ELSE form[part]
  <2>1. PostParts = {"fields", "status", "details", "content"}
    BY DEF PostParts, Blank
  <2>2. /\ to("fields") \in 0..MaxEdits /\ to("status") \in 0..Published
        /\ to("details") \in 0..MaxEdits /\ to("content") \in 0..MaxEdits
    BY <1>1, <1>2, VersionsAre
  <2> HIDE DEF to
  <2>3. [part \in PostParts |-> to(part)] =
           [fields |-> to("fields"), status |-> to("status"), details |-> to("details"),
            content |-> to("content")]
    BY <2>1
  <2>4. [part \in PostParts |-> to(part)] \in Versions
    BY <2>2, <2>3 DEF Versions
  <2> QED  BY <2>4 DEF to
<1> QED  BY <1>1, <1>3, VersionsAre

LEMMA InputKeeps == ASSUME EditorInv, NEW chosen \in Inputs, Input(chosen) PROVE EditorInv'
<1>1. /\ UNCHANGED <<mounted, awaited, viewing, isNew, postId, saving, deleting, mode, post, hooks>>
      /\ UNCHANGED <<calls, rows, missed, errands, spare>>
      /\ mounted /\ awaited # "post" /\ chip' = "idle" /\ edits' = edits + 1
      /\ form' = [part \in PostParts |-> IF part \in chosen THEN edits + 1 ELSE form[part]]
      /\ edits < MaxEdits
  BY DEF Input, Editable, identity, flags, serverVars
<1>2. pending' = TRUE /\ timer' = TRUE /\ parked' = FALSE /\ late' = (late \/ Writing)
  BY DEF Input
<1>3. Issued'
  BY <1>1, IssuedStays DEF EditorInv, identity, serverVars
<1>4. late' \in BOOLEAN
  <2>1. (late \/ Writing) \in BOOLEAN
    OBVIOUS
  <2> QED  BY <1>2, <2>1, Zenon
<1>5. EditorFlags'
  BY <1>1, <1>2, <1>4 DEF EditorInv, EditorFlags
<1>6. form' \in Versions /\ edits' \in 0..MaxEdits
  BY <1>1, EditedIs DEF EditorInv
<1>7. PageTyped'
  BY <1>1, <1>6 DEF EditorInv, PageTyped
<1>8. Awaiting'
  BY <1>1 DEF EditorInv, Awaiting
<1>9. Latest'
  <2>1. late' \/ ~Writing
    BY <1>2, Zenon
  <2> QED  BY <1>1, <2>1 DEF Latest, Writing, UnderWay, Bringing
<1> QED  BY <1>3, <1>5, <1>7, <1>8, <1>9 DEF EditorInv

LEMMA InsertMediaKeeps == ASSUME EditorInv, InsertMedia PROVE EditorInv'
<1>1. /\ UNCHANGED <<mounted, awaited, viewing, isNew, postId, saving, deleting, mode, post, hooks>>
      /\ UNCHANGED <<calls, rows, missed, errands, spare, chip, pending, timer, parked>>
      /\ edits' = edits + 1 /\ edits < MaxEdits
      /\ form' = [form EXCEPT !.content = edits + 1]
      /\ late' = TRUE
  BY DEF InsertMedia, identity, flags, saver, serverVars
<1>2. Issued'
  BY <1>1, IssuedStays DEF EditorInv, identity, serverVars
<1>3. EditorFlags'
  BY <1>1 DEF EditorInv, EditorFlags
<1>4. form' \in Versions /\ edits' \in 0..MaxEdits
  BY <1>1, EditedIs DEF EditorInv
<1>5. PageTyped'
  BY <1>1, <1>4 DEF EditorInv, PageTyped
<1>6. Awaiting'
  BY <1>1 DEF EditorInv, Awaiting
<1>7. Latest'
  BY <1>1 DEF Latest
<1> QED  BY <1>2, <1>3, <1>5, <1>6, <1>7 DEF EditorInv

LEMMA SwitchModeKeeps == ASSUME EditorInv, SwitchMode PROVE EditorInv'
<1> DEFINE other == IF mode = "visual" THEN "text" ELSE "visual"
<1>1. /\ UNCHANGED <<mounted, awaited, viewing, isNew, postId, saving, deleting, pending, timer,
                     parked>>
      /\ UNCHANGED <<chip, calls, rows, missed, spare>>
      /\ Command /\ Draw(form, other, 1)
      /\ late' = (late \/ (mode = "text" /\ UnderWay({"save"}) # {}))
  BY DEF SwitchMode, identity, flags, saver, serverVars, FormData
<1>2. Issued'
  BY <1>1, IssuedStays DEF EditorInv, identity, serverVars
<1>3. late' \in BOOLEAN
  <2>1. (late \/ (mode = "text" /\ UnderWay({"save"}) # {})) \in BOOLEAN
    OBVIOUS
  <2> QED  BY <1>1, <2>1, Zenon
<1>4. EditorFlags'
  BY <1>1, <1>3 DEF EditorInv, EditorFlags
<1>5. other \in {"visual", "text"} /\ form \in Versions /\ PageTyped
  BY DEF EditorInv, PageTyped
<1>6. /\ post' \in Versions /\ mode' \in {"visual", "text"} /\ form' \in Versions
      /\ hooks' \in 0..MaxHandlers /\ form' = form
  <2>1. Rendered(form, form, other) = form
    BY <1>5, RenderedIs
  <2> QED  BY <1>1, <1>5, <2>1, DrawIs
<1>7. edits' \in 0..MaxEdits /\ errands' \in 0..MaxErrands
  BY <1>1, <1>5, CommandIs
<1>8. PageTyped'
  BY <1>1, <1>5, <1>6, <1>7 DEF PageTyped
<1>9. Awaiting'
  BY <1>1 DEF EditorInv, Awaiting
<1>10. Latest'
  <2>1. SameWrites
    BY <1>1 DEF SameWrites
  <2>2. late' \/ (~late /\ (mode # "text" \/ UnderWay({"save"}) = {}))
    BY <1>1, Zenon
  <2> QED  BY <1>1, <1>6, <2>1, <2>2, LatestStays DEF EditorInv
<1> QED  BY <1>2, <1>4, <1>8, <1>9, <1>10 DEF EditorInv

(* _autosave up to its first await, whoever called it.                     *)
LEMMA SendAutosaveIs ==
    ASSUME EditorInv, mounted, awaited # "post", NEW c \in Calls, SendAutosave(c),
           UNCHANGED <<serverVars, mounted, identity, mode, form>>
    PROVE  /\ Issued' /\ Latest' /\ late' \in BOOLEAN
           /\ UNCHANGED <<pending, parked>> /\ timer' = FALSE /\ chip' = "saving"
<1> DEFINE data == IF isNew THEN [form EXCEPT !.status = 0] ELSE form
<1>1. /\ ~deleting /\ Send(c, "autosave", data)
      /\ late' = (Writing \/ (isNew /\ form.status # 0))
      /\ UNCHANGED <<pending, parked>> /\ timer' = FALSE /\ chip' = "saving"
      /\ spare' = IF isNew /\ Creating THEN spare + 1 ELSE spare
  BY DEF SendAutosave, Stopped, FormData
<1>2. form \in Versions /\ "autosave" \in Writes /\ "autosave" \in Kinds \ {"none"}
      /\ EditorFlags /\ PageTyped /\ Issued
  BY DEF EditorInv, PageTyped, Kinds, Writes
<1>3. /\ data \in Versions /\ data.content = form.content
      /\ ~(isNew /\ form.status # 0) => data = form
  BY <1>2, VersionsAre, StatusesAre
<1> HIDE DEF data
<1>4. /\ Issued' /\ c \in FreeCalls /\ calls'[c] = Sent("autosave", data)
      /\ \A d \in Calls : d # c => calls'[d] = calls[d]
  BY <1>1, <1>2, <1>3, SendIs
<1>5. late' \in BOOLEAN /\ (~late' => ~Writing /\ data = form)
  <2>1. (Writing \/ (isNew /\ form.status # 0)) \in BOOLEAN
    OBVIOUS
  <2>2. late' \in BOOLEAN
    BY <1>1, <2>1, Zenon
  <2>3. ~late' => ~Writing /\ ~(isNew /\ form.status # 0)
    BY <1>1, Zenon
  <2> QED  BY <1>3, <2>2, <2>3
<1>6. postId' = postId
  BY DEF identity
<1>7. Latest'
  BY <1>1, <1>2, <1>3, <1>4, <1>5, <1>6, LatestSends
<1> QED  BY <1>1, <1>4, <1>5, <1>7

LEMMA GiveUpIs ==
    ASSUME EditorFlags, GiveUp
    PROVE  /\ timer' = FALSE /\ parked' \in BOOLEAN
           /\ UNCHANGED <<pending, late, chip, calls, spare>>
<1>1. (parked \/ deleting \/ (pending /\ MaybeEmpty /\ ~saving)) \in BOOLEAN
  OBVIOUS
<1>2. parked' = (parked \/ deleting \/ (pending /\ MaybeEmpty /\ ~saving))
  BY DEF GiveUp
<1>3. parked' \in BOOLEAN
  BY <1>1, <1>2, Zenon
<1> QED  BY <1>3 DEF GiveUp

LEMMA AutosaveKeeps == ASSUME EditorInv, Autosave PROVE EditorInv'
<1>1. /\ UNCHANGED <<mounted, awaited, viewing, isNew, postId, saving, deleting, mode, form, post,
                     hooks>>
      /\ UNCHANGED <<rows, missed, edits, errands>>
      /\ mounted /\ awaited # "post"
  BY DEF Autosave, identity, flags, serverVars, boundVars, EditorInv, PageTyped, Awaiting
<1>2. /\ Issued' /\ Latest' /\ late' \in BOOLEAN /\ parked' \in BOOLEAN
      /\ UNCHANGED pending /\ timer' = FALSE /\ (chip' = chip \/ chip' = "saving")
  <2>1. CASE GiveUp
    <3>1. /\ timer' = FALSE /\ parked' \in BOOLEAN
          /\ UNCHANGED <<pending, late, chip, calls, spare>>
      BY <2>1, GiveUpIs DEF EditorInv
    <3>2. Issued'
      BY <1>1, <3>1, IssuedStays DEF EditorInv, identity, serverVars
    <3>3. Latest'
      <4>1. SameWrites
        BY <3>1 DEF SameWrites
      <4> QED  BY <1>1, <3>1, <4>1, LatestStays DEF EditorInv
    <3>4. late' \in BOOLEAN
      BY <3>1 DEF EditorInv, EditorFlags
    <3> QED  BY <3>1, <3>2, <3>3, <3>4
  <2>2. ASSUME NEW c \in Calls, SendAutosave(c)
        PROVE  /\ Issued' /\ Latest' /\ late' \in BOOLEAN /\ parked' \in BOOLEAN
               /\ UNCHANGED pending /\ timer' = FALSE /\ (chip' = chip \/ chip' = "saving")
    <3>1. /\ Issued' /\ Latest' /\ late' \in BOOLEAN
          /\ UNCHANGED <<pending, parked>> /\ timer' = FALSE /\ chip' = "saving"
      BY <1>1, <2>2, SendAutosaveIs DEF identity, serverVars
    <3>2. parked' \in BOOLEAN
      BY <3>1 DEF EditorInv, EditorFlags
    <3> QED  BY <3>1, <3>2
  <2> QED  BY <2>1, <2>2 DEF Autosave
<1>3. EditorFlags'
  BY <1>1, <1>2 DEF EditorInv, EditorFlags
<1>4. PageTyped'
  BY <1>1, <1>2 DEF EditorInv, PageTyped
<1>5. Awaiting'
  BY <1>1, <1>2 DEF EditorInv, Awaiting
<1> QED  BY <1>2, <1>3, <1>4, <1>5 DEF EditorInv

LEMMA ViewOnSiteKeeps == ASSUME EditorInv, ViewOnSite PROVE EditorInv'
<1>1. /\ Command /\ UNCHANGED <<rows, missed, serverVars>>
  BY DEF ViewOnSite, serverVars
<1>2. mounted /\ awaited # "post" /\ edits' \in 0..MaxEdits /\ errands' \in 0..MaxErrands
  BY <1>1, CommandIs DEF EditorInv
<1>3. CASE Leaving /\ UNCHANGED <<chip, calls, spare>>
  <2>1. Issued'
    BY <1>1, <1>3, IssuedStays DEF EditorInv, Leaving
  <2>2. chip' \in Chips
    BY <1>3 DEF EditorInv, PageTyped, Chips
  <2> QED  BY <1>2, <1>3, <2>1, <2>2, LeftKeeps
<1>4. ASSUME NEW c \in Calls, SendAutosave(c), viewing' = c,
             UNCHANGED <<mounted, awaited, identity, flags, mode, form, post, hooks>>
      PROVE  EditorInv'
  <2>1. UNCHANGED <<mounted, awaited, isNew, postId, saving, deleting, mode, form, post, hooks>>
    BY <1>4 DEF identity, flags
  <2>2. /\ Issued' /\ Latest' /\ late' \in BOOLEAN
        /\ UNCHANGED <<pending, parked>> /\ timer' = FALSE /\ chip' = "saving"
    BY <1>1, <1>2, <1>4, SendAutosaveIs
  <2>3. EditorFlags'
    BY <2>1, <2>2 DEF EditorInv, EditorFlags
  <2>4. PageTyped'
    BY <1>2, <1>4, <2>1, <2>2 DEF EditorInv, PageTyped
  <2>5. Awaiting'
    BY <1>2, <2>1, <2>2 DEF EditorInv, Awaiting
  <2> QED  BY <2>2, <2>3, <2>4, <2>5 DEF EditorInv
<1> QED  BY <1>3, <1>4 DEF ViewOnSite

(* What an answer of a write does to the page's row.                       *)
LEMMA AdoptIs ==
    ASSUME EditorInv, NEW c \in Calls, calls[c].kind \in Writes, Adopt(c), Ok(c)
    PROVE  /\ isNew' \in BOOLEAN /\ (isNew' <=> postId' = NoId)
           /\ postId' \in 1..MaxPosts \cup {NoId}
           /\ ~isNew => ~isNew'
<1>1. calls[c].new => calls[c].id \in 1..MaxPosts /\ calls[c].id # NoId
  <2> SUFFICES ASSUME calls[c].new PROVE calls[c].id \in 1..MaxPosts /\ calls[c].id # NoId
    OBVIOUS
  <2>1. calls[c].id \in DOMAIN rows
    BY DEF EditorInv, Issued, Addressed, Ok
  <2>2. calls[c].id \in 1..MaxPosts
    BY <2>1, RowsAre DEF EditorInv, Issued
  <2> QED  BY <2>2, NumbersAre
<1>2. (isNew /\ ~calls[c].new) \in BOOLEAN
  OBVIOUS
<1>3. isNew' = (isNew /\ ~calls[c].new)
  BY DEF Adopt
<1>4. isNew' \in BOOLEAN
  BY <1>2, <1>3, Zenon
<1>5. isNew' <=> isNew /\ ~calls[c].new
  BY <1>3, Zenon
<1>6. postId' = IF calls[c].new THEN calls[c].id ELSE postId
  BY DEF Adopt
<1> QED  BY <1>1, <1>4, <1>5, <1>6 DEF EditorInv, PageTyped

(* The page's row then holds what was sent, if nothing came in between.    *)
LEMMA AdoptedIs ==
    ASSUME EditorInv, NEW c \in Calls, calls[c].kind \in Writes, Adopt(c), Ok(c), mounted, ~late
    PROVE  postId' \in DOMAIN rows /\ rows[postId'].data = calls[c].data
<1>1. Bringing(c) /\ calls[c].stage = "ok"
  BY DEF EditorInv, Latest, Ok
<1>2. postId' = calls[c].id
  BY <1>1 DEF Bringing, Adopt
<1>3. calls[c].id \in DOMAIN rows
  BY <1>1 DEF EditorInv, Issued, Addressed
<1> QED  BY <1>1, <1>2, <1>3 DEF Bringing

LEMMA AutosaveAnswerKeeps == ASSUME EditorInv, NEW c \in Calls, AutosaveAnswer(c) PROVE EditorInv'
<1>1. /\ mounted /\ calls[c].kind = "autosave" /\ calls[c].stage # "sent" /\ Done(c)
      /\ chip' = (IF Ok(c) THEN "saved" ELSE "failed")
      /\ UNCHANGED <<serverVars, rows, missed, edits, errands, spare>>
  BY DEF AutosaveAnswer, Answered, serverVars, boundVars
<1>2. calls[c].kind \in Writes /\ CallsTyped /\ Issued /\ calls[c].data \in Versions
  BY <1>1, CallsAre DEF Writes, EditorInv, Issued
<1>3. CASE viewing = c
  <2>1. Leaving
    BY <1>3 DEF AutosaveAnswer
  <2>2. Issued'
    BY <1>1, <1>2, <2>1, IssuedEnds DEF Leaving
  <2>3. chip' \in Chips /\ edits' \in 0..MaxEdits /\ errands' \in 0..MaxErrands
    BY <1>1 DEF EditorInv, PageTyped, Chips
  <2> QED  BY <2>1, <2>2, <2>3, LeftKeeps
<1>4. CASE viewing # c
  <2>1. /\ UNCHANGED <<mounted, awaited, viewing, saving, deleting, timer, parked, mode, form>>
        /\ UNCHANGED <<hooks, late>>
    BY <1>4 DEF AutosaveAnswer, flags
  <2>2. CASE Ok(c)
    <3>1. Adopt(c) /\ post' = calls[c].data /\ pending' = FALSE
      BY <1>4, <2>2 DEF AutosaveAnswer, CountsAsSaved
    <3>2. Issued'
      BY <1>1, <1>2, <2>1, <2>2, <3>1, IssuedEnds
    <3>3. /\ isNew' \in BOOLEAN /\ (isNew' <=> postId' = NoId)
          /\ postId' \in 1..MaxPosts \cup {NoId} /\ (~isNew => ~isNew')
      BY <1>2, <2>2, <3>1, AdoptIs
    <3>4. EditorFlags'
      BY <2>1, <3>1, <3>3 DEF EditorInv, EditorFlags
    <3>5. PageTyped'
      BY <1>1, <1>2, <2>1, <3>1, <3>3 DEF EditorInv, PageTyped
    <3>6. Awaiting'
      BY <1>1, <2>1, <3>1 DEF EditorInv, Awaiting
    <3>7. Latest'
      <4>1. mounted' /\ ~late' => postId' \in DOMAIN rows /\ rows[postId'].data = form'
        <5> SUFFICES ASSUME mounted, ~late PROVE postId' \in DOMAIN rows /\ rows[postId'].data = form
          BY <2>1
        <5>1. calls[c].data = form
          BY <1>1, <1>2 DEF EditorInv, Latest, Bringing
        <5> QED  BY <1>2, <2>2, <3>1, <5>1, AdoptedIs
      <4> QED  BY <1>1, <1>2, <2>1, <4>1, LatestEnds DEF EditorInv
    <3> QED  BY <3>2, <3>4, <3>5, <3>6, <3>7 DEF EditorInv
  <2>3. CASE ~Ok(c)
    <3>1. UNCHANGED <<isNew, postId, post, pending>>
      BY <1>4, <2>3 DEF AutosaveAnswer, identity
    <3>2. Issued'
      <4>1. calls[c].stage = "failed"
        BY <1>1, <1>2, <2>3, CallsAre DEF Ok
      <4> QED  BY <1>1, <1>2, <2>1, <3>1, <4>1, IssuedEnds DEF identity
    <3>3. EditorFlags'
      BY <2>1, <3>1 DEF EditorInv, EditorFlags
    <3>4. PageTyped'
      BY <1>1, <2>1, <2>3, <3>1 DEF EditorInv, PageTyped
    <3>5. Awaiting'
      BY <1>1, <2>1, <2>3, <3>1 DEF EditorInv, Awaiting
    <3>6. Latest'
      BY <1>1, <1>2, <2>1, <2>3, LatestEnds DEF EditorInv
    <3> QED  BY <3>2, <3>3, <3>4, <3>5, <3>6 DEF EditorInv
  <2> QED  BY <2>2, <2>3
<1> QED  BY <1>3, <1>4

(* The step sends the requests of one gesture's n handlers.                *)
Saves(n, C, data) ==
    /\ C \in [1..n -> FreeCalls]
    /\ \A i, j \in 1..n : i < j => C[i] < C[j]
    /\ calls' = [c \in Calls |->
           CASE c = C[1] -> Sent("save", data)
             [] \E i \in 2..n : c = C[i] -> Sent("save", Rendered(form, post, mode))
             [] OTHER -> calls[c]]

(* What the handlers of one gesture send.                                  *)
LEMMA SavesAre ==
    ASSUME EditorInv, NEW n \in Nat, n > 0, NEW C, NEW data \in Versions,
           Saves(n, C, data)
    PROVE  \E S \in SUBSET FreeCalls :
              /\ C[1] \in S /\ Cardinality(S) <= n
              /\ calls' \in [Calls -> CallType]
              /\ \A d \in Calls \ S : calls'[d] = calls[d]
              /\ \A d \in S : \E v \in Versions : calls'[d] = Sent("save", v)
              /\ n = 1 => S = {C[1]} /\ calls'[C[1]] = Sent("save", data)
<1> DEFINE S == {C[i] : i \in 1..n}
           again == Rendered(form, post, mode)
<1>0. /\ C \in [1..n -> FreeCalls]
      /\ \A i, j \in 1..n : i < j => C[i] < C[j]
      /\ calls' = [c \in Calls |->
             CASE c = C[1] -> Sent("save", data)
               [] \E i \in 2..n : c = C[i] -> Sent("save", again)
               [] OTHER -> calls[c]]
  BY DEF Saves
<1>1. /\ form \in Versions /\ again \in Versions /\ "save" \in Kinds
      /\ calls \in [Calls -> CallType] /\ EditorFlags /\ PageTyped
  BY RenderedIs DEF EditorInv, PageTyped, Issued, CallsTyped, Kinds, Writes
<1>2. Sent("save", data) \in CallType /\ Sent("save", again) \in CallType
  BY <1>1, SentIs
<1>3. 1 \in 1..n /\ 2..n \subseteq 1..n /\ \A i \in 2..n : 1 < i
  OBVIOUS
<1>4. S \in SUBSET FreeCalls /\ C[1] \in S /\ FreeCalls \subseteq Calls
  BY <1>0, <1>3 DEF FreeCalls, UnderWay
<1>5. Cardinality(S) <= n
  <2>1. C \in Surjection(1..n, S)
    BY <1>0 DEF Surjection
  <2>2. ExistsSurjection(1..n, S)
    BY <2>1 DEF ExistsSurjection
  <2> QED  BY <2>2, FS_SurjCardinalityBound
<1>6. \A i \in 2..n : C[i] # C[1]
  <2> SUFFICES ASSUME NEW i \in 2..n PROVE C[i] # C[1]
    OBVIOUS
  <2>1. C[1] < C[i]
    BY <1>0, <1>3
  <2>2. C[1] \in Nat /\ C[i] \in Nat
    BY <1>0, <1>3, <1>4, NumbersAre DEF Calls, FreeCalls
  <2> QED  BY <2>1, <2>2
<1>7. ASSUME NEW d \in Calls
      PROVE  /\ d = C[1] => calls'[d] = Sent("save", data)
             /\ d # C[1] /\ d \in S => calls'[d] = Sent("save", again)
             /\ d \notin S => calls'[d] = calls[d]
  <2>1. calls'[d] = CASE d = C[1] -> Sent("save", data)
                      [] \E i \in 2..n : d = C[i] -> Sent("save", again)
                      [] OTHER -> calls[d]
    BY <1>0
  <2>2. d = C[1] => ~ \E i \in 2..n : d = C[i]
    BY <1>6
  <2>3. d \in S /\ d # C[1] => \E i \in 2..n : d = C[i]
    BY <1>0
  <2>4. d \notin S => d # C[1] /\ ~ \E i \in 2..n : d = C[i]
    BY <1>3
  <2> QED  BY <2>1, <2>2, <2>3, <2>4
<1>8. calls' \in [Calls -> CallType]
  <2>1. \A d \in Calls : calls'[d] \in CallType
    BY <1>1, <1>2, <1>7
  <2>2. calls' = [d \in Calls |-> calls'[d]]
    BY <1>0
  <2> QED  BY <2>1, <2>2
<1>9. n = 1 => S = {C[1]} /\ calls'[C[1]] = Sent("save", data)
  BY <1>4, <1>7
<1>10. \A d \in Calls \ S : calls'[d] = calls[d]
  BY <1>7
<1>11. \A d \in S : \E v \in Versions : calls'[d] = Sent("save", v)
  BY <1>1, <1>4, <1>7
<1> HIDE DEF S
<1> QED  BY <1>4, <1>5, <1>8, <1>9, <1>10, <1>11

LEMMA SavePostKeeps == ASSUME EditorInv, Save PROVE EditorInv'
<1>1. /\ UNCHANGED <<mounted, awaited, viewing, isNew, postId, deleting, pending, timer, parked>>
      /\ UNCHANGED <<rows, missed, serverVars, identity>>
      /\ Command /\ saving' = TRUE /\ chip' = "saving"
  BY DEF Save, identity, saver, serverVars
<1>2. mounted /\ awaited # "post" /\ edits' \in 0..MaxEdits /\ errands' \in 0..MaxErrands
  BY <1>1, CommandIs DEF EditorInv
<1>3. PICK n \in Handlers : \E C \in [1..n -> FreeCalls] :
      \E status \in {FormData.status} \cup (IF n = 1 THEN {Published} ELSE {}) :
          /\ \A i, j \in 1..n : i < j => C[i] < C[j]
          /\ calls' = [c \in Calls |->
                 CASE c = C[1] -> Sent("save", [FormData EXCEPT !.status = status])
                   [] \E i \in 2..n : c = C[i] -> Sent("save", Rendered(form, post, mode))
                   [] OTHER -> calls[c]]
          /\ spare' = spare + (IF ~isNew THEN 0 ELSE IF Creating THEN n ELSE n - 1)
          /\ late' = (Writing \/ n > 1)
          /\ Draw(post, mode, n)
  BY DEF Save
<1>4. n \in Nat /\ n > 0
  BY NumbersAre DEF Handlers, AtMost, EditorInv, PageTyped
<1>5. /\ spare' = spare + (IF ~isNew THEN 0 ELSE IF Creating THEN n ELSE n - 1)
      /\ late' = (Writing \/ n > 1)
      /\ Draw(post, mode, n)
  BY <1>3
<1>15. PICK C \in [1..n -> FreeCalls] :
      \E status \in {FormData.status} \cup (IF n = 1 THEN {Published} ELSE {}) :
          /\ \A i, j \in 1..n : i < j => C[i] < C[j]
          /\ calls' = [c \in Calls |->
                 CASE c = C[1] -> Sent("save", [FormData EXCEPT !.status = status])
                   [] \E i \in 2..n : c = C[i] -> Sent("save", Rendered(form, post, mode))
                   [] OTHER -> calls[c]]
          /\ spare' = spare + (IF ~isNew THEN 0 ELSE IF Creating THEN n ELSE n - 1)
          /\ late' = (Writing \/ n > 1)
          /\ Draw(post, mode, n)
  BY <1>3, Zenon
<1>18. PICK status \in {FormData.status} \cup (IF n = 1 THEN {Published} ELSE {}) :
          /\ \A i, j \in 1..n : i < j => C[i] < C[j]
          /\ calls' = [c \in Calls |->
                 CASE c = C[1] -> Sent("save", [FormData EXCEPT !.status = status])
                   [] \E i \in 2..n : c = C[i] -> Sent("save", Rendered(form, post, mode))
                   [] OTHER -> calls[c]]
  BY <1>15, Zenon
<1> DEFINE data == [form EXCEPT !.status = status]
<1>16. data \in Versions /\ data.content = form.content
  <2>1. form \in Versions
    BY DEF EditorInv, PageTyped
  <2>2. status \in 0..Published
    <3>1. status = form.status \/ status = Published
      BY <1>18 DEF FormData
    <3> QED  BY <2>1, <3>1, VersionsAre, StatusesAre
  <2>3. /\ [form EXCEPT !.status = status] \in Versions
        /\ [form EXCEPT !.status = status].content = form.content
    BY <2>1, <2>2, VersionsAre
  <2> QED  BY <2>3
<1>17. calls' = [c \in Calls |->
                 CASE c = C[1] -> Sent("save", data)
                   [] \E i \in 2..n : c = C[i] -> Sent("save", Rendered(form, post, mode))
                   [] OTHER -> calls[c]]
  BY <1>18, Zenon DEF FormData
<1>19. \A i, j \in 1..n : i < j => C[i] < C[j]
  BY <1>18, Zenon
<1>20. Saves(n, C, data)
  BY <1>17, <1>19 DEF Saves
<1> HIDE DEF data
<1>6. PICK S \in SUBSET FreeCalls :
          /\ C[1] \in S /\ Cardinality(S) <= n
          /\ calls' \in [Calls -> CallType]
          /\ \A d \in Calls \ S : calls'[d] = calls[d]
          /\ \A d \in S : \E v \in Versions : calls'[d] = Sent("save", v)
          /\ n = 1 => S = {C[1]} /\ calls'[C[1]] = Sent("save", data)
  BY <1>4, <1>16, <1>20, SavesAre
<1>7. /\ mode' = mode /\ form' = Rendered(form, post, mode)
      /\ post' \in Versions /\ form' \in Versions /\ hooks' \in 0..MaxHandlers
  BY <1>5, <1>4, DrawIs DEF EditorInv, PageTyped
<1>8. "save" \in Writes /\ "save" \in Kinds \ {"none"}
  BY DEF Kinds, Writes
<1>9. Issued'
  <2>1. spare' = spare + (IF ~isNew \/ "save" \notin Writes THEN 0
                             ELSE IF Creating THEN n ELSE n - 1)
    BY <1>5, <1>8
  <2>2. EditorFlags /\ PageTyped /\ Issued /\ UNCHANGED <<serverVars, mounted, identity>>
    BY <1>1 DEF EditorInv
  <2>3. S # {}
    BY <1>6
  <2> QED  BY <1>2, <1>4, <1>6, <1>8, <2>1, <2>2, <2>3, IssuedSends
<1>10. late' \in BOOLEAN
  <2>1. (Writing \/ n > 1) \in BOOLEAN
    OBVIOUS
  <2> QED  BY <1>5, <2>1, Zenon
<1>11. EditorFlags'
  BY <1>1, <1>10 DEF EditorInv, EditorFlags
<1>12. PageTyped'
  BY <1>1, <1>2, <1>7 DEF EditorInv, PageTyped
<1>13. Awaiting'
  BY <1>1, <1>2 DEF EditorInv, Awaiting
<1>14. Latest'
  <2>1. late' \/ (~Writing /\ n = 1)
    <3>1. late' \/ (~Writing /\ ~(n > 1))
      BY <1>5, Zenon
    <3> QED  BY <1>4, <3>1
  <2>2. C[1] \in FreeCalls
    BY <1>6
  <2>3. form'.content = form.content \/ mode = "text"
    BY <1>7, RenderedIs DEF EditorInv, PageTyped
  <2>4. ~late' => \A d \in Calls : d # C[1] => calls'[d] = calls[d]
    BY <1>6, <2>1
  <2>5. ~late' => ~Writing /\ calls'[C[1]] = Sent("save", data)
    BY <1>6, <2>1
  <2> QED  BY <1>1, <1>7, <1>8, <1>16, <2>2, <2>3, <2>4, <2>5, LatestSends DEF EditorInv
<1> QED  BY <1>9, <1>11, <1>12, <1>13, <1>14 DEF EditorInv

LEMMA SaveAnswerKeeps == ASSUME EditorInv, NEW c \in Calls, SaveAnswer(c) PROVE EditorInv'
<1>1. /\ mounted /\ calls[c].kind = "save" /\ calls[c].stage # "sent" /\ Done(c)
      /\ saving' = FALSE /\ chip' = (IF Ok(c) THEN "saved" ELSE "failed")
      /\ UNCHANGED <<mounted, awaited, viewing, deleting, timer, parked>>
      /\ UNCHANGED <<serverVars, rows, missed, edits, errands, spare>>
  BY DEF SaveAnswer, Answered, serverVars, boundVars
<1>2. calls[c].kind \in Writes /\ CallsTyped /\ Issued /\ calls[c].data \in Versions
  BY <1>1, CallsAre DEF Writes, EditorInv, Issued
<1>3. form \in Versions /\ post \in Versions /\ mode \in {"visual", "text"} /\ PageTyped
  BY DEF EditorInv, PageTyped
<1>4. CASE Ok(c)
  <2>1. Adopt(c) /\ pending' = FALSE /\ Draw(calls[c].data, mode, 1) /\ UNCHANGED late
    BY <1>4 DEF SaveAnswer, CountsAsSaved
  <2>2. /\ mode' = mode /\ form' = Rendered(form, calls[c].data, mode)
        /\ post' \in Versions /\ form' \in Versions /\ hooks' \in 0..MaxHandlers
    BY <1>2, <1>3, <2>1, DrawIs
  <2>3. Issued'
    BY <1>1, <1>2, <1>4, <2>1, IssuedEnds
  <2>4. /\ isNew' \in BOOLEAN /\ (isNew' <=> postId' = NoId)
        /\ postId' \in 1..MaxPosts \cup {NoId} /\ (~isNew => ~isNew')
    BY <1>2, <1>4, <2>1, AdoptIs
  <2>5. EditorFlags'
    BY <1>1, <2>1, <2>4 DEF EditorInv, EditorFlags
  <2>6. PageTyped'
    BY <1>1, <2>2, <2>4 DEF EditorInv, PageTyped
  <2>7. Awaiting'
    BY <1>1, <2>1 DEF EditorInv, Awaiting
  <2>8. Latest'
    <3>1. mounted' /\ ~late' => postId' \in DOMAIN rows /\ rows[postId'].data = form'
      <4> SUFFICES ASSUME mounted, ~late PROVE postId' \in DOMAIN rows /\ rows[postId'].data = form'
        BY <1>1, <2>1
      <4>1. calls[c].data.content = form.content \/ mode = "text"
        BY <1>2 DEF EditorInv, Latest, Bringing
      <4>2. form' = calls[c].data
        BY <1>2, <1>3, <2>2, <4>1, RenderedIs
      <4> QED  BY <1>2, <1>4, <2>1, <4>2, AdoptedIs
    <3> QED  BY <1>1, <1>2, <2>1, <3>1, LatestEnds DEF EditorInv
  <2> QED  BY <2>3, <2>5, <2>6, <2>7, <2>8 DEF EditorInv
<1>5. CASE ~Ok(c)
  <2>1. /\ Draw(post, mode, 1) /\ UNCHANGED <<isNew, postId, pending, identity>>
        /\ late' = (late \/ UnderWay(Writes) # {c})
    BY <1>5 DEF SaveAnswer, identity
  <2>2. /\ mode' = mode /\ post' \in Versions /\ form' \in Versions /\ hooks' \in 0..MaxHandlers
    BY <1>3, <2>1, DrawIs
  <2>3. Issued'
    <3>1. calls[c].stage = "failed"
      BY <1>1, <1>2, <1>5, CallsAre DEF Ok
    <3> QED  BY <1>1, <1>2, <2>1, <3>1, IssuedEnds
  <2>4. late' \in BOOLEAN /\ (~late' => ~late)
    <3>1. (late \/ UnderWay(Writes) # {c}) \in BOOLEAN
      OBVIOUS
    <3>2. late' \in BOOLEAN
      BY <2>1, <3>1, Zenon
    <3>3. ~late' => ~late
      BY <2>1, Zenon
    <3> QED  BY <3>2, <3>3
  <2>5. EditorFlags'
    BY <1>1, <2>1, <2>4 DEF EditorInv, EditorFlags
  <2>6. PageTyped'
    BY <1>1, <1>5, <2>1, <2>2 DEF EditorInv, PageTyped
  <2>7. Awaiting'
    BY <1>1, <1>5, <2>1 DEF EditorInv, Awaiting
  <2>8. Latest'
    BY <1>1, <1>2, <1>5, <2>4, LatestEnds DEF EditorInv
  <2> QED  BY <2>3, <2>5, <2>6, <2>7, <2>8 DEF EditorInv
<1> QED  BY <1>4, <1>5

(* A page that is drawn again from a version, and nothing else.            *)
LEMMA RedrawKeeps ==
    ASSUME EditorInv, mounted, awaited # "post", NEW p \in Versions, Redraw(p, mode, 1),
           Issued', SameWrites, saving' \in BOOLEAN, deleting' \in BOOLEAN,
           UNCHANGED <<mounted, awaited, viewing, isNew, postId, pending, timer, parked, chip,
                       rows>>,
           edits' \in 0..MaxEdits, errands' \in 0..MaxErrands
    PROVE  EditorInv'
<1>1. Draw(p, mode, 1) /\ late' \in BOOLEAN /\ (late' <=> late \/ (form' # form /\ (Writing \/ ~pending)))
  BY RedrawIs
<1>2. /\ mode' = mode /\ post' \in Versions /\ form' \in Versions /\ hooks' \in 0..MaxHandlers
  BY <1>1, DrawIs DEF EditorInv, PageTyped
<1>3. EditorFlags'
  BY <1>1 DEF EditorInv, EditorFlags
<1>4. PageTyped'
  BY <1>2 DEF EditorInv, PageTyped
<1>5. Awaiting'
  BY DEF EditorInv, Awaiting
<1>6. Latest'
  BY <1>1, <1>2, LatestDraws DEF EditorInv
<1> QED  BY <1>3, <1>4, <1>5, <1>6 DEF EditorInv

LEMMA DeleteKeeps == ASSUME EditorInv, Delete PROVE EditorInv'
<1>1. Command /\ UNCHANGED <<chip, rows, serverVars, spare>>
  BY DEF Delete, serverVars
<1>2. mounted /\ awaited # "post" /\ edits' \in 0..MaxEdits /\ errands' \in 0..MaxErrands
  BY <1>1, CommandIs DEF EditorInv
<1>3. CASE isNew
  <2>1. Leaving /\ UNCHANGED calls
    BY <1>3 DEF Delete
  <2>2. Issued'
    BY <1>1, <2>1, IssuedStays DEF EditorInv, Leaving
  <2>3. chip' \in Chips
    BY <1>1 DEF EditorInv, PageTyped, Chips
  <2> QED  BY <1>2, <2>1, <2>2, <2>3, LeftKeeps
<1>4. CASE ~isNew
  <2>1. /\ deleting' = TRUE /\ Redraw(post, mode, 1)
        /\ UNCHANGED <<mounted, awaited, viewing, isNew, postId, saving, pending, timer, parked,
                       identity>>
    BY <1>4 DEF Delete, identity, saver
  <2>2. PICK c \in Calls : Send(c, "delete", Blank)
    BY <1>4 DEF Delete
  <2>3. "delete" \in Kinds \ {"none"} /\ "delete" \notin Writes /\ Blank \in Versions
        /\ Issued /\ EditorFlags /\ PageTyped /\ post \in Versions
    BY BlankIs DEF Kinds, Writes, EditorInv, PageTyped
  <2>4. Issued' /\ SameWrites
    BY <1>1, <1>2, <1>4, <2>1, <2>2, <2>3, SendIs
  <2>5. saving' \in BOOLEAN /\ deleting' \in BOOLEAN
    BY <2>1, <2>3 DEF EditorFlags
  <2> QED  BY <1>1, <1>2, <2>1, <2>3, <2>4, <2>5, RedrawKeeps
<1> QED  BY <1>3, <1>4

(* The answer of a call that writes nothing.                               *)
LEMMA IdleEnds ==
    ASSUME EditorInv, NEW c \in Calls, Answered(c, Kinds \ (Writes \cup {"none"})), Done(c),
           UNCHANGED <<mounted, identity, serverVars, spare>>
    PROVE  /\ Issued' /\ SameWrites /\ mounted /\ awaited # "post" /\ calls[c].data \in Versions
<1>1. mounted /\ calls[c].kind \in Kinds \ (Writes \cup {"none"}) /\ calls[c].stage # "sent"
  BY DEF Answered
<1>2. ~calls[c].new /\ CallsTyped /\ Issued
  BY <1>1 DEF EditorInv, Issued, Addressed
<1>3. Issued'
  BY <1>1, <1>2, IssuedEnds
<1>4. SameWrites /\ calls[c].data \in Versions
  BY <1>1, <1>2, DoneIs, CallsAre
<1>5. calls[c].kind # "none"
  BY <1>1
<1> QED  BY <1>1, <1>3, <1>4, <1>5 DEF EditorInv, Awaiting

LEMMA DeleteAnswerKeeps == ASSUME EditorInv, NEW c \in Calls, DeleteAnswer(c) PROVE EditorInv'
<1>1. /\ Answered(c, {"delete"}) /\ Done(c)
      /\ UNCHANGED <<chip, rows, edits, errands, serverVars, spare>>
  BY DEF DeleteAnswer, serverVars, boundVars
<1>2. /\ mounted /\ calls[c].kind = "delete" /\ calls[c].stage # "sent"
      /\ ~calls[c].new /\ Issued /\ CallsTyped
  BY <1>1 DEF Answered, EditorInv, Issued, Addressed, Writes
<1>3. /\ awaited # "post" /\ edits' \in 0..MaxEdits /\ errands' \in 0..MaxErrands /\ post \in Versions
  BY <1>1, <1>2 DEF EditorInv, PageTyped, Awaiting
<1>4. CASE Leaving
  <2>1. Issued'
    BY <1>1, <1>2, <1>4, IssuedEnds DEF Leaving
  <2>2. chip' \in Chips
    BY <1>1 DEF EditorInv, PageTyped, Chips
  <2> QED  BY <1>3, <1>4, <2>1, <2>2, LeftKeeps
<1>5. CASE /\ deleting' = FALSE /\ Redraw(post, mode, 1)
           /\ UNCHANGED <<mounted, awaited, viewing, identity, saving, saver>>
  <2>1. UNCHANGED <<mounted, awaited, viewing, isNew, postId, saving, pending, timer, parked,
                    identity>>
    BY <1>5 DEF identity, saver
  <2>2. Issued'
    BY <1>1, <1>2, <2>1, IssuedEnds
  <2>3. SameWrites
    BY <1>1, <1>2, DoneIs DEF Writes
  <2>4. saving' \in BOOLEAN /\ deleting' \in BOOLEAN
    BY <1>5, <2>1 DEF EditorInv, EditorFlags
  <2> QED  BY <1>1, <1>2, <1>3, <1>5, <2>1, <2>2, <2>3, <2>4, RedrawKeeps
<1> QED  BY <1>4, <1>5 DEF DeleteAnswer

LEMMA ErrandKeeps == ASSUME EditorInv, NEW kind \in {"preview", "instagram"}, Errand(kind) PROVE EditorInv'
<1>1. /\ Command /\ ~isNew /\ Redraw(post, mode, 1)
      /\ UNCHANGED <<mounted, awaited, viewing, isNew, postId, saving, deleting, pending, timer,
                     parked>>
      /\ UNCHANGED <<identity, chip, rows, serverVars, spare>>
  BY DEF Errand, identity, flags, saver, serverVars
<1>2. mounted /\ awaited # "post" /\ edits' \in 0..MaxEdits /\ errands' \in 0..MaxErrands
  BY <1>1, CommandIs DEF EditorInv
<1>3. PICK c \in Calls : Send(c, kind, Blank)
  BY DEF Errand
<1>4. kind \in Kinds \ {"none"} /\ kind \notin Writes /\ Blank \in Versions
      /\ Issued /\ EditorFlags /\ PageTyped /\ post \in Versions
  BY BlankIs DEF Kinds, Writes, EditorInv, PageTyped
<1>5. Issued' /\ SameWrites
  BY <1>1, <1>2, <1>3, <1>4, SendIs
<1>6. saving' \in BOOLEAN /\ deleting' \in BOOLEAN
  BY <1>1, <1>4 DEF EditorFlags
<1> QED  BY <1>1, <1>2, <1>4, <1>5, <1>6, RedrawKeeps

LEMMA ErrandAnswerKeeps == ASSUME EditorInv, NEW c \in Calls, ErrandAnswer(c) PROVE EditorInv'
<1> DEFINE p == IF calls[c].kind = "instagram" /\ Ok(c) THEN calls[c].data ELSE post
<1>1. /\ Answered(c, {"preview", "instagram"}) /\ Done(c) /\ Redraw(p, mode, 1)
      /\ UNCHANGED <<mounted, awaited, viewing, isNew, postId, saving, deleting, pending, timer,
                     parked>>
      /\ UNCHANGED <<identity, chip, rows, edits, errands, serverVars, spare>>
  BY DEF ErrandAnswer, identity, flags, saver, serverVars, boundVars
<1>2. Answered(c, Kinds \ (Writes \cup {"none"}))
  BY <1>1 DEF Answered, Kinds, Writes
<1>3. /\ Issued' /\ SameWrites /\ mounted /\ awaited # "post" /\ calls[c].data \in Versions
  BY <1>1, <1>2, IdleEnds
<1>4. p \in Versions /\ edits' \in 0..MaxEdits /\ errands' \in 0..MaxErrands
  BY <1>1, <1>3 DEF EditorInv, PageTyped
<1>5. saving' \in BOOLEAN /\ deleting' \in BOOLEAN
  BY <1>1 DEF EditorInv, EditorFlags
<1> HIDE DEF p
<1> QED  BY <1>1, <1>3, <1>4, <1>5, RedrawKeeps

LEMMA AnalyzeKeeps == ASSUME EditorInv, NEW kind \in {"analyze", "field"}, Analyze(kind) PROVE EditorInv'
<1>1. /\ Command /\ UNCHANGED <<mounted, awaited, viewing, isNew, postId, saving, deleting, pending,
                                timer, parked>>
      /\ UNCHANGED <<identity, chip, rows, mode, form, post, hooks, late, serverVars, spare>>
  BY DEF Analyze, pageVars, identity, flags, saver, screenVars, serverVars
<1>2. mounted /\ awaited # "post" /\ edits' \in 0..MaxEdits /\ errands' \in 0..MaxErrands
  BY <1>1, CommandIs DEF EditorInv
<1> DEFINE data == [form EXCEPT !.details = post.details]
<1>3. PICK c \in Calls : Send(c, kind, data)
  BY DEF Analyze, FormData
<1>4. kind \in Kinds \ {"none"} /\ kind \notin Writes /\ data \in Versions
      /\ Issued /\ EditorFlags /\ PageTyped
  BY VersionsAre DEF Kinds, Writes, EditorInv, PageTyped
<1> HIDE DEF data
<1>5. Issued' /\ SameWrites
  BY <1>1, <1>2, <1>3, <1>4, SendIs
<1>6. EditorFlags'
  BY <1>1, <1>4 DEF EditorFlags
<1>7. PageTyped'
  BY <1>1, <1>2, <1>4 DEF PageTyped
<1>8. Awaiting'
  BY <1>1, <1>2 DEF EditorInv, Awaiting
<1>9. Latest'
  BY <1>1, <1>5, LatestStays DEF EditorInv
<1> QED  BY <1>5, <1>6, <1>7, <1>8, <1>9 DEF EditorInv

LEMMA AnalyzeAnswerKeeps == ASSUME EditorInv, NEW c \in Calls, AnalyzeAnswer(c) PROVE EditorInv'
<1>1. /\ Answered(c, {"analyze", "field"}) /\ Done(c)
      /\ UNCHANGED <<mounted, awaited, viewing, isNew, postId, saving, deleting, pending, timer,
                     parked>>
      /\ UNCHANGED <<identity, chip, rows, mode, errands, serverVars, spare>>
      /\ hooks' = AtMost(hooks + 1, MaxHandlers)
      /\ form' = IF calls[c].kind = "analyze" THEN post' ELSE Rendered(form, post', mode)
  BY DEF AnalyzeAnswer, identity, flags, saver, serverVars
<1>2. late' = (late \/ (form' # form /\ (Writing \/ ~pending)))
  BY DEF AnalyzeAnswer
<1>3. Answered(c, Kinds \ (Writes \cup {"none"}))
  BY <1>1 DEF Answered, Kinds, Writes
<1>4. /\ Issued' /\ SameWrites /\ mounted /\ awaited # "post" /\ calls[c].data \in Versions
  BY <1>1, <1>3, IdleEnds
<1>5. edits' \in 0..MaxEdits /\ post' \in Versions
  <2> DEFINE snap == IF calls[c].kind = "analyze"
                     THEN [calls[c].data EXCEPT !.details = post.details] ELSE calls[c].data
  <2>1. PICK filled \in {FALSE, Ok(c) /\ edits < MaxEdits} :
            /\ edits' = IF filled THEN edits + 1 ELSE edits
            /\ post' = IF filled THEN [snap EXCEPT !.fields = edits + 1] ELSE snap
    BY DEF AnalyzeAnswer
  <2>2. filled => edits < MaxEdits
    BY <2>1
  <2>3. edits \in 0..MaxEdits /\ post \in Versions
    BY DEF EditorInv, PageTyped
  <2>4. edits' \in 0..MaxEdits
    BY <2>1, <2>2, <2>3, NumbersAre
  <2>7. snap \in Versions
    BY <1>4, <2>3, VersionsAre
  <2> HIDE DEF snap
  <2>5. CASE filled
    <3>1. edits + 1 \in 0..MaxEdits
      BY <2>2, <2>3, <2>5, NumbersAre
    <3>2. [snap EXCEPT !.fields = edits + 1] \in Versions
      BY <2>7, <3>1, VersionsAre
    <3> QED  BY <2>1, <2>4, <2>5, <3>2
  <2>6. CASE ~filled
    BY <2>1, <2>4, <2>6, <2>7
  <2> QED  BY <2>5, <2>6
<1>6. form' \in Versions /\ hooks' \in 0..MaxHandlers
  <2>1. form \in Versions /\ hooks \in 0..MaxHandlers
    BY DEF EditorInv, PageTyped
  <2>2. hooks' \in 0..MaxHandlers
    BY <1>1, <2>1, NumbersAre DEF AtMost
  <2> QED  BY <1>1, <1>5, <2>1, <2>2, RenderedIs
<1>7. late' \in BOOLEAN /\ (late' <=> late \/ (form' # form /\ (Writing \/ ~pending)))
  <2>1. (late \/ (form' # form /\ (Writing \/ ~pending))) \in BOOLEAN
    OBVIOUS
  <2>2. late' \in BOOLEAN
    BY <1>2, <2>1, Zenon
  <2>3. late' <=> late \/ (form' # form /\ (Writing \/ ~pending))
    BY <1>2, Zenon
  <2> QED  BY <2>2, <2>3
<1>8. EditorFlags'
  BY <1>1, <1>7 DEF EditorInv, EditorFlags
<1>9. PageTyped'
  BY <1>1, <1>5, <1>6 DEF EditorInv, PageTyped
<1>10. Awaiting'
  BY <1>1, <1>4 DEF EditorInv, Awaiting
<1>11. Latest'
  BY <1>1, <1>4, <1>7, LatestDraws DEF EditorInv
<1> QED  BY <1>4, <1>8, <1>9, <1>10, <1>11 DEF EditorInv

LEMMA ServeKeeps == ASSUME EditorInv, NEW c \in Calls, Serve(c) PROVE EditorInv'
<1>1. /\ UNCHANGED <<mounted, awaited, viewing, isNew, postId, saving, deleting, pending, timer,
                     parked>>
      /\ UNCHANGED <<mode, form, post, hooks, late, chip, edits, errands>>
      /\ calls[c].kind # "none"
  BY DEF Serve, pageVars, identity, flags, saver, screenVars, boundVars
<1>2. Issued' /\ Latest'
  BY IssuedServed, LatestServed DEF EditorInv
<1>3. EditorFlags'
  BY <1>1 DEF EditorInv, EditorFlags
<1>4. PageTyped'
  BY <1>1 DEF EditorInv, PageTyped
<1>5. Awaiting'
  BY <1>1 DEF EditorInv, Awaiting
<1> QED  BY <1>2, <1>3, <1>4, <1>5 DEF EditorInv

(* The inductive invariant of the editor: what is counted, who knows a     *)
(* row, and what the writes under way bring.                               *)
THEOREM EditorInvariant == EditorSpec => []EditorInv
<1>1. EditorInit => EditorInv
  <2> SUFFICES ASSUME EditorInit PROVE EditorInv
    OBVIOUS
  <2>1. /\ mounted = TRUE /\ isNew \in BOOLEAN /\ saving = FALSE /\ deleting = FALSE
        /\ pending = FALSE /\ timer = FALSE /\ late = FALSE /\ parked = FALSE
    BY DEF EditorInit
  <2>2. /\ rows = (IF isNew THEN <<>> ELSE <<[data |-> Blank, trashed |-> FALSE]>>)
        /\ postId = (IF isNew THEN NoId ELSE 1)
        /\ awaited = (IF isNew THEN "igStatus" ELSE "post")
        /\ hooks = (IF isNew THEN 1 ELSE 0)
        /\ viewing = NoId /\ chip = "none" /\ mode = "visual" /\ form = Blank /\ post = Blank
        /\ calls = [c \in Calls |-> NoCall] /\ edits = 0 /\ errands = 0 /\ spare = 0 /\ missed = {}
        /\ ~late /\ ~timer /\ ~pending /\ mounted
    BY DEF EditorInit
  <2>3. EditorFlags
    BY <2>1 DEF EditorFlags
  <2>4. PageTyped
    BY <2>2, BlankIs, NumbersAre DEF PageTyped
  <2>5. \A c \in Calls : calls[c] = NoCall
    BY <2>2
  <2>6. rows \in Seq(RowType) /\ Len(rows) = (IF isNew THEN 0 ELSE 1)
    <3>1. [data |-> Blank, trashed |-> FALSE] \in RowType
      <4>1. FALSE \in BOOLEAN
        OBVIOUS
      <4> QED  BY <4>1, BlankIs DEF RowType
    <3> QED  BY <2>2, <3>1
  <2>7. CallsTyped
    BY <2>2, <2>6, NoCallIs, NumbersAre DEF CallsTyped
  <2>8. NewSent = {} /\ Cardinality(NewSent) = 0
    BY <2>5, NoCallIs, FS_EmptySet DEF NewSent
  <2>9. Counted
    BY <2>2, <2>6, <2>8 DEF Counted, Rowless
  <2>10. Addressed /\ Parting /\ DeletingParks
    BY <2>2, <2>5, <2>6, NoCallIs DEF Addressed, Parting, DeletingParks, Writes
  <2>11. Awaiting /\ Latest
    BY <2>2, <2>5, NoCallIs DEF Awaiting, Latest, Bringing, Writes
  <2> QED  BY <2>3, <2>4, <2>7, <2>9, <2>10, <2>11 DEF EditorInv, Issued
<1>2. EditorInv /\ [EditorNext]_editorVars => EditorInv'
  <2> SUFFICES ASSUME EditorInv, [EditorNext]_editorVars PROVE EditorInv'
    OBVIOUS
  <2>1. CASE Load \/ IgStatus \/ Autosave
    BY <2>1, PostLoadKeeps, IgStatusKeeps, AutosaveKeeps
  <2>2. CASE User
    BY <2>2, InputKeeps, InsertMediaKeeps, SwitchModeKeeps, ViewOnSiteKeeps, SavePostKeeps,
       DeleteKeeps, ErrandKeeps, AnalyzeKeeps, LeaveKeeps DEF User
  <2>3. ASSUME NEW c \in Calls, Serve(c) PROVE EditorInv'
    BY <2>3, ServeKeeps
  <2>4. ASSUME NEW c \in Calls, Answer(c) PROVE EditorInv'
    BY <2>4, AutosaveAnswerKeeps, SaveAnswerKeeps, DeleteAnswerKeeps, ErrandAnswerKeeps,
       AnalyzeAnswerKeeps, OrphanKeeps DEF Answer
  <2>5. CASE UNCHANGED editorVars
    <3>1. /\ UNCHANGED <<mounted, awaited, viewing, isNew, postId, saving, deleting, pending>>
          /\ UNCHANGED <<timer, parked, mode, form, post, hooks, late, chip, edits, errands>>
          /\ UNCHANGED <<calls, rows, missed, serverVars, identity, spare>>
      BY <2>5 DEF editorVars, pageVars, identity, flags, saver, screenVars, boundVars, serverVars
    <3>2. EditorFlags'
      BY <3>1 DEF EditorInv, EditorFlags
    <3>3. PageTyped' /\ Awaiting'
      BY <3>1 DEF EditorInv, PageTyped, Awaiting
    <3>4. Issued'
      BY <3>1, IssuedStays DEF EditorInv
    <3>5. Latest'
      BY <3>1, LatestStays DEF EditorInv, SameWrites
    <3> QED  BY <3>2, <3>3, <3>4, <3>5 DEF EditorInv
  <2> QED  BY <2>1, <2>2, <2>3, <2>4, <2>5 DEF EditorNext
<1> QED  BY <1>1, <1>2, PTL DEF EditorSpec

(* What is owed is parts of a post.                                        *)
DebtTyped == owed \subseteq PostParts /\ dropped \in BOOLEAN

LEMMA DrawsOverIs == DrawsOver /\ DebtTyped => DebtTyped'
<1> SUFFICES ASSUME DrawsOver, DebtTyped PROVE DebtTyped'
  OBVIOUS
<1>1. dropped' = (dropped \/ \E part \in owed : form'[part] # form[part]) /\ owed' = owed
  BY DEF DrawsOver
<1>2. (dropped \/ \E part \in owed : form'[part] # form[part]) \in BOOLEAN
  OBVIOUS
<1>3. dropped' \in BOOLEAN
  BY <1>1, <1>2, Zenon
<1> QED  BY <1>1, <1>3 DEF DebtTyped

LEMMA CountsIs == CountsAsSaved /\ DebtTyped => DebtTyped'
<1> SUFFICES ASSUME CountsAsSaved, DebtTyped PROVE DebtTyped'
  OBVIOUS
<1>1. dropped' = (dropped \/ owed # {}) /\ owed' = owed
  BY DEF CountsAsSaved
<1>2. (dropped \/ owed # {}) \in BOOLEAN
  OBVIOUS
<1>3. dropped' \in BOOLEAN
  BY <1>1, <1>2, Zenon
<1> QED  BY <1>1, <1>3 DEF DebtTyped

LEMMA DebtKeeps == DebtTyped /\ [EditorNext]_editorVars => DebtTyped'
<1> SUFFICES ASSUME DebtTyped, [EditorNext]_editorVars PROVE DebtTyped'
  OBVIOUS
<1>1. UNCHANGED debt => DebtTyped'
  BY DEF debt, DebtTyped
<1>2. Leaving => DebtTyped'
  BY DEF Leaving, DebtTyped
<1>3. ASSUME NEW p, NEW m, NEW n, Redraw(p, m, n) PROVE DebtTyped'
  BY <1>3, DrawsOverIs DEF Redraw
<1>4. ASSUME NEW chosen \in Inputs, Input(chosen) PROVE DebtTyped'
  <2>1. chosen \subseteq PostParts
    BY DEF Inputs, PostParts, Blank
  <2> QED  BY <1>4, <2>1 DEF Input, DebtTyped
<1>5. CASE InsertMedia
  <2>1. owed' = owed \cup {"content"} /\ dropped' = (dropped \/ ~pending)
    BY <1>5 DEF InsertMedia
  <2>2. (dropped \/ ~pending) \in BOOLEAN
    OBVIOUS
  <2>3. dropped' \in BOOLEAN
    BY <2>1, <2>2, Zenon
  <2>4. "content" \in PostParts
    BY DEF PostParts, Blank
  <2> QED  BY <2>1, <2>3, <2>4 DEF DebtTyped
<1>6. ASSUME NEW c, SendAutosave(c) PROVE DebtTyped'
  BY <1>6 DEF SendAutosave, DebtTyped
<1>7. CASE GiveUp
  BY <1>1, <1>7 DEF GiveUp
<1>8. CASE User
  <2>1. CASE SwitchMode
    BY <1>1, <2>1 DEF SwitchMode
  <2>2. CASE ViewOnSite
    BY <1>1, <1>2, <1>6, <2>2 DEF ViewOnSite
  <2>3. CASE Save
    <3>1. owed' = {} /\ dropped' = FALSE
      BY <2>3 DEF Save
    <3> QED  BY <3>1 DEF DebtTyped
  <2>4. CASE Delete
    BY <1>2, <1>3, <2>4 DEF Delete
  <2>5. ASSUME NEW kind, Errand(kind) PROVE DebtTyped'
    BY <1>3, <2>5 DEF Errand
  <2>6. ASSUME NEW kind, Analyze(kind) PROVE DebtTyped'
    BY <1>1, <2>6 DEF Analyze, pageVars
  <2>7. CASE LeaveEditor
    BY <1>2, <2>7 DEF LeaveEditor
  <2> QED  BY <1>4, <1>5, <1>8, <2>1, <2>2, <2>3, <2>4, <2>5, <2>6, <2>7 DEF User
<1>9. ASSUME NEW c, Serve(c) \/ Answer(c) PROVE DebtTyped'
  <2>1. CASE Serve(c) \/ Orphan(c)
    BY <1>1, <2>1 DEF Serve, Orphan, pageVars
  <2>2. CASE AutosaveAnswer(c)
    BY <1>1, <1>2, <2>2, CountsIs DEF AutosaveAnswer
  <2>3. CASE SaveAnswer(c)
    BY <2>3, CountsIs, DrawsOverIs DEF SaveAnswer
  <2>4. CASE DeleteAnswer(c)
    BY <1>2, <1>3, <2>4 DEF DeleteAnswer
  <2>5. CASE ErrandAnswer(c)
    BY <1>3, <2>5 DEF ErrandAnswer
  <2>6. CASE AnalyzeAnswer(c)
    BY <2>6, DrawsOverIs DEF AnalyzeAnswer
  <2> QED  BY <1>9, <2>1, <2>2, <2>3, <2>4, <2>5, <2>6 DEF Answer
<1>10. CASE Load \/ IgStatus \/ Autosave
  BY <1>1, <1>2, <1>3, <1>6, <1>7, <1>10 DEF Load, IgStatus, Autosave
<1>11. CASE UNCHANGED editorVars
  BY <1>1, <1>11 DEF editorVars, pageVars
<1> QED  BY <1>8, <1>9, <1>10, <1>11 DEF EditorNext

(* The editor's variables are of their types.                              *)
THEOREM EditorIsTyped == EditorSpec => []EditorTypeOK
<1>1. EditorInv /\ DebtTyped => EditorTypeOK
  <2> SUFFICES ASSUME EditorInv, DebtTyped PROVE EditorTypeOK
    OBVIOUS
  <2>1. /\ {mounted, isNew, saving, deleting, pending, timer, late, parked, dropped} \subseteq BOOLEAN
        /\ owed \subseteq PostParts
    BY DEF EditorInv, EditorFlags, DebtTyped
  <2>2. /\ calls \in [Calls -> [kind : Kinds, new : BOOLEAN, id : 1..MaxPosts \cup {NoId},
                            data : Versions, stage : {"sent", "ok", "failed"},
                            parted : BOOLEAN]]
        /\ rows \in Seq([data : Versions, trashed : BOOLEAN])
    BY DEF EditorInv, Issued, CallsTyped, CallType, RowType
  <2> QED  BY <2>1, <2>2 DEF EditorTypeOK, EditorInv, PageTyped, Issued, CallsTyped
<1>2. EditorInit => DebtTyped
  BY DEF EditorInit, DebtTyped
<1> QED  BY <1>1, <1>2, DebtKeeps, EditorInvariant, PTL DEF EditorSpec

(* One editor makes one post, except for creates that were sent beside one *)
(* another or answered in vain; an autosave sent after the delete never    *)
(* meets its row in the trash; and a post that is Saved is what is on the  *)
(* screen, unless writes overlapped, the form changed unmarked (an         *)
(* analysis draws what it read at its start) or beside a write, or an      *)
(* autosave created a draft of it whatever status was picked (_autosave,   *)
(* _save, _deletePost, _doAnalyzeField).                                   *)
THEOREM EditorHolds == EditorSpec => []EditorKept
<1>1. EditorInv => EditorKept
  <2> SUFFICES ASSUME EditorInv PROVE EditorKept
    OBVIOUS
  <2>1. OnePost
    <3>1. Len(rows) + Cardinality(NewSent) <= spare + 1
      BY DEF EditorInv, Issued, Counted
    <3>2. Cardinality(NewSent) \in Nat /\ Len(rows) \in Nat /\ spare \in Nat
      BY SentCreates DEF EditorInv, Issued, CallsTyped
    <3> QED  BY <3>1, <3>2 DEF OnePost
  <2>2. DeletingParks
    BY DEF EditorInv, Issued
  <2>3. SavedIsStored
    BY DEF EditorInv, Latest, SavedIsStored
  <2> QED  BY <2>1, <2>2, <2>3 DEF EditorKept
<1> QED  BY <1>1, EditorInvariant, PTL

-----------------------------------------------------------------------------
(***************************************************************************)
(* The feeds, for any sizes and windows and any number of requests.        *)
(***************************************************************************)

Matches(l) ==
    /\ l.filter = address.filter /\ l.page = address.page
    /\ misled \/ l.per = perAsked
    /\ address.per # 0 => l.per = address.per

Whole(l) == IF MultiPage(l) THEN <<"grid", "paginator">> ELSE <<"grid">>

(* Either the request that was sent last is still to be answered, and it   *)
(* asks for what the address says; or it was, and whatever else is under   *)
(* way was passed by it.                                                   *)
LastAsked ==
    /\ address.per # 0 => perAsked = address.per
    /\ ~disorder =>
        \/ \E c \in Flying :
            /\ ~requests[c].late /\ ~requests[c].passed
            /\ Matches(requests[c].list)
            /\ \A d \in Flying : d <= c
        \/ /\ \A c \in Flying : requests[c].passed \/ (feed = "tag" /\ requests[c].late)
           /\ dom \in {"loading", "grid"} /\ ~null => Matches(shown)

(* What is drawn is the state, or a grid that waits for its chunk is about *)
(* to draw it.                                                             *)
Drawn ==
    /\ dom \in {"loading", "error"} => onScreen = Nothing
    /\ dom = "loading" =>
        /\ shown = Nothing /\ ~null
        /\ \A c \in DOMAIN requests : requests[c].at = "fetch" /\ requests[c].kind = "load"
    /\ ~crowded =>
        /\ \A c, d \in Mounting : c = d
        /\ Mounting # {} => chunk = "absent" /\ parts = <<>> /\ onScreen = Nothing
        /\ null => onScreen = Nothing /\ Mounting = {}
        /\ dom = "grid" /\ ~null =>
            IF Mounting = {} THEN onScreen = shown /\ shown \in List /\ parts = Whole(shown)
            ELSE \A c \in Mounting : requests[c].list = shown /\ ~requests[c].lost

FeedInv == FeedTypeOK /\ LastAsked /\ Drawn /\ FirstPostStays

(* A refit takes the page that holds the first post of the one it leaves,  *)
(* on either side of the queue's boundary.                                 *)
LEMMA RefitKeepsFirst ==
    ASSUME NEW p \in Int, NEW current \in Nat \ {0}, NEW next \in Nat \ {0}
    PROVE  /\ RefitPage(p, current, next) \in Int
           /\ FirstPost(p, current) \in Window(RefitPage(p, current, next), next)
<1> DEFINE Split(x) == /\ x = next * (x \div next) + (x % next)
                       /\ x \div next \in Nat /\ x % next \in 0..(next - 1)
<1>1. ASSUME NEW x \in Nat PROVE Split(x)
  OBVIOUS
<1>2. CASE p < 1
  <2> DEFINE x == (-p) * current
             q == RefitPage(p, current, next)
  <2>1. x \in Nat
    <3>1. -p \in Nat BY <1>2
    <3>2. \A a, b \in Nat : a * b \in Nat OBVIOUS
    <3> QED BY <3>1, <3>2
  <2>2. q = -(x \div next) BY <1>2 DEF RefitPage
  <2>3. Split(x) BY <1>1, <2>1
  <2>4. FirstPost(p, current) = -x - 1 BY <1>2 DEF FirstPost
  <2>5. q < 1 /\ q \in Int BY <2>2, <2>3
  <2>6. FirstPost(q, next) - (x % next) = -x - 1
    <3>1. FirstPost(q, next) = q * next - 1 BY <2>5 DEF FirstPost
    <3> HIDE DEF x
    <3>2. q * next = -(next * (x \div next)) BY <2>1, <2>2, <2>3
    <3> QED BY <3>1, <3>2, <2>1, <2>3
  <2> HIDE DEF q, x
  <2>7. -x - 1 \in {FirstPost(q, next) - k : k \in 0..(next - 1)}
    <3>1. x % next \in 0..(next - 1) BY <2>3
    <3> QED BY <3>1, <2>6
  <2>8. FirstPost(p, current) \in Window(q, next) BY <2>4, <2>5, <2>7 DEF Window
  <2> QED BY <2>5, <2>8 DEF q
<1>3. CASE ~(p < 1)
  <2> DEFINE x == (p - 1) * current
             q == RefitPage(p, current, next)
  <2>1. x \in Nat
    <3>1. p - 1 \in Nat BY <1>3
    <3>2. \A a, b \in Nat : a * b \in Nat OBVIOUS
    <3> QED BY <3>1, <3>2
  <2>2. q = (x \div next) + 1 BY <1>3 DEF RefitPage
  <2>3. Split(x) BY <1>1, <2>1
  <2>4. FirstPost(p, current) = x BY <1>3 DEF FirstPost
  <2>5. ~(q < 1) /\ q \in Int BY <2>2, <2>3
  <2>6. FirstPost(q, next) + (x % next) = x
    <3>1. FirstPost(q, next) = (q - 1) * next BY <2>5 DEF FirstPost
    <3> HIDE DEF x
    <3>2. (q - 1) * next = next * (x \div next) BY <2>1, <2>2, <2>3
    <3> QED BY <3>1, <3>2, <2>1, <2>3
  <2> HIDE DEF q, x
  <2>7. x \in {FirstPost(q, next) + k : k \in 0..(next - 1)}
    <3>1. x % next \in 0..(next - 1) BY <2>3
    <3> QED BY <3>1, <2>6
  <2>8. FirstPost(p, current) \in Window(q, next) BY <2>4, <2>5, <2>7 DEF Window
  <2> QED BY <2>5, <2>8 DEF q
<1> QED BY <1>2, <1>3

(* What the latch answers: nothing, or the size that was measured.         *)
LEMMA AcceptIs ==
    ASSUME NEW l \in Latch, NEW current \in Sizes, NEW fit \in Sizes
    PROVE  Accept(l, current, fit).latch \in Latch /\ Accept(l, current, fit).per \in {0, fit}
<1> DEFINE grown == [l EXCEPT !.applied = @ \cup {fit}]
           closed == [l EXCEPT !.latched = TRUE]
<1>1. grown \in Latch /\ closed \in Latch BY DEF Latch
<1> HIDE DEF grown, closed
<1>2. \A c \in {TRUE, FALSE} : (IF c THEN fit ELSE 0) \in {0, fit} OBVIOUS
<1>3. CASE l.latched \/ fit = current
  BY <1>3 DEF Accept
<1>4. CASE ~(l.latched \/ fit = current) /\ fit \in l.applied
  <2>1. Accept(l, current, fit) = [latch |-> closed, per |-> IF fit < current THEN fit ELSE 0]
    BY <1>4 DEF Accept, closed
  <2> QED BY <2>1, <1>1
<1>5. CASE ~(l.latched \/ fit = current) /\ fit \notin l.applied
  <2>1. Accept(l, current, fit) = [latch |-> grown, per |-> fit]
    BY <1>5 DEF Accept, grown
  <2> QED BY <2>1, <1>1
<1> QED BY <1>3, <1>4, <1>5

(* Where the d-th request stood before the c-th was taken out.             *)
Old(c, d) == IF d < c THEN d ELSE d + 1

LEMMA RemoveAtIs ==
    ASSUME NEW S, NEW s \in Seq(S), NEW c \in 1..Len(s)
    PROVE  /\ RemoveAt(s, c) \in Seq(S)
           /\ Len(RemoveAt(s, c)) = Len(s) - 1
           /\ \A d \in 1..(Len(s) - 1) : RemoveAt(s, c)[d] = s[Old(c, d)]
<1> DEFINE a == SubSeq(s, 1, c - 1)
           b == SubSeq(s, c + 1, Len(s))
<1>1. a \in Seq(S) /\ Len(a) = c - 1 /\ \A i \in 1..(c - 1) : a[i] = s[i]
  BY SubSeqProperties
<1>2. b \in Seq(S) /\ Len(b) = Len(s) - c /\ \A i \in 1..(Len(s) - c) : b[i] = s[c + i]
  BY SubSeqProperties
<1> HIDE DEF a, b
<1>3. RemoveAt(s, c) = a \o b BY DEF RemoveAt, a, b
<1>4. a \o b \in Seq(S) /\ Len(a \o b) = Len(s) - 1
  <2>1. a \o b \in Seq(S) /\ Len(a \o b) = Len(a) + Len(b) BY <1>1, <1>2, ConcatProperties
  <2> QED BY <2>1, <1>1, <1>2
<1>5. ASSUME NEW d \in 1..(Len(s) - 1) PROVE (a \o b)[d] = s[Old(c, d)]
  <2>1. CASE d < c
    BY <2>1, <1>1, <1>2 DEF Old
  <2>2. CASE ~(d < c)
    <3>1. (a \o b)[d] = b[d - (c - 1)] BY <2>2, <1>1, <1>2
    <3>2. d - (c - 1) \in 1..(Len(s) - c) /\ c + (d - (c - 1)) = d + 1 BY <2>2
    <3> QED BY <3>1, <3>2, <1>2, <2>2 DEF Old
  <2> QED BY <2>1, <2>2
<1> QED BY <1>3, <1>4, <1>5

(***************************************************************************)
(* What an answer leaves of the requests.                                  *)
(***************************************************************************)
(* r is the request q, a little later.                                     *)
Follows(q, r) ==
    /\ r.at = q.at /\ r.list = q.list
    /\ q.at = "fetch" => r.kind = q.kind /\ (r.late <=> q.late) /\ (q.passed => r.passed)

(* r is the requests without the c-th; those sent later have been passed   *)
(* by nothing.                                                             *)
LeftAfter(c, r) ==
    /\ r \in Seq(Request)
    /\ Len(r) = Len(requests) - 1
    /\ \A d \in 1..(Len(requests) - 1) :
        /\ Follows(requests[Old(c, d)], r[d])
        /\ c <= d /\ r[d].at = "fetch" /\ r[d].passed => requests[d + 1].passed

(* Those sent before it have been.                                         *)
Overtaken(c, r) ==
    \A d \in 1..(c - 1) :
        requests[d].at = "fetch" => r[d].passed \/ (feed = "tag" /\ requests[d].late)

LEMMA FunctionIsSeq ==
    ASSUME NEW S, NEW n \in Nat, NEW f \in [1..n -> S]
    PROVE  f \in Seq(S) /\ Len(f) = n
  OBVIOUS

LEMMA PassedIs ==
    ASSUME NEW q \in Request, q.at = "fetch"
    PROVE  /\ [q EXCEPT !.passed = TRUE] \in Request
           /\ [q EXCEPT !.passed = TRUE].passed = TRUE
           /\ Follows(q, [q EXCEPT !.passed = TRUE])
<1>1. q \in FetchRequest BY DEF Request, MountRequest
<1>2. [q EXCEPT !.passed = TRUE] \in FetchRequest BY <1>1 DEF FetchRequest
<1>3. [q EXCEPT !.passed = TRUE].passed = TRUE BY <1>1 DEF FetchRequest
<1> DEFINE r == [q EXCEPT !.passed = TRUE]
<1>4. r.at = q.at /\ r.list = q.list /\ r.kind = q.kind /\ r.late = q.late
  BY <1>1 DEF FetchRequest
<1> HIDE DEF r
<1>5. Follows(q, r) BY <1>3, <1>4 DEF Follows, r
<1> QED BY <1>2, <1>3, <1>5 DEF Request, r

LEMMA LostIs ==
    ASSUME NEW q \in Request, q.at = "mount"
    PROVE  /\ [q EXCEPT !.lost = TRUE] \in Request
           /\ Follows(q, [q EXCEPT !.lost = TRUE])
<1>1. q \in MountRequest BY DEF Request, FetchRequest
<1>2. [q EXCEPT !.lost = TRUE] \in MountRequest BY <1>1 DEF MountRequest
<1> DEFINE r == [q EXCEPT !.lost = TRUE]
<1>4. r.at = q.at /\ r.list = q.list BY <1>1 DEF MountRequest
<1> HIDE DEF r
<1>5. Follows(q, r) BY <1>4 DEF Follows, r
<1> QED BY <1>2, <1>5 DEF Request, r

LEMMA FollowsItself == \A q : Follows(q, q) BY DEF Follows

LEMMA RemainingIs ==
    ASSUME requests \in Seq(Request), NEW c \in Flying
    PROVE  /\ LeftAfter(c, Remaining(c))
           /\ Overtaken(c, Remaining(c))
           /\ \A d \in 1..(Len(requests) - 1) :
                requests[Old(c, d)].at = "mount" => Remaining(c)[d] = requests[Old(c, d)]
<1> DEFINE n == Len(requests)
           Passes(d) == d \in Flying /\ d < c /\ ~(feed = "tag" /\ requests[d].late)
           left == [d \in DOMAIN requests |->
                      IF Passes(d) THEN [requests[d] EXCEPT !.passed = TRUE] ELSE requests[d]]
<1>1. n \in Nat /\ DOMAIN requests = 1..n /\ c \in 1..n /\ \A d \in 1..n : requests[d] \in Request
  BY LenProperties, ElementOfSeq DEF Flying
<1>2. Remaining(c) = RemoveAt(left, c) BY DEF Remaining
<1>3. ASSUME NEW d \in 1..n
      PROVE  /\ left[d] \in Request /\ Follows(requests[d], left[d])
             /\ ~Passes(d) => left[d] = requests[d]
             /\ Passes(d) => left[d].passed = TRUE
  <2>1. CASE Passes(d)
    <3>1. requests[d].at = "fetch" BY <2>1 DEF Flying
    <3>2. left[d] = [requests[d] EXCEPT !.passed = TRUE] BY <2>1, <1>1
    <3> QED BY <3>1, <3>2, <1>1, <2>1, PassedIs
  <2>2. CASE ~Passes(d)
    <3>1. left[d] = requests[d] BY <2>2, <1>1
    <3> QED BY <3>1, <1>1, <2>2, FollowsItself
  <2> QED BY <2>1, <2>2
<1>4. left \in [1..n -> Request] BY <1>1, <1>3
<1>5. left \in Seq(Request) /\ Len(left) = n BY <1>4, <1>1, FunctionIsSeq
<1> HIDE DEF left
<1>6. /\ Remaining(c) \in Seq(Request) /\ Len(Remaining(c)) = n - 1
      /\ \A d \in 1..(n - 1) : Remaining(c)[d] = left[Old(c, d)]
  <2>1. c \in 1..Len(left) BY <1>1, <1>5
  <2>2. /\ RemoveAt(left, c) \in Seq(Request) /\ Len(RemoveAt(left, c)) = Len(left) - 1
        /\ \A d \in 1..(Len(left) - 1) : RemoveAt(left, c)[d] = left[Old(c, d)]
    BY <2>1, <1>5, RemoveAtIs
  <2> QED BY <2>2, <1>2, <1>5
<1>7. ASSUME NEW d \in 1..(n - 1)
      PROVE  /\ Old(c, d) \in 1..n
             /\ c <= d => Old(c, d) = d + 1 /\ ~(Old(c, d) < c)
             /\ d < c => Old(c, d) = d
  BY <1>1 DEF Old
<1>8. ASSUME NEW d \in 1..(n - 1), c <= d PROVE Remaining(c)[d] = requests[d + 1]
  BY <1>8, <1>7, <1>6, <1>3
<1>9. LeftAfter(c, Remaining(c))
  BY <1>6, <1>7, <1>8, <1>3 DEF LeftAfter
<1>10. ASSUME NEW d \in 1..(c - 1), requests[d].at = "fetch"
       PROVE  Remaining(c)[d].passed \/ (feed = "tag" /\ requests[d].late)
  <2>1. d \in 1..(n - 1) /\ Old(c, d) = d /\ d \in 1..n /\ d < c BY <1>1, <1>7
  <2>2. d \in Flying BY <1>1, <1>10, <2>1 DEF Flying
  <2>3. CASE feed = "tag" /\ requests[d].late BY <2>3
  <2>4. CASE ~(feed = "tag" /\ requests[d].late)
    <3>1. left[d].passed = TRUE BY <2>1, <2>2, <2>4, <1>3
    <3>2. Remaining(c)[d] = left[d] BY <2>1, <1>6
    <3> QED BY <3>1, <3>2
  <2> QED BY <2>3, <2>4
<1>11. ASSUME NEW d \in 1..(n - 1), requests[Old(c, d)].at = "mount"
       PROVE  Remaining(c)[d] = requests[Old(c, d)]
  <2>1. ~Passes(Old(c, d)) BY <1>11 DEF Flying
  <2> QED BY <2>1, <1>6, <1>7, <1>3
<1> QED BY <1>9, <1>10, <1>11 DEF Overtaken

LEMMA LoseIs ==
    ASSUME NEW c, NEW r, LeftAfter(c, r), Overtaken(c, r), requests \in Seq(Request), c \in Flying
    PROVE  LeftAfter(c, Lose(r)) /\ Overtaken(c, Lose(r))
<1> DEFINE n == Len(requests)
<1>1. n \in Nat /\ c \in 1..n BY LenProperties DEF Flying
<1>2. r \in Seq(Request) /\ Len(r) = n - 1 BY DEF LeftAfter
<1>3. DOMAIN r = 1..(n - 1) /\ \A d \in 1..(n - 1) : r[d] \in Request
  BY <1>2, LenProperties, ElementOfSeq
<1>4. ASSUME NEW d \in 1..(n - 1)
      PROVE  /\ Lose(r)[d] \in Request /\ Follows(r[d], Lose(r)[d])
             /\ r[d].at = "fetch" => Lose(r)[d] = r[d]
  <2>1. CASE r[d].at = "mount"
    <3>1. Lose(r)[d] = [r[d] EXCEPT !.lost = TRUE] BY <2>1, <1>3 DEF Lose
    <3> QED BY <3>1, <1>3, <2>1, LostIs
  <2>2. CASE r[d].at # "mount"
    <3>1. Lose(r)[d] = r[d] BY <2>2, <1>3 DEF Lose
    <3> QED BY <3>1, <1>3, FollowsItself
  <2> QED BY <2>1, <2>2
<1>5. Lose(r) \in [1..(n - 1) -> Request] BY <1>3, <1>4 DEF Lose
<1>6. Lose(r) \in Seq(Request) /\ Len(Lose(r)) = n - 1 BY <1>5, <1>1, FunctionIsSeq
<1>7. ASSUME NEW d \in 1..(n - 1)
      PROVE  /\ Follows(requests[Old(c, d)], Lose(r)[d])
             /\ c <= d /\ Lose(r)[d].at = "fetch" /\ Lose(r)[d].passed => requests[d + 1].passed
  <2>1. Follows(requests[Old(c, d)], r[d])
        /\ (c <= d /\ r[d].at = "fetch" /\ r[d].passed => requests[d + 1].passed)
    BY DEF LeftAfter
  <2>2. Lose(r)[d].at = r[d].at BY <1>4 DEF Follows
  <2>3. Follows(requests[Old(c, d)], Lose(r)[d])
    BY <2>1, <1>4 DEF Follows
  <2> QED BY <2>1, <2>2, <2>3, <1>4
<1>8. LeftAfter(c, Lose(r)) BY <1>6, <1>7 DEF LeftAfter
<1>9. ASSUME NEW d \in 1..(c - 1), requests[d].at = "fetch"
      PROVE  Lose(r)[d].passed \/ (feed = "tag" /\ requests[d].late)
  <2>1. d \in 1..(n - 1) /\ Old(c, d) = d BY <1>1 DEF Old
  <2>2. r[d].at = "fetch" BY <2>1, <1>9 DEF LeftAfter, Follows
  <2> QED BY <2>1, <2>2, <1>4, <1>9 DEF Overtaken
<1> QED BY <1>8, <1>9 DEF Overtaken

(***************************************************************************)
(* One request more.                                                       *)
(***************************************************************************)
OneMore ==
    /\ requests' \in Seq(Request)
    /\ Len(requests') = Len(requests) + 1
    /\ perAsked' \in Sizes /\ (address'.per # 0 => perAsked' = address'.per)
    /\ misled' = FALSE
    /\ LET r == requests'[Len(requests) + 1] IN
        /\ r.at = "fetch" /\ ~r.late /\ ~r.passed
        /\ r.list = [filter |-> address'.filter, page |-> address'.page, per |-> perAsked']
        /\ shown = Nothing => r.kind = "load"
    /\ \A d \in 1..Len(requests) :
        /\ requests'[d].at = requests[d].at
        /\ requests[d].at = "fetch" => requests'[d].kind = requests[d].kind
        /\ requests[d].at = "mount" => requests'[d] = requests[d]

LEMMA LateIs ==
    ASSUME NEW q \in Request, q.at = "fetch"
    PROVE  /\ [q EXCEPT !.late = TRUE] \in Request
           /\ [q EXCEPT !.late = TRUE].at = q.at /\ [q EXCEPT !.late = TRUE].kind = q.kind
<1>1. q \in FetchRequest BY DEF Request, MountRequest
<1>2. [q EXCEPT !.late = TRUE] \in FetchRequest BY <1>1 DEF FetchRequest
<1>3. [q EXCEPT !.late = TRUE].at = q.at /\ [q EXCEPT !.late = TRUE].kind = q.kind
  BY <1>1 DEF FetchRequest
<1> QED BY <1>2, <1>3 DEF Request

LEMMA AskIs ==
    ASSUME requests \in Seq(Request), address' \in Address, lastFit' \in Sizes, minimum' \in Sizes,
           NEW kind \in {"load", "refresh"}, NEW refit \in BOOLEAN, Ask(kind, refit),
           shown = Nothing => kind = "load"
    PROVE  OneMore
<1> DEFINE n == Len(requests)
           number == PerPage(address)'
           list == [address' EXCEPT !.per = number]
           Passed(d) == d \in Flying /\ kind = "load"
           older == [d \in DOMAIN requests |->
                       IF Passed(d) THEN [requests[d] EXCEPT !.late = TRUE] ELSE requests[d]]
           new == [at |-> "fetch", kind |-> kind, vc |-> address', list |-> list,
                   refit |-> refit, late |-> FALSE, passed |-> FALSE]
<1>1. n \in Nat /\ DOMAIN requests = 1..n /\ \A d \in 1..n : requests[d] \in Request
  BY LenProperties, ElementOfSeq
<1>2. /\ number \in Sizes
      /\ address'.per # 0 => number = address'.per
  BY DEF PerPage, Cached, Address
<1>12. requests' = Append(older, new) /\ perAsked' = list.per /\ misled' = FALSE BY DEF Ask
<1> HIDE DEF number
<1>3. list \in List /\ list.per = number
      /\ list = [filter |-> address'.filter, page |-> address'.page, per |-> number]
  BY <1>2 DEF Address, List
<1>4. requests' = Append(older, new) /\ perAsked' = list.per /\ misled' = FALSE BY <1>12
<1>5. ASSUME NEW d \in 1..n
      PROVE  /\ older[d] \in Request /\ older[d].at = requests[d].at
             /\ requests[d].at = "fetch" => older[d].kind = requests[d].kind
             /\ requests[d].at = "mount" => older[d] = requests[d]
  <2>1. CASE Passed(d)
    <3>1. requests[d].at = "fetch" BY <2>1 DEF Flying
    <3>2. older[d] = [requests[d] EXCEPT !.late = TRUE] BY <2>1, <1>1
    <3> QED BY <3>1, <3>2, <1>1, LateIs
  <2>2. CASE ~Passed(d)
    <3>1. older[d] = requests[d] BY <2>2, <1>1
    <3> QED BY <3>1, <1>1
  <2> QED BY <2>1, <2>2
<1>6. older \in [1..n -> Request] BY <1>1, <1>5
<1>7. older \in Seq(Request) /\ Len(older) = n BY <1>6, <1>1, FunctionIsSeq
<1>8. new \in Request
  <2>1. new \in FetchRequest BY <1>3 DEF FetchRequest
  <2> QED BY <2>1 DEF Request
<1>9. new.at = "fetch" /\ ~new.late /\ ~new.passed /\ new.list = list /\ new.kind = kind
  OBVIOUS
<1> HIDE DEF older, new
<1>10. /\ requests' \in Seq(Request) /\ Len(requests') = n + 1
       /\ requests'[n + 1] = new
       /\ \A d \in 1..n : requests'[d] = older[d]
  BY <1>4, <1>7, <1>8, <1>1
<1>11. list.per = perAsked' BY <1>4
<1> HIDE DEF list
<1> QED BY <1>2, <1>3, <1>4, <1>5, <1>9, <1>10, <1>11 DEF OneMore

LEMMA RouteUpdateIs ==
    ASSUME requests \in Seq(Request), address' \in Address, lastFit' \in Sizes, minimum' \in Sizes, wanted \in Address,
           NEW refit \in BOOLEAN, RouteUpdate(refit)
    PROVE  OneMore /\ wanted' \in Address
<1>1. CASE Partial(wanted, address')
  <2>1. shown # Nothing BY <1>1 DEF Partial
  <2>2. Ask("refresh", refit) /\ wanted' = wanted BY <1>1 DEF RouteUpdate
  <2> QED BY <2>1, <2>2, AskIs
<1>2. CASE ~Partial(wanted, address')
  <2>1. Ask("load", FALSE) /\ wanted' = address' BY <1>2 DEF RouteUpdate
  <2>2. FALSE \in BOOLEAN OBVIOUS
  <2> QED BY <2>1, <2>2, AskIs
<1> QED BY <1>1, <1>2

LEMMA MoreIsAsked ==
    ASSUME requests \in Seq(Request), OneMore
    PROVE  LastAsked'
<1>1. PICK k \in Nat : k = Len(requests) + 1 BY LenProperties
<1>2. DOMAIN requests' = 1..k BY <1>1, LenProperties DEF OneMore
<1>3. k \in Flying' BY <1>1, <1>2, LenProperties DEF Flying, OneMore
<1>4. \A d \in Flying' : d <= k BY <1>2 DEF Flying
<1>5. Matches(requests[k].list)' BY <1>1 DEF Matches, OneMore
<1>6. ~requests'[k].late /\ ~requests'[k].passed BY <1>1 DEF OneMore
<1>7. (\E c \in Flying :
            /\ ~requests[c].late /\ ~requests[c].passed
            /\ Matches(requests[c].list)
            /\ \A d \in Flying : d <= c)'
  BY <1>3, <1>4, <1>5, <1>6
<1> QED BY <1>7 DEF LastAsked, OneMore

LEMMA MoreIsDrawn ==
    ASSUME requests \in Seq(Request), Drawn, OneMore,
           UNCHANGED <<feed, dom, parts, onScreen, null, crowded, shown, chunk>>
    PROVE  Drawn'
<1> DEFINE n == Len(requests)
<1>1. n \in Nat /\ DOMAIN requests = 1..n /\ DOMAIN requests' = 1..(n + 1)
  BY LenProperties DEF OneMore
<1>2. /\ \A d \in 1..n : /\ requests'[d].at = requests[d].at
                         /\ requests[d].at = "fetch" => requests'[d].kind = requests[d].kind
                         /\ requests[d].at = "mount" => requests'[d] = requests[d]
      /\ requests'[n + 1].at = "fetch"
      /\ shown = Nothing => requests'[n + 1].kind = "load"
  BY DEF OneMore
<1>3. Mounting' = Mounting BY <1>1, <1>2 DEF Mounting
<1>4. \A c \in Mounting : requests'[c] = requests[c] BY <1>1, <1>2 DEF Mounting
<1>5. ASSUME dom = "loading"
      PROVE  \A c \in DOMAIN requests' : requests'[c].at = "fetch" /\ requests'[c].kind = "load"
  <2>1. TAKE c \in DOMAIN requests'
  <2>2. shown = Nothing /\ \A d \in 1..n : requests[d].at = "fetch" /\ requests[d].kind = "load"
    BY <1>5, <1>1 DEF Drawn
  <2>3. c \in 1..n \/ c = n + 1 BY <1>1
  <2> QED BY <2>2, <2>3, <1>2
<1>6. \A l : Whole(l)' = Whole(l) BY DEF Whole, MultiPage
<1> HIDE DEF n
<1> QED BY <1>3, <1>4, <1>5, <1>6 DEF Drawn

(***************************************************************************)
(* The type in two halves: the flags, and the rest.                        *)
(***************************************************************************)
FeedShapes ==
    /\ feed \in {"home", "tag", "search"}
    /\ address \in Address
    /\ viewport \in Viewports
    /\ lastFit \in Sizes /\ minimum \in Sizes /\ perAsked \in Sizes
    /\ wanted \in Address
    /\ dom \in {"loading", "error", "grid", "gone"}
    /\ shown \in List \cup {Nothing} /\ onScreen \in List \cup {Nothing}
    /\ parts \in Seq({"grid", "null", "paginator"})
    /\ requests \in Seq(Request) /\ Len(requests) <= MaxRequests
    /\ latch \in Latch
    /\ due \subseteq {"frame", "settle", "resize"}
    /\ chunk \in {"there", "absent", "broken"}
    /\ steps \in 0..MaxSteps

FeedFlags ==
    /\ owned \in BOOLEAN /\ null \in BOOLEAN /\ blocked \in BOOLEAN
    /\ disorder \in BOOLEAN /\ crowded \in BOOLEAN /\ jumped \in BOOLEAN
    /\ misled \in BOOLEAN /\ unfitted \in BOOLEAN

LEMMA FeedTypeIs == FeedTypeOK <=> FeedShapes /\ FeedFlags
<1>1. FeedFlags <=> {owned, null, blocked, disorder, crowded, jumped, misled, unfitted} \subseteq BOOLEAN
  BY Zenon DEF FeedFlags
<1>2. FeedShapes /\ {owned, null, blocked, disorder, crowded, jumped, misled, unfitted} \subseteq BOOLEAN
      <=> FeedTypeOK
  BY Zenon DEF FeedShapes, FeedTypeOK
<1> QED BY <1>1, <1>2

LEMMA FeedTypeComes == FeedShapes' /\ FeedFlags' => FeedTypeOK'
<1>1. FeedFlags' => {owned, null, blocked, disorder, crowded, jumped, misled, unfitted}' \subseteq BOOLEAN
  BY Zenon DEF FeedFlags
<1>2. FeedShapes' /\ {owned, null, blocked, disorder, crowded, jumped, misled, unfitted}' \subseteq BOOLEAN
      => FeedTypeOK'
  BY Zenon DEF FeedShapes, FeedTypeOK
<1> QED BY <1>1, <1>2

(* What a preload, or none, leaves of the number that was asked for last.   *)
Recounted ==
    /\ perAsked' \in Sizes /\ misled' \in BOOLEAN
    /\ address.per # 0 => perAsked' = perAsked
    /\ misled => misled'
    /\ ~misled' => perAsked' = perAsked

LEMMA UnchangedCountIs ==
    ASSUME perAsked \in Sizes, misled \in BOOLEAN, UNCHANGED <<perAsked, misled>>
    PROVE  Recounted
<1>1. perAsked' = perAsked /\ misled' = misled OBVIOUS
<1>2. perAsked' \in Sizes BY <1>1
<1>3. misled' \in BOOLEAN BY Zenon, <1>1
<1>4. misled => misled' BY <1>1
<1> QED BY Zenon, <1>1, <1>2, <1>3, <1>4 DEF Recounted

LEMMA PreloadIs ==
    ASSUME FeedShapes, address.per # 0 => perAsked = address.per, misled \in BOOLEAN,
           address' = address, lastFit' = lastFit, minimum' \in Sizes, NEW l, Preload(l)
    PROVE  Recounted
<1>1. /\ perAsked' = IF dom' = "grid" /\ MultiPage(l) THEN PerPage(address)' ELSE perAsked
      /\ misled' = (misled \/ perAsked' # perAsked)
  BY DEF Preload
<1>2. PerPage(address)' \in Sizes /\ (address.per # 0 => PerPage(address)' = address.per)
  BY DEF PerPage, Cached, FeedShapes, Address
<1>3. perAsked' = PerPage(address)' \/ perAsked' = perAsked BY <1>1
<1>4. perAsked' \in Sizes /\ (address.per # 0 => perAsked' = perAsked)
  BY <1>2, <1>3 DEF FeedShapes
<1>5. (misled \/ perAsked' # perAsked) \in BOOLEAN OBVIOUS
<1>6. misled' \in BOOLEAN BY Zenon, <1>1, <1>5
<1>7. misled => misled' BY Zenon, <1>1
<1>8. ~misled' => perAsked' = perAsked BY Zenon, <1>1
<1> QED BY Zenon, <1>4, <1>6, <1>7, <1>8 DEF Recounted

LEMMA FeedSizes ==
    /\ Total \in Nat /\ Queue \in Nat /\ MaxSteps \in Nat /\ MaxRequests \in Nat \ {0}
    /\ Sizes \subseteq Nat \ {0}
    /\ FitOf \in [Viewports -> [Sizes -> Sizes]]
  BY FeedAssumption DEF FeedAssumption

LEMMA ShownAtRest ==
    ASSUME FeedInv, Running, requests = <<>>, ~disorder, ~crowded, ~null, dom # "error"
    PROVE  /\ onScreen = shown /\ shown \in List /\ parts = Whole(shown)
           /\ Matches(shown)
<1>1. FeedShapes BY FeedTypeIs DEF FeedInv
<1>2. Flying = {} /\ Mounting = {} BY DEF Flying, Mounting
<1>3. dom \in {"loading", "grid"} BY <1>1 DEF Running, FeedShapes
<1>4. Matches(shown) BY <1>2, <1>3 DEF FeedInv, LastAsked
<1>5. dom # "loading"
  <2>1. Nothing.filter = "none" /\ address.filter \in {"all", "one"}
    BY <1>1 DEF Nothing, FeedShapes, Address, Filters
  <2>2. shown # Nothing BY <2>1, <1>4 DEF Matches
  <2> QED BY <2>2 DEF FeedInv, Drawn
<1> QED BY <1>2, <1>3, <1>4, <1>5 DEF FeedInv, Drawn

LEMMA ReconcileIs ==
    ASSUME FeedInv, Running, NEW why, NEW l \in Latch, viewport' \in Viewports, minimum' \in Sizes,
           Reconcile(why, l)
    PROVE  /\ lastFit' \in Sizes /\ latch' \in Latch /\ owned' \in BOOLEAN
           /\ perAsked' \in Sizes /\ address' \in Address /\ wanted' \in Address
           /\ jumped' = FALSE /\ misled' \in BOOLEAN
           /\ OneMore \/ UNCHANGED <<address, requests, perAsked, wanted, misled>>
<1> DEFINE fit == Fit(viewport', onScreen.per)
           next == Accept(l, perAsked, fit)
           page == RefitPage(address.page, perAsked, next.per)
           Loses == /\ requests = <<>> /\ ~disorder /\ ~crowded /\ ~misled
                    /\ FirstPost(onScreen.page, onScreen.per) \notin Window(page, next.per)
<1>1. FeedShapes BY FeedTypeIs DEF FeedInv
<1>2. owned \in BOOLEAN /\ misled \in BOOLEAN BY FeedTypeIs DEF FeedInv, FeedFlags
<1>3. jumped = FALSE
  <2>1. jumped \in BOOLEAN BY FeedTypeIs DEF FeedInv, FeedFlags
  <2> QED BY <2>1 DEF FeedInv, FirstPostStays
<1>4. CASE onScreen = Nothing \/ ~MayFit(why)
  <2>1. latch' = l
        /\ UNCHANGED <<lastFit, address, owned, requests, perAsked, wanted, jumped, misled>>
    BY <1>4 DEF Reconcile
  <2> QED BY <2>1, <1>1, <1>2, <1>3 DEF FeedShapes
<1>5. CASE ~(onScreen = Nothing \/ ~MayFit(why))
  <2>1. onScreen \in List /\ onScreen.per \in Sizes BY <1>1, <1>5 DEF FeedShapes, List
  <2>2. fit \in Sizes BY <2>1, FeedSizes DEF Fit
  <2>3. next.latch \in Latch /\ next.per \in {0, fit} BY <1>1, <2>2, AcceptIs DEF FeedShapes
  <2>4. /\ lastFit' = fit /\ latch' = next.latch
        /\ IF next.per = 0 THEN UNCHANGED <<address, owned, requests, perAsked, wanted, jumped,
                                            misled>>
           ELSE /\ address' = [address EXCEPT !.page = page, !.per = next.per]
                /\ owned' = TRUE
                /\ RouteUpdate(TRUE)
                /\ jumped' = (jumped \/ Loses)
    BY <1>5 DEF Reconcile
  <2> HIDE DEF fit, next
  <2>5. CASE next.per = 0
    BY <2>5, <2>4, <2>2, <2>3, <1>1, <1>2, <1>3 DEF FeedShapes
  <2>6. CASE next.per # 0
    <3>1. /\ address' = [address EXCEPT !.page = page, !.per = next.per]
          /\ owned' = TRUE /\ RouteUpdate(TRUE) /\ jumped' = (jumped \/ Loses)
      BY <2>4, <2>6
    <3>2. next.per \in Nat \ {0} /\ next.per \in Sizes BY <2>2, <2>3, <2>6, FeedSizes
    <3>3. perAsked \in Nat \ {0} /\ address.page \in Int BY <1>1, FeedSizes DEF FeedShapes, Address
    <3>4. page \in Int /\ FirstPost(address.page, perAsked) \in Window(page, next.per)
      BY <3>2, <3>3, RefitKeepsFirst
    <3> HIDE DEF page
    <3>5. address' \in Address BY <3>1, <3>2, <3>4, <1>1 DEF FeedShapes, Address
    <3>6. ~Loses
      <4>1. SUFFICES ASSUME requests = <<>>, ~disorder, ~crowded, ~misled
                     PROVE  FirstPost(onScreen.page, onScreen.per) \in Window(page, next.per)
        OBVIOUS
      <4>2. ~null /\ dom # "error" BY <1>5, <4>1 DEF FeedInv, Drawn
      <4>3. onScreen = shown /\ Matches(shown) BY <4>1, <4>2, ShownAtRest
      <4>4. onScreen.page = address.page /\ onScreen.per = perAsked BY <4>1, <4>3 DEF Matches
      <4> QED BY <4>4, <3>4
    <3> HIDE DEF Loses
    <3>7. jumped' = FALSE BY <3>1, <3>6, <1>3
    <3>8. OneMore /\ wanted' \in Address
      <4>1. requests \in Seq(Request) /\ wanted \in Address BY <1>1 DEF FeedShapes
      <4>2. lastFit' \in Sizes BY <2>4, <2>2
      <4>3. TRUE \in BOOLEAN OBVIOUS
      <4> QED BY <3>1, <3>5, <4>1, <4>2, <4>3, RouteUpdateIs
    <3>9. perAsked' \in Sizes /\ misled' \in BOOLEAN BY <3>8 DEF OneMore
    <3>10. owned' \in BOOLEAN BY <3>1
    <3> QED BY <3>5, <3>7, <3>8, <3>9, <3>10, <2>2, <2>3, <2>4
  <2> QED BY <2>5, <2>6
<1> QED BY <1>4, <1>5

(***************************************************************************)
(* The steps that send at most one request.                                *)
(***************************************************************************)
LEMMA SameIsAsked ==
    ASSUME LastAsked, UNCHANGED <<feed, address, perAsked, misled, disorder, requests, dom, shown,
                                  null>>
    PROVE  LastAsked'
<1>1. Flying' = Flying BY DEF Flying
<1>2. \A l : Matches(l)' <=> Matches(l) BY DEF Matches
<1> QED BY <1>1, <1>2 DEF LastAsked

LEMMA SameIsDrawn ==
    ASSUME Drawn, UNCHANGED <<feed, requests, dom, parts, onScreen, null, crowded, shown, chunk>>
    PROVE  Drawn'
<1>1. Mounting' = Mounting BY DEF Mounting
<1>2. \A l : Whole(l)' = Whole(l) BY DEF Whole, MultiPage
<1> QED BY <1>1, <1>2 DEF Drawn

LEMMA ChangeAddressKeeps ==
    ASSUME FeedInv, NEW filter \in Filters, NEW page \in Int, NEW per \in Sizes \cup {0},
           ChangeAddress(filter, page, per)
    PROVE  FeedInv'
<1>1. FeedShapes /\ FeedFlags BY FeedTypeIs DEF FeedInv
<1>2. /\ steps < MaxSteps /\ steps' = steps + 1 /\ Len(requests) < MaxRequests
      /\ address' = [filter |-> filter, page |-> page, per |-> per]
      /\ lastFit' = lastFit /\ minimum' = minimum /\ RouteUpdate(FALSE)
      /\ unfitted' = (unfitted \/ (latch.latched /\ (misled \/ perAsked' # perAsked)))
      /\ UNCHANGED <<feed, viewport, shown, dom, parts, onScreen, null, blocked, crowded, latch,
                     due, owned, chunk, disorder, jumped>>
  BY DEF ChangeAddress, Step, Room, gridVars
<1>3. address' \in Address BY <1>1, <1>2 DEF FeedShapes, Address
<1>4. OneMore /\ wanted' \in Address
  <2>1. requests \in Seq(Request) /\ wanted \in Address /\ lastFit' \in Sizes /\ minimum' \in Sizes
    BY <1>1, <1>2 DEF FeedShapes
  <2>2. FALSE \in BOOLEAN OBVIOUS
  <2> QED BY <2>1, <2>2, <1>2, <1>3, RouteUpdateIs
<1>5. FeedShapes'
  <2>1. steps' \in 0..MaxSteps BY <1>1, <1>2, FeedSizes DEF FeedShapes
  <2>2. requests' \in Seq(Request) /\ Len(requests') <= MaxRequests /\ perAsked' \in Sizes
    BY <1>1, <1>2, <1>4, FeedSizes, LenProperties DEF OneMore, FeedShapes
  <2> QED BY <2>1, <2>2, <1>1, <1>2, <1>3, <1>4 DEF FeedShapes
<1>6. FeedFlags'
  <2>1. (unfitted \/ (latch.latched /\ (misled \/ perAsked' # perAsked))) \in BOOLEAN OBVIOUS
  <2>2. unfitted' \in BOOLEAN BY Zenon, <1>2, <2>1
  <2>3. misled' \in BOOLEAN BY <1>4 DEF OneMore
  <2> QED BY <2>2, <2>3, <1>1, <1>2 DEF FeedFlags
<1>7. LastAsked' BY <1>1, <1>4, MoreIsAsked DEF FeedShapes
<1>8. Drawn' BY <1>1, <1>2, <1>4, MoreIsDrawn DEF FeedShapes, FeedInv
<1>9. FirstPostStays'
  <2>1. jumped' = jumped BY <1>2
  <2>2. ~jumped BY DEF FirstPostStays, FeedInv
  <2> QED BY Zenon, <2>1, <2>2 DEF FirstPostStays
<1>10. FeedTypeOK' BY <1>5, <1>6, FeedTypeComes
<1> QED BY <1>7, <1>8, <1>9, <1>10 DEF FeedInv

(* What Measure and Zoom have in common.                                   *)
LEMMA RefitKeeps ==
    ASSUME FeedInv, Running, Room, NEW why, NEW l \in Latch, viewport' \in Viewports,
           minimum' \in Sizes, unfitted' \in BOOLEAN,
           Reconcile(why, l), due' \subseteq {"frame", "settle", "resize"}, steps' \in 0..MaxSteps,
           UNCHANGED <<feed, shown, dom, parts, onScreen, null, blocked, crowded, chunk, disorder>>
    PROVE  FeedInv'
<1>1. FeedShapes /\ FeedFlags BY FeedTypeIs DEF FeedInv
<1>2. /\ lastFit' \in Sizes /\ latch' \in Latch /\ owned' \in BOOLEAN
      /\ perAsked' \in Sizes /\ address' \in Address /\ wanted' \in Address
      /\ jumped' = FALSE /\ misled' \in BOOLEAN
      /\ OneMore \/ UNCHANGED <<address, requests, perAsked, wanted, misled>>
  BY ReconcileIs
<1>3. requests \in Seq(Request) BY <1>1 DEF FeedShapes
<1>4. requests' \in Seq(Request) /\ Len(requests') <= MaxRequests
  <2>1. CASE OneMore
    BY <2>1, <1>3, FeedSizes, LenProperties DEF OneMore, Room
  <2>2. CASE UNCHANGED <<address, requests, perAsked, wanted, misled>>
    BY <2>2, <1>1 DEF FeedShapes
  <2> QED BY <2>1, <2>2, <1>2
<1>5. FeedShapes' BY <1>1, <1>2, <1>4 DEF FeedShapes
<1>6. FeedFlags'
  <2>1. jumped' \in BOOLEAN BY <1>2
  <2> QED BY <2>1, <1>1, <1>2 DEF FeedFlags
<1>7. LastAsked'
  <2>1. CASE OneMore BY <2>1, <1>3, MoreIsAsked
  <2>2. CASE UNCHANGED <<address, requests, perAsked, wanted, misled>>
    BY <2>2, SameIsAsked DEF FeedInv
  <2> QED BY <2>1, <2>2, <1>2
<1>8. Drawn'
  <2>1. CASE OneMore BY <2>1, <1>3, MoreIsDrawn DEF FeedInv
  <2>2. CASE UNCHANGED <<address, requests, perAsked, wanted, misled>>
    BY <2>2, SameIsDrawn DEF FeedInv
  <2> QED BY <2>1, <2>2, <1>2
<1>9. FirstPostStays' BY <1>2 DEF FirstPostStays
<1>10. FeedTypeOK' BY <1>5, <1>6, FeedTypeComes
<1> QED BY <1>7, <1>8, <1>9, <1>10 DEF FeedInv

LEMMA MeasureKeeps == ASSUME FeedInv, NEW why, Measure(why) PROVE FeedInv'
<1>1. FeedShapes BY FeedTypeIs DEF FeedInv
<1>2. /\ Running /\ Room /\ Reconcile(why, latch) /\ due' = due \ {why} /\ viewport' = viewport
      /\ steps' = steps /\ minimum' = minimum /\ unfitted' = unfitted
      /\ UNCHANGED <<feed, shown, dom, parts, onScreen, null, blocked, crowded, chunk, disorder>>
  BY DEF Measure, gridVars
<1>3. /\ viewport' \in Viewports /\ latch \in Latch /\ due' \subseteq {"frame", "settle", "resize"}
      /\ steps' \in 0..MaxSteps /\ minimum' \in Sizes
  BY <1>1, <1>2 DEF FeedShapes
<1>4. unfitted' \in BOOLEAN
  <2>1. unfitted \in BOOLEAN BY FeedTypeIs DEF FeedInv, FeedFlags
  <2> QED BY Zenon, <1>2, <2>1
<1> QED BY <1>2, <1>3, <1>4, RefitKeeps

LEMMA EmptyLatchIs == EmptyLatch \in Latch BY DEF EmptyLatch, Latch

LEMMA ZoomKeeps == ASSUME FeedInv, NEW v \in Viewports, Zoom(v) PROVE FeedInv'
<1>1. FeedShapes BY FeedTypeIs DEF FeedInv
<1>2. /\ Running /\ Room /\ Reconcile("resize", EmptyLatch) /\ due' = due /\ viewport' = v
      /\ steps < MaxSteps /\ steps' = steps + 1 /\ minimum' = minimum /\ unfitted' = FALSE
      /\ UNCHANGED <<feed, shown, dom, parts, onScreen, null, blocked, crowded, chunk, disorder>>
  BY DEF Zoom, Step, gridVars
<1>3. due' \subseteq {"frame", "settle", "resize"} /\ steps' \in 0..MaxSteps
      /\ minimum' \in Sizes /\ viewport' \in Viewports
  BY <1>1, <1>2, FeedSizes DEF FeedShapes
<1>4. unfitted' \in BOOLEAN
  <2>1. FALSE \in BOOLEAN OBVIOUS
  <2> QED BY Zenon, <1>2, <2>1
<1> QED BY <1>2, <1>3, <1>4, EmptyLatchIs, RefitKeeps

LEMMA ResizeKeeps == ASSUME FeedInv, NEW v \in Viewports, Resize(v) PROVE FeedInv'
<1>1. FeedShapes /\ FeedFlags BY FeedTypeIs DEF FeedInv
<1>2. /\ steps < MaxSteps /\ steps' = steps + 1 /\ viewport' = v /\ latch' = EmptyLatch
      /\ due' = due \cup {"resize"} /\ unfitted' = FALSE
      /\ UNCHANGED <<feed, address, lastFit, minimum, wanted, perAsked, shown, dom, parts, onScreen,
                     null, blocked, crowded, requests, owned, chunk, disorder, jumped, misled>>
  BY DEF Resize, Step, gridVars
<1>3. FeedShapes'
  <2>1. due' \subseteq {"frame", "settle", "resize"} /\ steps' \in 0..MaxSteps
    BY <1>1, <1>2, FeedSizes DEF FeedShapes
  <2> QED BY <2>1, <1>1, <1>2, EmptyLatchIs DEF FeedShapes
<1>4. FeedFlags' BY <1>1, <1>2 DEF FeedFlags
<1>5. LastAsked' BY <1>2, SameIsAsked DEF FeedInv
<1>6. Drawn' BY <1>2, SameIsDrawn DEF FeedInv
<1>7. FirstPostStays'
  <2>1. jumped' = jumped BY <1>2
  <2>2. ~jumped BY DEF FirstPostStays, FeedInv
  <2> QED BY Zenon, <2>1, <2>2 DEF FirstPostStays
<1>8. FeedTypeOK' BY <1>3, <1>4, FeedTypeComes
<1> QED BY <1>5, <1>6, <1>7, <1>8 DEF FeedInv

LEMMA LeaveFeedKeeps == ASSUME FeedInv, LeaveFeed PROVE FeedInv'
<1>1. FeedShapes /\ FeedFlags BY FeedTypeIs DEF FeedInv
<1>2. /\ steps < MaxSteps /\ steps' = steps + 1
      /\ \/ blocked' = TRUE /\ dom' = dom
         \/ blocked' = blocked /\ dom' = "gone"
      /\ UNCHANGED <<feed, address, viewport, lastFit, minimum, wanted, perAsked, shown, parts,
                     onScreen, null, crowded, requests, latch, due, owned, chunk, disorder, jumped,
                     misled, unfitted>>
  BY DEF LeaveFeed, Step
<1>3. FeedShapes'
  <2>1. steps' \in 0..MaxSteps BY <1>1, <1>2, FeedSizes DEF FeedShapes
  <2> QED BY <2>1, <1>1, <1>2 DEF FeedShapes
<1>4. FeedFlags'
  <2>1. blocked' \in BOOLEAN
    <3>1. CASE blocked' = TRUE BY <3>1
    <3>2. CASE blocked' = blocked BY <3>2, <1>1 DEF FeedFlags
    <3> QED BY <3>1, <3>2, <1>2
  <2> QED BY <2>1, <1>1, <1>2 DEF FeedFlags
<1>5. LastAsked'
  <2>1. Flying' = Flying BY <1>2 DEF Flying
  <2>2. \A l : Matches(l)' <=> Matches(l) BY <1>2 DEF Matches
  <2> QED BY <1>2, <2>1, <2>2 DEF FeedInv, LastAsked
<1>6. Drawn'
  <2>1. Mounting' = Mounting BY <1>2 DEF Mounting
  <2>2. \A l : Whole(l)' = Whole(l) BY <1>2 DEF Whole, MultiPage
  <2> QED BY <1>2, <2>1, <2>2 DEF FeedInv, Drawn
<1>7. FirstPostStays'
  <2>1. jumped' = jumped BY <1>2
  <2>2. ~jumped BY DEF FirstPostStays, FeedInv
  <2> QED BY Zenon, <2>1, <2>2 DEF FirstPostStays
<1>8. FeedTypeOK' BY <1>3, <1>4, FeedTypeComes
<1> QED BY <1>5, <1>6, <1>7, <1>8 DEF FeedInv

(***************************************************************************)
(* Answers.                                                                *)
(***************************************************************************)
Taken(r) == requests' = r \/ \E m \in MountRequest : requests' = Append(r, m)

LEMMA TakenIs ==
    ASSUME requests \in Seq(Request), NEW c \in DOMAIN requests, NEW r, LeftAfter(c, r), Taken(r)
    PROVE  /\ requests' \in Seq(Request) /\ Len(requests') <= Len(requests)
           /\ \A d \in 1..(Len(requests) - 1) : d \in DOMAIN requests' /\ requests'[d] = r[d]
           /\ \A d \in DOMAIN requests' :
                d \in 1..(Len(requests) - 1) \/ (d = Len(requests) /\ requests'[d].at = "mount")
<1>1. Len(requests) \in Nat /\ Len(requests) >= 1 BY LenProperties
<1>2. r \in Seq(Request) /\ Len(r) = Len(requests) - 1 /\ DOMAIN r = 1..(Len(requests) - 1)
  BY LenProperties DEF LeftAfter
<1>3. CASE requests' = r
  BY <1>1, <1>2, <1>3
<1>4. CASE \E m \in MountRequest : requests' = Append(r, m)
  <2>1. PICK m \in MountRequest : requests' = Append(r, m) BY <1>4
  <2>2. m \in Request /\ m.at = "mount" BY DEF Request, MountRequest
  <2>3. /\ requests' \in Seq(Request) /\ Len(requests') = Len(requests)
        /\ DOMAIN requests' = 1..Len(requests)
        /\ requests'[Len(requests)] = m
        /\ \A d \in 1..(Len(requests) - 1) : requests'[d] = r[d]
    BY <2>1, <2>2, <1>1, <1>2
  <2> QED BY <2>2, <2>3, <1>1
<1> QED BY <1>3, <1>4 DEF Taken

(* Where a request that is left came from.                                 *)
LEMMA OldIs ==
    ASSUME NEW n \in Nat, NEW c \in 1..n, NEW d \in 1..(n - 1)
    PROVE  /\ Old(c, d) \in 1..n /\ Old(c, d) # c
           /\ d < c => Old(c, d) = d
           /\ c <= d => Old(c, d) = d + 1
  BY DEF Old

LEMMA OldIsOnto ==
    ASSUME NEW n \in Nat, NEW c \in 1..n, NEW e \in 1..n, e # c
    PROVE  \E d \in 1..(n - 1) : Old(c, d) = e
<1>1. CASE e < c
  <2>1. e \in 1..(n - 1) /\ Old(c, e) = e BY <1>1 DEF Old
  <2> QED BY <2>1
<1>2. CASE ~(e < c)
  <2>1. e - 1 \in 1..(n - 1) /\ Old(c, e - 1) = e BY <1>2 DEF Old
  <2> QED BY <2>1
<1> QED BY <1>1, <1>2

LEMMA AnsweredIsAsked ==
    ASSUME requests \in Seq(Request), LastAsked, NEW c \in Flying, NEW r, LeftAfter(c, r), Overtaken(c, r), Taken(r),
           UNCHANGED <<feed, address>>, Recounted,
           disorder \/ (~Dropped(requests[c]) /\ requests[c].passed) => disorder',
           IF Dropped(requests[c]) THEN UNCHANGED <<shown, dom, null>>
           ELSE shown' = requests[c].list \/ dom' = "error" \/ null'
    PROVE  LastAsked'
<1>1. PICK n \in Nat : n = Len(requests) BY LenProperties
<1>2. DOMAIN requests = 1..n /\ c \in 1..n /\ requests[c].at = "fetch"
  BY <1>1, LenProperties DEF Flying
<1>3. ASSUME NEW d \in Flying'
      PROVE  /\ d \in 1..(n - 1) /\ requests'[d] = r[d] /\ r[d].at = "fetch"
             /\ Old(c, d) \in Flying
             /\ Follows(requests[Old(c, d)], r[d])
  <2>1. d \in DOMAIN requests' /\ requests'[d].at = "fetch" BY DEF Flying
  <2>2. d \in 1..(n - 1) BY <2>1, <1>1, <1>2, TakenIs
  <2>3. requests'[d] = r[d] BY <2>2, <1>1, <1>2, TakenIs
  <2>4. Follows(requests[Old(c, d)], r[d]) BY <2>2, <1>1 DEF LeftAfter
  <2>5. Old(c, d) \in 1..n BY <2>2, <1>2, OldIs
  <2>6. requests[Old(c, d)].at = "fetch" BY <2>1, <2>3, <2>4 DEF Follows
  <2> QED BY <2>1, <2>2, <2>3, <2>4, <2>5, <2>6, <1>2 DEF Flying
<1>4. \A l : Matches(l) => (l.filter = address'.filter /\ l.page = address'.page
                              /\ (misled' \/ l.per = perAsked')
                              /\ (address'.per # 0 => l.per = address'.per))
  BY DEF Matches, Recounted
<1>5. (address.per # 0 => perAsked = address.per)' BY DEF LastAsked, Recounted
<1>6. SUFFICES ASSUME ~disorder'
               PROVE  \/ \E k \in Flying' :
                            /\ ~requests'[k].late /\ ~requests'[k].passed
                            /\ Matches(requests'[k].list)
                            /\ \A d \in Flying' : d <= k
                      \/ /\ \A d \in Flying' :
                              requests'[d].passed \/ (feed = "tag" /\ requests'[d].late)
                         /\ dom' \in {"loading", "grid"} /\ ~null' => Matches(shown')
  <2>2. CASE disorder' BY <2>2, <1>5 DEF LastAsked
  <2>3. CASE ~disorder'
    <3>1. CASE \E k \in Flying' :
                            /\ ~requests'[k].late /\ ~requests'[k].passed
                            /\ Matches(requests'[k].list)
                            /\ \A d \in Flying' : d <= k
      <4>1. (\E k \in Flying :
                            /\ ~requests[k].late /\ ~requests[k].passed
                            /\ Matches(requests[k].list)
                            /\ \A d \in Flying : d <= k)'
        <5>1. PICK k \in Flying' :
                            /\ ~requests'[k].late /\ ~requests'[k].passed
                            /\ Matches(requests'[k].list)
                            /\ \A d \in Flying' : d <= k
          BY <3>1
        <5>2. Matches(requests[k].list)' BY <5>1, <1>4 DEF Matches
        <5> QED BY <5>1, <5>2
      <4> QED BY <4>1, <1>5 DEF LastAsked
    <3>2. CASE /\ \A d \in Flying' :
                              requests'[d].passed \/ (feed = "tag" /\ requests'[d].late)
               /\ dom' \in {"loading", "grid"} /\ ~null' => Matches(shown')
      <4>1. Matches(shown') => Matches(shown)' BY <1>4 DEF Matches
      <4> QED BY <4>1, <3>2, <1>5 DEF LastAsked
    <3> QED BY <3>1, <3>2, <2>3, <1>6
  <2> QED BY <2>2, <2>3
<1>7. ~disorder /\ (Dropped(requests[c]) \/ ~requests[c].passed) BY <1>6
<1>8. CASE \E k \in Flying : /\ ~requests[k].late /\ ~requests[k].passed
                             /\ Matches(requests[k].list)
                             /\ \A d \in Flying : d <= k
  <2>1. PICK k \in Flying : /\ ~requests[k].late /\ ~requests[k].passed
                            /\ Matches(requests[k].list)
                            /\ \A d \in Flying : d <= k
    BY <1>8
  <2>2. k \in 1..n /\ requests[k].at = "fetch" /\ c <= k BY <2>1, <1>2 DEF Flying
  <2>3. CASE c = k
    <3>1. ~Dropped(requests[c]) BY <2>1, <2>3 DEF Dropped
    <3>2. ASSUME NEW d \in Flying'
          PROVE  requests'[d].passed \/ (feed = "tag" /\ requests'[d].late)
      <4>1. d \in 1..(n - 1) /\ requests'[d] = r[d] /\ Old(c, d) \in Flying
            /\ Follows(requests[Old(c, d)], r[d])
        BY <1>3
      <4>2. Old(c, d) <= c BY <4>1, <2>1, <2>3
      <4>3. d < c /\ Old(c, d) = d BY <4>1, <4>2, <1>2 DEF Old
      <4>4. requests[d].at = "fetch" /\ Follows(requests[d], r[d]) BY <4>1, <4>3 DEF Flying
      <4>5. r[d].passed \/ (feed = "tag" /\ requests[d].late)
        BY <4>1, <4>3, <4>4, <1>2 DEF Overtaken
      <4> QED BY <4>1, <4>4, <4>5 DEF Follows
    <3>3. dom' \in {"loading", "grid"} /\ ~null' => Matches(shown')
      BY <3>1, <2>1, <2>3
    <3> QED BY <3>2, <3>3
  <2>4. CASE c # k
    <3>1. c <= k - 1 /\ k - 1 \in 1..(n - 1) /\ Old(c, k - 1) = k BY <2>2, <2>4, <1>2 DEF Old
    <3>2. Follows(requests[k], r[k - 1]) /\ (r[k - 1].at = "fetch" /\ r[k - 1].passed => requests[k].passed)
      <4>1. PICK d \in 1..(n - 1) : d = k - 1 BY <3>1
      <4>2. /\ Follows(requests[Old(c, d)], r[d])
            /\ c <= d /\ r[d].at = "fetch" /\ r[d].passed => requests[d + 1].passed
        BY <1>1 DEF LeftAfter
      <4>3. d + 1 = k BY <4>1, <2>2
      <4> QED BY <4>1, <4>2, <4>3, <3>1
    <3>3. r[k - 1].at = "fetch" /\ ~r[k - 1].late /\ ~r[k - 1].passed /\ Matches(r[k - 1].list)
      BY <3>2, <2>1, <2>2 DEF Follows
    <3>4. k - 1 \in DOMAIN requests' /\ requests'[k - 1] = r[k - 1]
      BY <3>1, <1>1, <1>2, TakenIs
    <3>5. k - 1 \in Flying' BY <3>3, <3>4 DEF Flying
    <3>6. ASSUME NEW d \in Flying' PROVE d <= k - 1
      <4>1. d \in 1..(n - 1) /\ Old(c, d) \in Flying BY <1>3
      <4>2. Old(c, d) <= k BY <4>1, <2>1
      <4>3. CASE d < c BY <4>3, <4>1, <3>1, <2>2, <1>2
      <4>4. CASE ~(d < c) BY <4>4, <4>2, <4>1, <2>2 DEF Old
      <4> QED BY <4>3, <4>4
    <3> QED BY <3>3, <3>4, <3>5, <3>6
  <2> QED BY <2>3, <2>4
<1>9. CASE /\ \A d \in Flying : requests[d].passed \/ (feed = "tag" /\ requests[d].late)
           /\ dom \in {"loading", "grid"} /\ ~null => Matches(shown)
  <2>1. Dropped(requests[c]) BY <1>7, <1>9 DEF Dropped
  <2>2. UNCHANGED <<shown, dom, null>> BY <2>1
  <2>3. ASSUME NEW d \in Flying'
        PROVE  requests'[d].passed \/ (feed = "tag" /\ requests'[d].late)
    <3>1. requests'[d] = r[d] /\ Old(c, d) \in Flying /\ Follows(requests[Old(c, d)], r[d])
      BY <1>3
    <3>2. requests[Old(c, d)].at = "fetch" BY <3>1 DEF Flying
    <3>3. requests[Old(c, d)].passed \/ (feed = "tag" /\ requests[Old(c, d)].late) BY <3>1, <1>9
    <3> QED BY <3>1, <3>2, <3>3 DEF Follows
  <2> QED BY <2>2, <2>3, <1>9
<1> QED BY <1>7, <1>8, <1>9 DEF LastAsked

(***************************************************************************)
(* Drawing.                                                                *)
(***************************************************************************)
Piece == {"grid", "null", "paginator"}

(* The paginator comes and goes with the pages of the list.                *)
LEMMA SyncedIs ==
    ASSUME NEW p \in Seq(Piece), p # <<>>, NEW l
    PROVE  /\ Synced(p, l) \in Seq(Piece)
           /\ p \in {<<"grid">>, <<"grid", "paginator">>} => Synced(p, l) = Whole(l)
<1> DEFINE existing == Len(p) >= 2 /\ p[2] # "null"
<1>1. p[1] \in Piece BY EmptySeq, ElementOfSeq
<1>2. <<p[1], "paginator">> \in Seq(Piece) /\ <<p[1]>> \in Seq(Piece) BY <1>1 DEF Piece
<1>3. CASE MultiPage(l) /\ existing
  <2>1. Synced(p, l) = p BY <1>3 DEF Synced
  <2>2. p # <<"grid">> BY <1>3
  <2>3. Whole(l) = <<"grid", "paginator">> BY <1>3 DEF Whole
  <2> QED BY <2>1, <2>2, <2>3
<1>4. CASE MultiPage(l) /\ ~existing
  <2>1. Synced(p, l) = <<p[1], "paginator">> BY <1>4 DEF Synced
  <2>2. p # <<"grid", "paginator">> BY <1>4
  <2>3. Whole(l) = <<"grid", "paginator">> BY <1>4 DEF Whole
  <2>4. p = <<"grid">> => p[1] = "grid" OBVIOUS
  <2> QED BY <2>1, <2>2, <2>3, <2>4, <1>2
<1>5. CASE ~MultiPage(l) /\ existing
  <2>1. Synced(p, l) = <<p[1]>> BY <1>5 DEF Synced
  <2>2. Whole(l) = <<"grid">> BY <1>5 DEF Whole
  <2>3. p \in {<<"grid">>, <<"grid", "paginator">>} => p[1] = "grid" OBVIOUS
  <2> QED BY <2>1, <2>2, <2>3, <1>2
<1>6. CASE ~MultiPage(l) /\ ~existing
  <2>1. Synced(p, l) = p BY <1>6 DEF Synced
  <2>2. p # <<"grid", "paginator">> BY <1>6
  <2>3. Whole(l) = <<"grid">> BY <1>6 DEF Whole
  <2> QED BY <2>1, <2>2, <2>3
<1> QED BY <1>3, <1>4, <1>5, <1>6

LEMMA GridIs ==
    ASSUME NEW l \in List, NEW p \in Seq(Piece), NEW visible, NEW under \in List \cup {Nothing},
           Grid(l, p, visible, under), due \subseteq {"frame", "settle", "resize"}
    PROVE  /\ parts' \in Seq(Piece) /\ onScreen' \in List \cup {Nothing}
           /\ due' \subseteq {"frame", "settle", "resize"}
           /\ null' \in BOOLEAN
           /\ null => null'
           /\ chunk' = "broken" \/ dom' # "grid" => null' /\ onScreen' = under
           /\ chunk' # "broken" /\ dom' = "grid" /\ visible /\ p = <<>> =>
                /\ null' => null
                /\ onScreen' = l /\ parts' = Whole(l)
<1> DEFINE what == IF chunk' = "broken" \/ dom' # "grid" THEN "null" ELSE "grid"
           all == Append(p, what)
<1>1. /\ parts' = Synced(all, l)
      /\ null' = (null \/ what = "null")
      /\ onScreen' = IF what = "null" \/ ~visible THEN under
                     ELSE IF Len(all) >= 2 /\ all[2] = "grid" /\ ~MultiPage(l) THEN Nothing
                     ELSE l
      /\ due' = due \cup {"frame", "settle"}
  BY DEF Grid
<1>2. what \in Piece BY DEF Piece
<1>3. chunk' = "broken" \/ dom' # "grid" => what = "null" OBVIOUS
<1>4. chunk' # "broken" /\ dom' = "grid" => what = "grid" OBVIOUS
<1> HIDE DEF what
<1>5. all \in Seq(Piece) /\ all # <<>> /\ Len(all) = Len(p) + 1 BY <1>2, AppendProperties
<1>6. parts' \in Seq(Piece) BY <1>1, <1>5, SyncedIs
<1>7. (null \/ what = "null") \in BOOLEAN OBVIOUS
<1>8. null' \in BOOLEAN BY Zenon, <1>1, <1>7
<1>9. onScreen' \in List \cup {Nothing} BY <1>1
<1>10. null => null' BY <1>1
<1>11. ASSUME chunk' = "broken" \/ dom' # "grid" PROVE null' /\ onScreen' = under
  BY <1>1, <1>3, <1>11
<1>12. ASSUME chunk' # "broken" /\ dom' = "grid" /\ visible /\ p = <<>>
       PROVE  (null' => null) /\ onScreen' = l /\ parts' = Whole(l)
  <2>1. what = "grid" BY <1>4, <1>12
  <2>2. all = <<"grid">> BY <2>1, <1>12
  <2>3. Len(all) = 1 BY <2>2
  <2>4. parts' = Whole(l) BY <2>2, <1>1, <1>5, SyncedIs
  <2>5. onScreen' = l BY <1>1, <1>12, <2>1, <2>3
  <2>6. null' => null BY <1>1, <2>1
  <2> QED BY <2>4, <2>5, <2>6
<1>13. due' \subseteq {"frame", "settle", "resize"} BY <1>1
<1> QED BY <1>6, <1>8, <1>9, <1>10, <1>11, <1>12, <1>13

(* What a new grid leaves: its own, or its wait for the chunk.             *)
LEMMA MountGridIs ==
    ASSUME FeedShapes, FeedFlags, address.per # 0 => perAsked = address.per,
           address' = address, lastFit' = lastFit, minimum' \in Sizes, NEW l \in List, NEW r, MountGrid(l, r)
    PROVE  /\ Taken(r)
           /\ parts' \in Seq(Piece) /\ onScreen' \in List \cup {Nothing}
           /\ due' \subseteq {"frame", "settle", "resize"}
           /\ null' \in BOOLEAN /\ crowded' \in BOOLEAN
           /\ Recounted
<1>1. /\ due \subseteq {"frame", "settle", "resize"} /\ null \in BOOLEAN /\ crowded \in BOOLEAN
  BY DEF FeedShapes, FeedFlags
<1>2. <<>> \in Seq(Piece) OBVIOUS
<1>3. Nothing \in List \cup {Nothing} OBVIOUS
<1>4. CASE /\ chunk = "absent"
           /\ requests' = Append(r, [at |-> "mount", list |-> l, lost |-> FALSE])
           /\ parts' = <<>>
           /\ onScreen' = Nothing
           /\ crowded' = (crowded \/ Mounting # {})
           /\ UNCHANGED <<due, null, perAsked, misled>>
  <2>1. [at |-> "mount", list |-> l, lost |-> FALSE] \in MountRequest BY DEF MountRequest
  <2>2. (crowded \/ Mounting # {}) \in BOOLEAN OBVIOUS
  <2>3. crowded' \in BOOLEAN BY Zenon, <1>4, <2>2
  <2>4. Taken(r) BY <2>1, <1>4 DEF Taken
  <2>5. null' \in BOOLEAN BY Zenon, <1>1, <1>4
  <2>6. Recounted
    <3>1. perAsked \in Sizes /\ misled \in BOOLEAN BY DEF FeedShapes, FeedFlags
    <3>2. UNCHANGED <<perAsked, misled>> BY <1>4
    <3> QED BY <3>1, <3>2, UnchangedCountIs
  <2> QED BY <2>3, <2>4, <2>5, <2>6, <1>1, <1>2, <1>3, <1>4
<1>5. CASE /\ chunk # "absent"
           /\ requests' = r
           /\ Grid(l, <<>>, TRUE, Nothing)
           /\ UNCHANGED crowded
  <2>1. Taken(r) BY <1>5 DEF Taken
  <2>2. /\ parts' \in Seq(Piece) /\ onScreen' \in List \cup {Nothing}
        /\ due' \subseteq {"frame", "settle", "resize"}
        /\ null' \in BOOLEAN
    BY <1>1, <1>2, <1>3, <1>5, GridIs
  <2>3. crowded' \in BOOLEAN BY Zenon, <1>1, <1>5
  <2>4. Recounted
    <3>1. misled \in BOOLEAN /\ Preload(l) BY <1>5 DEF FeedFlags, Grid
    <3> QED BY <3>1, PreloadIs
  <2> QED BY <2>1, <2>2, <2>3, <2>4
<1> QED BY <1>4, <1>5 DEF MountGrid

(* No grid was awaited: none is among what is left.                        *)
LEMMA NoMountLeft ==
    ASSUME requests \in Seq(Request), NEW c \in DOMAIN requests, NEW r, LeftAfter(c, r),
           \A e \in Mounting : e = c
    PROVE  \A d \in 1..(Len(requests) - 1) : r[d].at # "mount"
<1>1. TAKE d \in 1..(Len(requests) - 1)
<1>2. PICK n \in Nat : n = Len(requests) BY LenProperties
<1>3. c \in 1..n /\ DOMAIN requests = 1..n BY <1>2, LenProperties
<1>4. Old(c, d) \in 1..n /\ Old(c, d) # c BY <1>2, <1>3, OldIs
<1>5. requests[Old(c, d)].at # "mount" BY <1>3, <1>4 DEF Mounting
<1> QED BY <1>5 DEF LeftAfter, Follows

LEMMA MountIsDrawn ==
    ASSUME requests \in Seq(Request), due \subseteq {"frame", "settle", "resize"}, Drawn,
           NEW c \in Flying, NEW r, LeftAfter(c, r), NEW l \in List, MountGrid(l, r),
           shown' = l, chunk' = chunk, feed' = feed, ~null, dom' # "loading"
    PROVE  Drawn'
<1>1. PICK n \in Nat : n = Len(requests) BY LenProperties
<1>2. c \in DOMAIN requests /\ c \in 1..n /\ DOMAIN requests = 1..n /\ c \notin Mounting
  BY <1>1, LenProperties DEF Flying, Mounting
<1>3. Whole(l)' = Whole(l) BY DEF Whole, MultiPage
<1>4. <<>> \in Seq(Piece) /\ Nothing \in List \cup {Nothing} OBVIOUS
<1>5. r \in Seq(Request) /\ Len(r) = n - 1 /\ DOMAIN r = 1..(n - 1)
  BY <1>1, LenProperties DEF LeftAfter
<1>6. Mounting = {} => \A d \in 1..(n - 1) : r[d].at # "mount" BY <1>1, <1>2, NoMountLeft
<1>7. CASE /\ chunk = "absent"
           /\ requests' = Append(r, [at |-> "mount", list |-> l, lost |-> FALSE])
           /\ parts' = <<>>
           /\ onScreen' = Nothing
           /\ crowded' = (crowded \/ Mounting # {})
           /\ UNCHANGED <<due, null, perAsked, misled>>
  <2>1. SUFFICES ASSUME ~crowded'
                 PROVE  /\ \A k, d \in Mounting' : k = d
                        /\ Mounting' # {}
                        /\ \A k \in Mounting' : requests'[k].list = l /\ ~requests'[k].lost
    BY <2>1, <1>7 DEF Drawn
  <2>2. Mounting = {} BY <2>1, <1>7
  <2> DEFINE m == [at |-> "mount", list |-> l, lost |-> FALSE]
  <2>3. m \in Request BY DEF Request, MountRequest
  <2>4. m.at = "mount" /\ m.list = l /\ ~m.lost OBVIOUS
  <2> HIDE DEF m
  <2>5. requests' = Append(r, m) BY <1>7 DEF m
  <2>6. /\ DOMAIN requests' = 1..n /\ requests'[n] = m
        /\ \A d \in 1..(n - 1) : requests'[d] = r[d]
    BY <2>3, <2>5, <1>5, <1>2
  <2>7. \A d \in 1..n : d \in 1..(n - 1) \/ d = n OBVIOUS
  <2>8. Mounting' = {n} BY <2>2, <2>4, <2>6, <2>7, <1>6, <1>2 DEF Mounting
  <2> QED BY <2>4, <2>6, <2>8
<1>8. CASE /\ chunk # "absent"
           /\ requests' = r
           /\ Grid(l, <<>>, TRUE, Nothing)
           /\ UNCHANGED crowded
  <2>1. /\ chunk' = "broken" \/ dom' # "grid" => null' /\ onScreen' = Nothing
        /\ chunk' # "broken" /\ dom' = "grid" =>
             (null' => null) /\ onScreen' = l /\ parts' = Whole(l)
    BY <1>4, <1>8, GridIs
  <2>2. ASSUME ~crowded' PROVE Mounting' = {}
    <3>1. ~crowded BY <2>2, <1>8
    <3>2. Mounting = {} BY <3>1, <1>8 DEF Drawn
    <3> QED BY <3>2, <1>6, <1>5, <1>8 DEF Mounting
  <2>3. dom' = "error" => onScreen' = Nothing BY <2>1
  <2>4. null' => onScreen' = Nothing
    <3>1. CASE chunk' = "broken" \/ dom' # "grid" BY <3>1, <2>1
    <3>2. CASE ~(chunk' = "broken" \/ dom' # "grid") BY <3>2, <2>1
    <3> QED BY <3>1, <3>2
  <2>5. dom' = "grid" /\ ~null' => onScreen' = l /\ parts' = Whole(l)
    <3>1. CASE chunk' = "broken" BY <3>1, <2>1
    <3>2. CASE chunk' # "broken" BY <3>2, <2>1
    <3> QED BY <3>1, <3>2
  <2>6. l \in List OBVIOUS
  <2>7. /\ dom' \in {"loading", "error"} => onScreen' = Nothing
        /\ dom' = "loading" => FALSE
    BY <2>3
  <2>8. ASSUME ~crowded'
        PROVE  /\ \A k, d \in Mounting' : k = d
               /\ Mounting' # {} => chunk' = "absent" /\ parts' = <<>> /\ onScreen' = Nothing
               /\ null' => onScreen' = Nothing /\ Mounting' = {}
               /\ dom' = "grid" /\ ~null' =>
                    onScreen' = shown' /\ shown' \in List /\ parts' = Whole(shown)'
    <3>1. Mounting' = {} BY <2>2, <2>8
    <3>2. Whole(shown)' = Whole(l) BY DEF Whole, MultiPage
    <3> QED BY <3>1, <3>2, <2>4, <2>5, <2>6
  <2> QED BY <2>2, <2>7, <2>8 DEF Drawn
<1> QED BY <1>7, <1>8 DEF MountGrid

(* What is left although the page is stuck.                                *)
LEMMA StuckIsDrawn ==
    ASSUME requests \in Seq(Request), Drawn, NEW c \in Flying, NEW r, LeftAfter(c, r), requests' = r,
           null, chunk' = chunk, UNCHANGED <<dom, parts, onScreen, null, crowded>>
    PROVE  Drawn'
<1>1. dom # "loading" BY DEF Drawn
<1>2. ASSUME ~crowded PROVE Mounting' = {}
  <2>1. Mounting = {} BY <1>2 DEF Drawn
  <2>2. c \in DOMAIN requests BY DEF Flying
  <2>3. \A d \in 1..(Len(requests) - 1) : r[d].at # "mount" BY <2>1, <2>2, NoMountLeft
  <2>4. DOMAIN r = 1..(Len(requests) - 1) BY LenProperties DEF LeftAfter
  <2> QED BY <2>3, <2>4 DEF Mounting
<1> QED BY <1>1, <1>2 DEF Drawn

(***************************************************************************)
(* The steps that answer.                                                  *)
(***************************************************************************)
LEMMA StaysFirst == ASSUME FirstPostStays, jumped' = jumped PROVE FirstPostStays'
  BY Zenon DEF FirstPostStays

LEMMA AnswerKeeps ==
    ASSUME FeedInv, NEW c \in DOMAIN requests, NEW r, LeftAfter(c, r), Taken(r),
           LastAsked', Drawn',
           dom' \in {"loading", "error", "grid", "gone"}, parts' \in Seq(Piece),
           shown' \in List \cup {Nothing}, onScreen' \in List \cup {Nothing}, wanted' \in Address,
           due' \subseteq {"frame", "settle", "resize"}, chunk' \in {"there", "absent", "broken"},
           steps' \in 0..MaxSteps,
           null' \in BOOLEAN, blocked' \in BOOLEAN, crowded' \in BOOLEAN, disorder' \in BOOLEAN,
           Recounted, minimum' \in Sizes, unfitted' \in BOOLEAN,
           UNCHANGED <<feed, address, viewport, lastFit, latch, owned, jumped>>
    PROVE  FeedInv'
<1>1. FeedShapes /\ FeedFlags BY FeedTypeIs DEF FeedInv
<1>2. requests' \in Seq(Request) /\ Len(requests') <= MaxRequests
  <2>1. requests \in Seq(Request) /\ Len(requests) <= MaxRequests BY <1>1 DEF FeedShapes
  <2>2. requests' \in Seq(Request) /\ Len(requests') <= Len(requests) BY <2>1, TakenIs
  <2> QED BY <2>1, <2>2, FeedSizes, LenProperties
<1>3. FeedShapes' BY <1>1, <1>2 DEF FeedShapes, Piece, Recounted
<1>4. FeedFlags'
  <2>1. jumped' \in BOOLEAN /\ owned' \in BOOLEAN BY <1>1 DEF FeedFlags
  <2>2. misled' \in BOOLEAN BY DEF Recounted
  <2> QED BY <2>1, <2>2 DEF FeedFlags
<1>5. FirstPostStays'
  <2>1. jumped' = jumped /\ FirstPostStays BY DEF FeedInv
  <2> QED BY <2>1, StaysFirst
<1>6. FeedTypeOK' BY <1>3, <1>4, FeedTypeComes
<1> QED BY <1>5, <1>6 DEF FeedInv

(* What is left when nothing is drawn.                                     *)
LEMMA LeftIsDrawn ==
    ASSUME requests \in Seq(Request), Drawn, NEW c \in Flying, NEW r, LeftAfter(c, r), requests' = r,
           \A d \in 1..(Len(requests) - 1) :
                requests[Old(c, d)].at = "mount" => r[d] = requests[Old(c, d)],
           UNCHANGED <<feed, dom, parts, onScreen, null, crowded, shown, chunk>>
    PROVE  Drawn'
<1>1. PICK n \in Nat : n = Len(requests) BY LenProperties
<1>2. /\ c \in DOMAIN requests /\ c \in 1..n /\ DOMAIN requests = 1..n /\ requests[c].at = "fetch"
      /\ DOMAIN requests' = 1..(n - 1)
  BY <1>1, LenProperties DEF Flying, LeftAfter
<1>3. ASSUME NEW d \in 1..(n - 1)
      PROVE  Old(c, d) \in 1..n /\ Follows(requests[Old(c, d)], requests'[d])
  BY <1>1, <1>2, OldIs DEF LeftAfter
<1>4. ASSUME NEW d \in Mounting'
      PROVE  d \in 1..(n - 1) /\ Old(c, d) \in Mounting /\ requests'[d] = requests[Old(c, d)]
  <2>1. d \in 1..(n - 1) /\ requests'[d].at = "mount" BY <1>2 DEF Mounting
  <2>2. requests[Old(c, d)].at = "mount" BY <2>1, <1>3 DEF Follows
  <2>3. Old(c, d) \in Mounting BY <2>1, <2>2, <1>2, <1>3 DEF Mounting
  <2> QED BY <2>1, <2>2, <2>3, <1>1
<1>5. ASSUME Mounting' = {} PROVE Mounting = {}
  <2>1. SUFFICES ASSUME NEW e \in Mounting PROVE FALSE OBVIOUS
  <2>2. e \in 1..n /\ e # c /\ requests[e].at = "mount" BY <2>1, <1>2 DEF Mounting
  <2>3. PICK d \in 1..(n - 1) : Old(c, d) = e BY <2>2, <1>2, OldIsOnto
  <2>4. requests'[d].at = "mount" BY <2>2, <2>3, <1>3 DEF Follows
  <2>5. d \in Mounting' BY <2>4, <1>2 DEF Mounting
  <2> QED BY <2>5, <1>5
<1>6. ASSUME \A k, d \in Mounting : k = d PROVE \A k, d \in Mounting' : k = d
  <2>1. TAKE k, d \in Mounting'
  <2>2. Old(c, k) = Old(c, d) /\ k \in 1..(n - 1) /\ d \in 1..(n - 1) BY <1>4, <1>6
  <2> QED BY <2>2, <1>2 DEF Old
<1>7. ASSUME \A d \in DOMAIN requests : requests[d].at = "fetch" /\ requests[d].kind = "load"
      PROVE  \A d \in DOMAIN requests' : requests'[d].at = "fetch" /\ requests'[d].kind = "load"
  <2>1. TAKE d \in DOMAIN requests'
  <2> QED BY <1>2, <1>3, <1>7 DEF Follows
<1>8. Whole(shown)' = Whole(shown) BY DEF Whole, MultiPage
<1>9. Mounting # {} => Mounting' # {} BY <1>5
<1>10. Mounting' # {} => Mounting # {} BY <1>4
<1>11. ASSUME \A d \in Mounting : requests[d].list = shown /\ ~requests[d].lost
       PROVE  \A d \in Mounting' : requests'[d].list = shown /\ ~requests'[d].lost
  BY <1>4, <1>11
<1>12. dom = "loading" =>
         \A d \in DOMAIN requests' : requests'[d].at = "fetch" /\ requests'[d].kind = "load"
  BY <1>7 DEF Drawn
<1>13. ASSUME ~crowded
       PROVE  /\ \A k, d \in Mounting' : k = d
              /\ Mounting' # {} => chunk = "absent" /\ parts = <<>> /\ onScreen = Nothing
              /\ null => onScreen = Nothing /\ Mounting' = {}
              /\ dom = "grid" /\ ~null =>
                   IF Mounting' = {} THEN onScreen = shown /\ shown \in List /\ parts = Whole(shown)
                   ELSE \A d \in Mounting' : requests'[d].list = shown /\ ~requests'[d].lost
  <2>1. /\ \A k, d \in Mounting : k = d
        /\ Mounting # {} => chunk = "absent" /\ parts = <<>> /\ onScreen = Nothing
        /\ null => onScreen = Nothing /\ Mounting = {}
        /\ dom = "grid" /\ ~null =>
             IF Mounting = {} THEN onScreen = shown /\ shown \in List /\ parts = Whole(shown)
             ELSE \A d \in Mounting : requests[d].list = shown /\ ~requests[d].lost
    BY <1>13 DEF Drawn
  <2>2. CASE Mounting = {}
    BY <2>1, <2>2, <1>10
  <2>3. CASE Mounting # {}
    BY <2>1, <2>3, <1>6, <1>9, <1>11
  <2> QED BY <2>2, <2>3
<1> QED BY <1>8, <1>12, <1>13 DEF Drawn

LEMMA IgnoreKeeps == ASSUME FeedInv, NEW c \in DOMAIN requests, Ignore(c) PROVE FeedInv'
<1> DEFINE r == Remaining(c)
<1>1. FeedShapes /\ FeedFlags BY FeedTypeIs DEF FeedInv
<1>2. /\ c \in Flying /\ Dropped(requests[c]) /\ requests' = r
      /\ UNCHANGED <<feed, address, viewport, lastFit, minimum, wanted, perAsked, shown, dom, parts,
                     onScreen, null, blocked, crowded, latch, due, owned, chunk, steps, disorder,
                     jumped, misled, unfitted>>
  BY DEF Ignore, gridVars
<1>3. requests \in Seq(Request) BY <1>1 DEF FeedShapes
<1>4. /\ LeftAfter(c, r) /\ Overtaken(c, r)
      /\ \A d \in 1..(Len(requests) - 1) :
                requests[Old(c, d)].at = "mount" => r[d] = requests[Old(c, d)]
  BY <1>2, <1>3, RemainingIs
<1> HIDE DEF r
<1>5. Taken(r) BY <1>2 DEF Taken
<1>8. Recounted
  <2>1. perAsked \in Sizes /\ misled \in BOOLEAN BY <1>1 DEF FeedShapes, FeedFlags
  <2>2. UNCHANGED <<perAsked, misled>> BY <1>2
  <2> QED BY <2>1, <2>2, UnchangedCountIs
<1>6. LastAsked'
  <2>1. disorder \/ (~Dropped(requests[c]) /\ requests[c].passed) => disorder' BY <1>2
  <2>2. UNCHANGED <<feed, address>> /\ UNCHANGED <<shown, dom, null>> BY <1>2
  <2> QED BY <1>2, <1>3, <1>4, <1>5, <1>8, <2>1, <2>2, AnsweredIsAsked DEF FeedInv
<1>7. Drawn' BY <1>2, <1>3, <1>4, LeftIsDrawn DEF FeedInv
<1> QED BY <1>1, <1>2, <1>4, <1>5, <1>6, <1>7, <1>8, AnswerKeeps DEF FeedShapes, FeedFlags, Piece

(* What an answer that is applied has in common with any other.            *)
LEMMA AppliedIs ==
    ASSUME FeedInv, NEW c, Applied(c)
    PROVE  /\ c \in Flying /\ ~Dropped(requests[c]) /\ dom # "gone"
           /\ disorder' \in BOOLEAN
           /\ disorder \/ (~Dropped(requests[c]) /\ requests[c].passed) => disorder'
           /\ requests[c].list \in List /\ requests[c].vc \in Address
           /\ LeftAfter(c, Remaining(c)) /\ Overtaken(c, Remaining(c))
<1>1. requests \in Seq(Request) BY FeedTypeIs DEF FeedInv, FeedShapes
<1>2. c \in Flying /\ ~Dropped(requests[c]) /\ dom # "gone"
      /\ disorder' = (disorder \/ requests[c].passed)
  BY DEF Applied, Running
<1>3. requests[c] \in FetchRequest
  <2>1. requests[c] \in Request /\ requests[c].at = "fetch"
    BY <1>1, <1>2, LenProperties, ElementOfSeq DEF Flying
  <2> QED BY <2>1 DEF Request, MountRequest
<1>4. (disorder \/ requests[c].passed) \in BOOLEAN OBVIOUS
<1>5. disorder' \in BOOLEAN BY Zenon, <1>2, <1>4
<1>6. disorder \/ (~Dropped(requests[c]) /\ requests[c].passed) => disorder' BY <1>2
<1>7. requests[c].list \in List /\ requests[c].vc \in Address BY <1>3 DEF FetchRequest
<1> QED BY <1>1, <1>2, <1>5, <1>6, <1>7, RemainingIs

LEMMA LeftMounts ==
    ASSUME requests \in Seq(Request), NEW c \in DOMAIN requests, NEW r, LeftAfter(c, r), requests' = r
    PROVE  /\ \A d \in Mounting' : Old(c, d) \in Mounting /\ Old(c, d) # c
           /\ (\A k, d \in Mounting : k = d) => \A k, d \in Mounting' : k = d
<1>1. PICK n \in Nat : n = Len(requests) BY LenProperties
<1>2. c \in 1..n /\ DOMAIN requests = 1..n /\ DOMAIN requests' = 1..(n - 1)
  BY <1>1, LenProperties DEF LeftAfter
<1>3. ASSUME NEW d \in Mounting'
      PROVE  d \in 1..(n - 1) /\ Old(c, d) \in Mounting /\ Old(c, d) # c
  <2>1. d \in 1..(n - 1) /\ requests'[d].at = "mount" BY <1>2 DEF Mounting
  <2>2. Old(c, d) \in 1..n /\ Old(c, d) # c BY <2>1, <1>2, OldIs
  <2>3. requests[Old(c, d)].at = "mount" BY <2>1, <1>1 DEF LeftAfter, Follows
  <2> QED BY <2>1, <2>2, <2>3, <1>2 DEF Mounting
<1>4. ASSUME \A k, d \in Mounting : k = d PROVE \A k, d \in Mounting' : k = d
  <2>1. TAKE k, d \in Mounting'
  <2>2. Old(c, k) = Old(c, d) /\ k \in 1..(n - 1) /\ d \in 1..(n - 1) BY <1>3, <1>4
  <2> QED BY <2>2, <1>2 DEF Old
<1> QED BY <1>3, <1>4

LEMMA FailsKeeps == ASSUME FeedInv, NEW c \in DOMAIN requests, Fails(c) PROVE FeedInv'
<1> DEFINE r == Lose(Remaining(c))
<1>1. FeedShapes /\ FeedFlags BY FeedTypeIs DEF FeedInv
<1>2. /\ steps < MaxSteps /\ steps' = steps + 1 /\ Applied(c) /\ shown' = Nothing /\ requests' = r
      /\ UNCHANGED <<wanted, due, minimum>>
      /\ \/ Stuck
         \/ /\ ~null /\ dom' = "error" /\ onScreen' = Nothing
            /\ UNCHANGED <<parts, due, null, crowded, blocked, perAsked, misled>>
  BY DEF Fails, ErrorPage
<1>3. UNCHANGED <<feed, address, viewport, lastFit, latch, owned, chunk, jumped, unfitted>>
  BY <1>2 DEF Applied
<1>20. unfitted' \in BOOLEAN /\ perAsked \in Sizes /\ misled \in BOOLEAN
       /\ (address.per # 0 => perAsked = address.per)
  <2>1. unfitted \in BOOLEAN /\ misled \in BOOLEAN BY <1>1 DEF FeedFlags
  <2>2. unfitted' \in BOOLEAN BY Zenon, <2>1, <1>3
  <2> QED BY <2>1, <2>2, <1>1 DEF FeedShapes, FeedInv, LastAsked
<1>21. minimum' \in Sizes
  BY <1>1, <1>2 DEF FeedShapes, Settings
<1>4. requests \in Seq(Request) BY <1>1 DEF FeedShapes
<1>5. /\ c \in Flying /\ ~Dropped(requests[c]) /\ disorder' \in BOOLEAN
      /\ disorder \/ (~Dropped(requests[c]) /\ requests[c].passed) => disorder'
      /\ LeftAfter(c, Remaining(c)) /\ Overtaken(c, Remaining(c))
  BY <1>2, AppliedIs
<1>6. LeftAfter(c, r) /\ Overtaken(c, r) BY <1>4, <1>5, LoseIs
<1> HIDE DEF r
<1>7. Taken(r) BY <1>2 DEF Taken
<1>8. steps' \in 0..MaxSteps BY <1>1, <1>2, FeedSizes DEF FeedShapes
<1>9. shown' \in List \cup {Nothing} /\ wanted' \in Address
      /\ due' \subseteq {"frame", "settle", "resize"} /\ chunk' \in {"there", "absent", "broken"}
  BY <1>1, <1>2, <1>3 DEF FeedShapes
<1>10. CASE Stuck
  <2>1. null /\ blocked' = TRUE /\ UNCHANGED <<dom, parts, onScreen, due, null, crowded, perAsked,
                                               misled>>
    BY <1>10 DEF Stuck
  <2>7. Recounted BY <2>1, <1>20, UnchangedCountIs
  <2>2. LastAsked'
    <3>1. null' BY <2>1
    <3> QED BY <1>3, <1>4, <1>5, <1>6, <1>7, <2>7, <3>1, AnsweredIsAsked DEF FeedInv
  <2>3. Drawn' BY <1>2, <1>3, <1>4, <1>5, <1>6, <2>1, StuckIsDrawn DEF FeedInv
  <2>4. dom' \in {"loading", "error", "grid", "gone"} /\ parts' \in Seq(Piece)
        /\ onScreen' \in List \cup {Nothing}
    BY <1>1, <2>1 DEF FeedShapes, Piece
  <2>5. null' \in BOOLEAN /\ crowded' \in BOOLEAN
    <3>1. null \in BOOLEAN /\ crowded \in BOOLEAN BY <1>1 DEF FeedFlags
    <3>2. null' = null /\ crowded' = crowded BY <2>1
    <3> QED BY Zenon, <3>1, <3>2
  <2>6. blocked' \in BOOLEAN BY <2>1
  <2> QED BY <1>3, <1>5, <1>6, <1>7, <1>8, <1>9, <2>2, <2>3, <2>4, <2>5, <2>6, <2>7, <1>20, <1>21, AnswerKeeps
<1>11. CASE /\ ~null /\ dom' = "error" /\ onScreen' = Nothing
            /\ UNCHANGED <<parts, due, null, crowded, blocked, perAsked, misled>>
  <2>7. Recounted BY <1>11, <1>20, UnchangedCountIs
  <2>1. LastAsked'
    <3>1. dom' = "error" BY <1>11
    <3> QED BY <1>3, <1>4, <1>5, <1>6, <1>7, <2>7, <3>1, AnsweredIsAsked DEF FeedInv
  <2>2. Drawn'
    <3>1. ASSUME ~crowded
          PROVE  /\ \A k, d \in Mounting' : k = d
                 /\ Mounting' # {} => chunk = "absent" /\ parts = <<>>
      <4>1. /\ \A k, d \in Mounting : k = d
            /\ Mounting # {} => chunk = "absent" /\ parts = <<>>
        BY <3>1 DEF FeedInv, Drawn
      <4>2. /\ \A d \in Mounting' : Old(c, d) \in Mounting /\ Old(c, d) # c
            /\ (\A k, d \in Mounting : k = d) => \A k, d \in Mounting' : k = d
        BY <1>2, <1>4, <1>6, LeftMounts
      <4> QED BY <4>1, <4>2
    <3>2. parts' = parts /\ chunk' = chunk /\ crowded' = crowded /\ ~null' BY <1>3, <1>11
    <3> QED BY <1>11, <3>1, <3>2 DEF Drawn
  <2>3. dom' \in {"loading", "error", "grid", "gone"} /\ parts' \in Seq(Piece)
        /\ onScreen' \in List \cup {Nothing}
    BY <1>1, <1>11 DEF FeedShapes, Piece
  <2>4. null' \in BOOLEAN /\ crowded' \in BOOLEAN /\ blocked' \in BOOLEAN
    <3>1. null \in BOOLEAN /\ crowded \in BOOLEAN /\ blocked \in BOOLEAN BY <1>1 DEF FeedFlags
    <3>2. null' = null /\ crowded' = crowded /\ blocked' = blocked BY <1>11
    <3> QED BY Zenon, <3>1, <3>2
  <2> QED BY <1>3, <1>5, <1>6, <1>7, <1>8, <1>9, <2>1, <2>2, <2>3, <2>4, <2>7, <1>20, <1>21, AnswerKeeps
<1> QED BY <1>2, <1>10, <1>11

LEMMA LoadedKeeps == ASSUME FeedInv, NEW c \in DOMAIN requests, Loaded(c) PROVE FeedInv'
<1> DEFINE l == requests[c].list
           r == Remaining(c)
<1>1. FeedShapes /\ FeedFlags BY FeedTypeIs DEF FeedInv
<1>2. /\ Applied(c) /\ Settings /\ shown' = l
      /\ UNCHANGED <<wanted, steps>>
      /\ \/ Stuck /\ requests' = r
         \/ ~null /\ dom' = "grid" /\ MountGrid(l, Lose(r)) /\ UNCHANGED blocked
  BY DEF Loaded
<1>3. UNCHANGED <<feed, address, viewport, lastFit, latch, owned, chunk, jumped, unfitted>>
  BY <1>2 DEF Applied
<1>20. unfitted' \in BOOLEAN /\ perAsked \in Sizes /\ misled \in BOOLEAN
       /\ (address.per # 0 => perAsked = address.per)
  <2>1. unfitted \in BOOLEAN /\ misled \in BOOLEAN BY <1>1 DEF FeedFlags
  <2>2. unfitted' \in BOOLEAN BY Zenon, <2>1, <1>3
  <2> QED BY <2>1, <2>2, <1>1 DEF FeedShapes, FeedInv, LastAsked
<1>21. minimum' \in Sizes
  BY <1>1, <1>2 DEF FeedShapes, Settings
<1>4. requests \in Seq(Request) BY <1>1 DEF FeedShapes
<1>5. /\ c \in Flying /\ ~Dropped(requests[c]) /\ disorder' \in BOOLEAN
      /\ disorder \/ (~Dropped(requests[c]) /\ requests[c].passed) => disorder'
      /\ LeftAfter(c, r) /\ Overtaken(c, r) /\ l \in List
  BY <1>2, AppliedIs
<1>6. LeftAfter(c, Lose(r)) /\ Overtaken(c, Lose(r)) BY <1>4, <1>5, LoseIs
<1>7. shown' = requests[c].list BY <1>2
<1> HIDE DEF r, l
<1>8. shown' \in List \cup {Nothing} /\ wanted' \in Address /\ steps' \in 0..MaxSteps
      /\ chunk' \in {"there", "absent", "broken"}
  BY <1>1, <1>2, <1>3, <1>5 DEF FeedShapes
<1>9. CASE Stuck /\ requests' = r
  <2>1. null /\ blocked' = TRUE /\ UNCHANGED <<dom, parts, onScreen, due, null, crowded, perAsked,
                                               misled>>
    BY <1>9 DEF Stuck
  <2>2. Taken(r) BY <1>9 DEF Taken
  <2>8. Recounted BY <2>1, <1>20, UnchangedCountIs
  <2>3. LastAsked' BY <1>3, <1>4, <1>5, <1>7, <2>2, <2>8, AnsweredIsAsked DEF FeedInv
  <2>4. Drawn' BY <1>3, <1>4, <1>5, <1>9, <2>1, StuckIsDrawn DEF FeedInv
  <2>5. dom' \in {"loading", "error", "grid", "gone"} /\ parts' \in Seq(Piece)
        /\ onScreen' \in List \cup {Nothing} /\ due' \subseteq {"frame", "settle", "resize"}
    BY <1>1, <2>1 DEF FeedShapes, Piece
  <2>6. null' \in BOOLEAN /\ crowded' \in BOOLEAN
    <3>1. null \in BOOLEAN /\ crowded \in BOOLEAN BY <1>1 DEF FeedFlags
    <3>2. null' = null /\ crowded' = crowded BY <2>1
    <3> QED BY Zenon, <3>1, <3>2
  <2>7. blocked' \in BOOLEAN BY <2>1
  <2> QED BY <1>3, <1>5, <1>8, <2>2, <2>3, <2>4, <2>5, <2>6, <2>7, <2>8, <1>20, <1>21, AnswerKeeps
<1>10. CASE ~null /\ dom' = "grid" /\ MountGrid(l, Lose(r)) /\ UNCHANGED blocked
  <2>1. /\ Taken(Lose(r))
        /\ parts' \in Seq(Piece) /\ onScreen' \in List \cup {Nothing}
        /\ due' \subseteq {"frame", "settle", "resize"}
        /\ null' \in BOOLEAN /\ crowded' \in BOOLEAN
        /\ Recounted
    BY <1>1, <1>3, <1>5, <1>10, <1>20, <1>21, MountGridIs
  <2>2. LastAsked' BY <1>3, <1>4, <1>5, <1>6, <1>7, <2>1, AnsweredIsAsked DEF FeedInv
  <2>3. Drawn'
    <3>1. due \subseteq {"frame", "settle", "resize"} BY <1>1 DEF FeedShapes
    <3>2. dom' # "loading" /\ ~null /\ MountGrid(l, Lose(r)) BY <1>10
    <3>3. shown' = l /\ chunk' = chunk /\ feed' = feed BY <1>2, <1>3
    <3> QED BY <1>4, <1>5, <1>6, <3>1, <3>2, <3>3, MountIsDrawn DEF FeedInv
  <2>4. blocked' \in BOOLEAN
    <3>1. blocked \in BOOLEAN BY <1>1 DEF FeedFlags
    <3> QED BY Zenon, <3>1, <1>10
  <2>5. dom' \in {"loading", "error", "grid", "gone"} BY <1>10
  <2> QED BY <1>3, <1>5, <1>6, <1>8, <2>1, <2>2, <2>3, <2>4, <2>5, <1>20, <1>21, AnswerKeeps
<1> QED BY <1>2, <1>9, <1>10

LEMMA RefreshedKeeps == ASSUME FeedInv, NEW c \in DOMAIN requests, Refreshed(c) PROVE FeedInv'
<1> DEFINE l == requests[c].list
           r == Remaining(c)
           Fits == requests[c].refit /\ Reconciles(l)
<1>1. FeedShapes /\ FeedFlags BY FeedTypeIs DEF FeedInv
<1>2. /\ Applied(c) /\ Settings /\ requests[c].kind = "refresh"
      /\ shown' = l /\ wanted' = requests[c].vc
      /\ UNCHANGED <<dom, steps>>
      /\ \/ /\ Fits /\ requests' = r /\ parts' = Synced(parts, l) /\ onScreen' = l
            /\ due' = due \cup {"settle"} /\ Preload(l) /\ UNCHANGED <<null, blocked, crowded>>
         \/ Stuck /\ requests' = r
         \/ ~null /\ MountGrid(l, r) /\ UNCHANGED blocked
  BY DEF Refreshed
<1>3. UNCHANGED <<feed, address, viewport, lastFit, latch, owned, chunk, jumped, unfitted>>
  BY <1>2 DEF Applied
<1>20. unfitted' \in BOOLEAN /\ perAsked \in Sizes /\ misled \in BOOLEAN
       /\ (address.per # 0 => perAsked = address.per)
  <2>1. unfitted \in BOOLEAN /\ misled \in BOOLEAN BY <1>1 DEF FeedFlags
  <2>2. unfitted' \in BOOLEAN BY Zenon, <2>1, <1>3
  <2> QED BY <2>1, <2>2, <1>1 DEF FeedShapes, FeedInv, LastAsked
<1>21. minimum' \in Sizes
  BY <1>1, <1>2 DEF FeedShapes, Settings
<1>4. requests \in Seq(Request) BY <1>1 DEF FeedShapes
<1>5. /\ c \in Flying /\ ~Dropped(requests[c]) /\ disorder' \in BOOLEAN /\ dom # "gone"
      /\ disorder \/ (~Dropped(requests[c]) /\ requests[c].passed) => disorder'
      /\ LeftAfter(c, r) /\ Overtaken(c, r) /\ l \in List /\ wanted' \in Address
  BY <1>2, AppliedIs
<1>6. dom # "loading"
  BY <1>2, <1>5 DEF FeedInv, Drawn, Flying
<1>7. shown' = requests[c].list BY <1>2
<1>8. Fits => onScreen # Nothing /\ parts # <<>> BY DEF Reconciles
<1> HIDE DEF r, l, Fits
<1>9. shown' \in List \cup {Nothing} /\ steps' \in 0..MaxSteps
      /\ chunk' \in {"there", "absent", "broken"} /\ dom' \in {"loading", "error", "grid", "gone"}
  BY <1>1, <1>2, <1>3, <1>5 DEF FeedShapes
<1>10. CASE /\ Fits /\ requests' = r /\ parts' = Synced(parts, l) /\ onScreen' = l
            /\ due' = due \cup {"settle"} /\ Preload(l) /\ UNCHANGED <<null, blocked, crowded>>
  <2>1. Taken(r) BY <1>10 DEF Taken
  <2>8. Recounted
    <3>1. Preload(l) BY <1>10
    <3> QED BY <3>1, <1>1, <1>3, <1>20, <1>21, PreloadIs
  <2>2. LastAsked' BY <1>3, <1>4, <1>5, <1>7, <2>1, <2>8, AnsweredIsAsked DEF FeedInv
  <2>3. parts \in Seq(Piece) /\ parts # <<>> BY <1>1, <1>8, <1>10 DEF FeedShapes, Piece
  <2>4. /\ Synced(parts, l) \in Seq(Piece)
        /\ parts \in {<<"grid">>, <<"grid", "paginator">>} => Synced(parts, l) = Whole(l)
    BY <2>3, SyncedIs
  <2>5. Drawn'
    <3>1. dom = "grid" BY <1>1, <1>5, <1>6, <1>8, <1>10 DEF FeedInv, Drawn, FeedShapes
    <3>2. ASSUME ~crowded PROVE Mounting' = {} /\ ~null /\ parts' = Whole(l)
      <4>1. Mounting = {} /\ ~null /\ parts = Whole(shown) BY <3>1, <3>2, <1>8, <1>10 DEF FeedInv, Drawn
      <4>2. \A d \in Mounting' : Old(c, d) \in Mounting BY <1>4, <1>5, <1>10, LeftMounts
      <4>3. parts \in {<<"grid">>, <<"grid", "paginator">>} BY <4>1 DEF Whole
      <4> QED BY <4>1, <4>2, <4>3, <2>4, <1>10
    <3>3. Whole(shown)' = Whole(l) BY <1>2, <1>3 DEF Whole, MultiPage
    <3>4. dom' = "grid" /\ crowded' = crowded /\ null' = null /\ onScreen' = l /\ shown' = l
      BY <3>1, <1>2, <1>10
    <3> QED BY <3>2, <3>3, <3>4, <1>5 DEF Drawn
  <2>6. onScreen' \in List \cup {Nothing} /\ due' \subseteq {"frame", "settle", "resize"}
        /\ parts' \in Seq(Piece)
    BY <1>1, <1>5, <1>10, <2>4 DEF FeedShapes
  <2>7. null' \in BOOLEAN /\ crowded' \in BOOLEAN /\ blocked' \in BOOLEAN
    <3>1. null \in BOOLEAN /\ crowded \in BOOLEAN /\ blocked \in BOOLEAN BY <1>1 DEF FeedFlags
    <3>2. null' = null /\ crowded' = crowded /\ blocked' = blocked BY <1>10
    <3> QED BY Zenon, <3>1, <3>2
  <2> QED BY <1>3, <1>5, <1>9, <2>1, <2>2, <2>5, <2>6, <2>7, <2>8, <1>20, <1>21, AnswerKeeps
<1>11. CASE Stuck /\ requests' = r
  <2>1. null /\ blocked' = TRUE /\ UNCHANGED <<dom, parts, onScreen, due, null, crowded, perAsked,
                                               misled>>
    BY <1>11 DEF Stuck
  <2>2. Taken(r) BY <1>11 DEF Taken
  <2>8. Recounted BY <2>1, <1>20, UnchangedCountIs
  <2>3. LastAsked' BY <1>3, <1>4, <1>5, <1>7, <2>2, <2>8, AnsweredIsAsked DEF FeedInv
  <2>4. Drawn' BY <1>3, <1>4, <1>5, <1>11, <2>1, StuckIsDrawn DEF FeedInv
  <2>5. parts' \in Seq(Piece)
        /\ onScreen' \in List \cup {Nothing} /\ due' \subseteq {"frame", "settle", "resize"}
    BY <1>1, <2>1 DEF FeedShapes, Piece
  <2>6. null' \in BOOLEAN /\ crowded' \in BOOLEAN
    <3>1. null \in BOOLEAN /\ crowded \in BOOLEAN BY <1>1 DEF FeedFlags
    <3>2. null' = null /\ crowded' = crowded BY <2>1
    <3> QED BY Zenon, <3>1, <3>2
  <2>7. blocked' \in BOOLEAN BY <2>1
  <2> QED BY <1>3, <1>5, <1>9, <2>2, <2>3, <2>4, <2>5, <2>6, <2>7, <2>8, <1>20, <1>21, AnswerKeeps
<1>12. CASE ~null /\ MountGrid(l, r) /\ UNCHANGED blocked
  <2>1. /\ Taken(r)
        /\ parts' \in Seq(Piece) /\ onScreen' \in List \cup {Nothing}
        /\ due' \subseteq {"frame", "settle", "resize"}
        /\ null' \in BOOLEAN /\ crowded' \in BOOLEAN
        /\ Recounted
    BY <1>1, <1>3, <1>5, <1>12, <1>20, <1>21, MountGridIs
  <2>2. LastAsked' BY <1>3, <1>4, <1>5, <1>7, <2>1, AnsweredIsAsked DEF FeedInv
  <2>3. Drawn'
    <3>1. due \subseteq {"frame", "settle", "resize"} BY <1>1 DEF FeedShapes
    <3>2. dom' # "loading" /\ ~null /\ MountGrid(l, r) BY <1>2, <1>6, <1>12
    <3>3. shown' = l /\ chunk' = chunk /\ feed' = feed BY <1>2, <1>3
    <3> QED BY <1>4, <1>5, <3>1, <3>2, <3>3, MountIsDrawn DEF FeedInv
  <2>4. blocked' \in BOOLEAN
    <3>1. blocked \in BOOLEAN BY <1>1 DEF FeedFlags
    <3> QED BY Zenon, <3>1, <1>12
  <2> QED BY <1>3, <1>5, <1>9, <2>1, <2>2, <2>3, <2>4, <1>20, <1>21, AnswerKeeps
<1> QED BY <1>2, <1>10, <1>11, <1>12

LEMMA ChunkLeaves ==
    ASSUME requests \in Seq(Request), NEW c \in DOMAIN requests
    PROVE  /\ LeftAfter(c, RemoveAt(requests, c))
           /\ \A d \in 1..(Len(requests) - 1) : RemoveAt(requests, c)[d] = requests[Old(c, d)]
<1>1. PICK n \in Nat : n = Len(requests) BY LenProperties
<1>2. c \in 1..n /\ DOMAIN requests = 1..n BY <1>1, LenProperties
<1>3. /\ RemoveAt(requests, c) \in Seq(Request) /\ Len(RemoveAt(requests, c)) = n - 1
      /\ \A d \in 1..(n - 1) : RemoveAt(requests, c)[d] = requests[Old(c, d)]
  BY <1>1, <1>2, RemoveAtIs
<1>4. ASSUME NEW d \in 1..(n - 1)
      PROVE  /\ Follows(requests[Old(c, d)], RemoveAt(requests, c)[d])
             /\ c <= d => Old(c, d) = d + 1
  BY <1>2, <1>3, FollowsItself, OldIs
<1> QED BY <1>1, <1>3, <1>4 DEF LeftAfter

LEMMA ChunkIsAsked ==
    ASSUME requests \in Seq(Request), LastAsked, NEW c \in Mounting, requests' = RemoveAt(requests, c),
           UNCHANGED <<feed, address, disorder, shown, dom>>, Recounted, null => null'
    PROVE  LastAsked'
<1>1. PICK n \in Nat : n = Len(requests) BY LenProperties
<1>2. /\ c \in DOMAIN requests /\ c \in 1..n /\ DOMAIN requests = 1..n /\ requests[c].at = "mount"
  BY <1>1, LenProperties DEF Mounting
<1>3. /\ DOMAIN requests' = 1..(n - 1)
      /\ \A d \in 1..(n - 1) : requests'[d] = requests[Old(c, d)]
  BY <1>1, <1>2, ChunkLeaves, LenProperties DEF LeftAfter
<1>4. ASSUME NEW d \in Flying'
      PROVE  d \in 1..(n - 1) /\ Old(c, d) \in Flying /\ requests'[d] = requests[Old(c, d)]
  <2>1. d \in 1..(n - 1) /\ requests'[d].at = "fetch" BY <1>3 DEF Flying
  <2>2. Old(c, d) \in 1..n BY <2>1, <1>2, OldIs
  <2> QED BY <2>1, <2>2, <1>2, <1>3 DEF Flying
<1>5. (address.per # 0 => perAsked = address.per)' BY DEF LastAsked, Recounted
<1>6. CASE disorder BY <1>5, <1>6 DEF LastAsked
<1>7. CASE \E k \in Flying : /\ ~requests[k].late /\ ~requests[k].passed
                             /\ Matches(requests[k].list)
                             /\ \A d \in Flying : d <= k
  <2>1. PICK k \in Flying : /\ ~requests[k].late /\ ~requests[k].passed
                            /\ Matches(requests[k].list)
                            /\ \A d \in Flying : d <= k
    BY <1>7
  <2>2. k \in 1..n /\ requests[k].at = "fetch" /\ k # c BY <2>1, <1>2 DEF Flying
  <2>3. PICK i \in 1..(n - 1) : Old(c, i) = k BY <2>2, <1>2, OldIsOnto
  <2>4. requests'[i] = requests[k] BY <2>3, <1>3
  <2>5. i \in Flying' BY <2>2, <2>4, <1>3 DEF Flying
  <2>6. ASSUME NEW d \in Flying' PROVE d <= i
    <3>1. d \in 1..(n - 1) /\ Old(c, d) <= Old(c, i) BY <1>4, <2>1, <2>3
    <3> QED BY <3>1, <1>2 DEF Old
  <2>7. Matches(requests[i].list)' BY <2>1, <2>4 DEF Matches, Recounted
  <2>8. (\E j \in Flying :
            /\ ~requests[j].late /\ ~requests[j].passed
            /\ Matches(requests[j].list)
            /\ \A d \in Flying : d <= j)'
    BY <2>1, <2>4, <2>5, <2>6, <2>7
  <2> QED BY <2>8, <1>5 DEF LastAsked
<1>8. CASE /\ \A d \in Flying : requests[d].passed \/ (feed = "tag" /\ requests[d].late)
           /\ dom \in {"loading", "grid"} /\ ~null => Matches(shown)
  <2>1. ASSUME NEW d \in Flying'
        PROVE  requests'[d].passed \/ (feed = "tag" /\ requests'[d].late)
    BY <1>4, <1>8
  <2>2. Matches(shown) => Matches(shown)' BY DEF Matches, Recounted
  <2>3. (\A d \in Flying : requests[d].passed \/ (feed = "tag" /\ requests[d].late))'
    BY <2>1
  <2>4. (dom \in {"loading", "grid"} /\ ~null => Matches(shown))' BY <2>2, <1>8
  <2> QED BY <2>3, <2>4, <1>5 DEF LastAsked
<1> QED BY <1>6, <1>7, <1>8 DEF LastAsked

LEMMA ChunkKeeps ==
    ASSUME FeedInv, NEW c \in DOMAIN requests, NEW result \in {"there", "broken"}, Chunk(c, result)
    PROVE  FeedInv'
<1> DEFINE l == requests[c].list
           r == RemoveAt(requests, c)
<1>1. FeedShapes /\ FeedFlags BY FeedTypeIs DEF FeedInv
<1>2. /\ dom # "gone" /\ c \in Mounting
      /\ IF chunk = "absent" THEN chunk' = result ELSE result = chunk /\ chunk' = chunk
      /\ dom' = dom
      /\ Grid(l, parts, ~requests[c].lost, onScreen)
      /\ requests' = r
      /\ UNCHANGED <<feed, address, viewport, lastFit, minimum, wanted, shown, blocked, latch,
                     owned, steps, disorder, crowded, jumped, unfitted>>
  BY DEF Chunk, Running
<1>3. requests \in Seq(Request) BY <1>1 DEF FeedShapes
<1>4. requests[c] \in Request /\ requests[c].at = "mount"
  BY <1>2, <1>3, LenProperties, ElementOfSeq DEF Mounting
<1>5. requests[c] \in MountRequest BY <1>4 DEF Request, FetchRequest
<1>6. l \in List BY <1>5 DEF MountRequest
<1>7. LeftAfter(c, r) BY <1>3, ChunkLeaves
<1> HIDE DEF r, l
<1>8. Taken(r) BY <1>2 DEF Taken
<1>9. chunk' \in {"there", "absent", "broken"} BY <1>2
<1>10. /\ parts' \in Seq(Piece) /\ onScreen' \in List \cup {Nothing}
       /\ due' \subseteq {"frame", "settle", "resize"}
       /\ null' \in BOOLEAN
       /\ null => null'
       /\ chunk' = "broken" \/ dom' # "grid" => null' /\ onScreen' = onScreen
       /\ chunk' # "broken" /\ dom' = "grid" /\ ~requests[c].lost /\ parts = <<>> =>
            /\ null' => null
            /\ onScreen' = l /\ parts' = Whole(l)
  <2>1. parts \in Seq(Piece) /\ onScreen \in List \cup {Nothing}
        /\ due \subseteq {"frame", "settle", "resize"}
    BY <1>1 DEF FeedShapes, Piece
  <2> QED BY <2>1, <1>2, <1>6, GridIs
<1>15. minimum' \in Sizes /\ unfitted' \in BOOLEAN
  <2>1. minimum \in Sizes /\ unfitted \in BOOLEAN BY <1>1 DEF FeedShapes, FeedFlags
  <2> QED BY Zenon, <2>1, <1>2
<1>16. Recounted
  <2>1. misled \in BOOLEAN /\ (address.per # 0 => perAsked = address.per)
    BY <1>1 DEF FeedFlags, FeedInv, LastAsked
  <2>2. address' = address /\ lastFit' = lastFit /\ Preload(l) BY <1>2 DEF Grid
  <2> QED BY <2>1, <2>2, <1>1, <1>15, PreloadIs
<1>11. LastAsked'
  <2>1. UNCHANGED <<feed, address, disorder, shown, dom>> BY <1>2
  <2>2. requests' = RemoveAt(requests, c) BY <1>2 DEF r
  <2> QED BY <2>1, <2>2, <1>2, <1>3, <1>10, <1>16, ChunkIsAsked DEF FeedInv
<1>12. Drawn'
  <2>1. dom # "loading" BY <1>2, <1>4 DEF FeedInv, Drawn
  <2>2. dom' = "error" => onScreen' = Nothing BY <1>2, <1>10 DEF FeedInv, Drawn
  <2>3. ASSUME ~crowded
        PROVE  /\ Mounting' = {}
               /\ null' => onScreen' = Nothing
               /\ dom' = "grid" /\ ~null' => onScreen' = shown /\ shown \in List /\ parts' = Whole(shown)
    <3>1. /\ \A k, d \in Mounting : k = d
          /\ Mounting # {} => parts = <<>> /\ onScreen = Nothing
          /\ null => Mounting = {}
          /\ dom = "grid" /\ ~null /\ Mounting # {} =>
               \A k \in Mounting : requests[k].list = shown /\ ~requests[k].lost
      BY <2>3 DEF FeedInv, Drawn
    <3>2. Mounting # {} /\ ~null /\ parts = <<>> /\ onScreen = Nothing BY <3>1, <1>2
    <3>3. dom = "grid" => l = shown /\ ~requests[c].lost BY <3>1, <3>2, <1>2 DEF l
    <3>4. \A d \in Mounting' : Old(c, d) \in Mounting /\ Old(c, d) # c
      BY <1>2, <1>3, <1>7, LeftMounts
    <3>5. Mounting' = {} BY <3>1, <3>4, <1>2
    <3>6. CASE chunk' = "broken" \/ dom' # "grid"
      BY <3>2, <3>5, <3>6, <1>10
    <3>7. CASE ~(chunk' = "broken" \/ dom' # "grid")
      <4>1. l = shown /\ ~requests[c].lost BY <3>3, <3>7, <1>2
      <4> QED BY <4>1, <3>2, <3>5, <3>7, <1>6, <1>10
    <3> QED BY <3>6, <3>7
  <2>4. Whole(shown)' = Whole(shown) BY <1>2 DEF Whole, MultiPage
  <2>5. crowded' = crowded /\ shown' = shown BY <1>2
  <2> QED BY <2>1, <2>2, <2>3, <2>4, <2>5, <1>2 DEF Drawn
<1>13. /\ dom' \in {"loading", "error", "grid", "gone"} /\ shown' \in List \cup {Nothing}
       /\ wanted' \in Address /\ steps' \in 0..MaxSteps
  BY <1>1, <1>2 DEF FeedShapes
<1>14. blocked' \in BOOLEAN /\ crowded' \in BOOLEAN /\ disorder' \in BOOLEAN
  <2>1. blocked \in BOOLEAN /\ crowded \in BOOLEAN /\ disorder \in BOOLEAN BY <1>1 DEF FeedFlags
  <2>2. blocked' = blocked /\ crowded' = crowded /\ disorder' = disorder BY <1>2
  <2> QED BY Zenon, <2>1, <2>2
<1> QED BY <1>2, <1>7, <1>8, <1>9, <1>10, <1>11, <1>12, <1>13, <1>14, <1>15, <1>16, AnswerKeeps

LEMMA FeedStarts == FeedInit => FeedInv
<1> SUFFICES ASSUME FeedInit PROVE FeedInv OBVIOUS
<1> DEFINE first == [at |-> "fetch", kind |-> "load", vc |-> address,
                     list |-> [address EXCEPT !.per = perAsked],
                     refit |-> FALSE, late |-> FALSE, passed |-> FALSE]
<1>1. /\ address \in Address /\ lastFit \in Sizes /\ minimum \in Sizes /\ perAsked \in Sizes
      /\ address.per # 0 => perAsked = address.per
  BY DEF FeedInit, Address, Filters, PerPage, Cached
<1>2. first.list \in List /\ Matches(first.list) BY <1>1 DEF List, Address, Matches
<1>3. first \in Request
  <2>1. first \in FetchRequest BY <1>1, <1>2 DEF FetchRequest
  <2> QED BY <2>1 DEF Request
<1>4. first.at = "fetch" /\ first.kind = "load" /\ ~first.late /\ ~first.passed OBVIOUS
<1>5. requests = <<first>> BY DEF FeedInit
<1> HIDE DEF first
<1>6. requests \in Seq(Request) /\ Len(requests) = 1 /\ DOMAIN requests = {1} /\ requests[1] = first
  BY <1>3, <1>5
<1>7. FeedShapes
  BY <1>1, <1>6, FeedSizes, EmptyLatchIs DEF FeedInit, FeedShapes
<1>8. FeedFlags BY DEF FeedInit, FeedFlags
<1>9. LastAsked
  <2>1. 1 \in Flying /\ \A d \in Flying : d <= 1 BY <1>4, <1>6 DEF Flying
  <2> QED BY <2>1, <1>1, <1>2, <1>4, <1>6 DEF LastAsked
<1>10. Drawn
  <2>1. Mounting = {} BY <1>4, <1>6 DEF Mounting
  <2> QED BY <2>1, <1>4, <1>6 DEF FeedInit, Drawn
<1>11. FirstPostStays BY DEF FeedInit, FirstPostStays
<1> QED BY <1>7, <1>8, <1>9, <1>10, <1>11, FeedTypeIs DEF FeedInv

LEMMA FeedStutters == ASSUME FeedInv, UNCHANGED feedVars PROVE FeedInv'
<1>1. FeedShapes /\ FeedFlags BY FeedTypeIs DEF FeedInv
<1>2. UNCHANGED <<feed, address, viewport, lastFit, minimum, wanted, perAsked, dom, shown, parts,
                  onScreen, requests, latch, due, owned, chunk, null, blocked, steps, disorder,
                  crowded, jumped, misled, unfitted>>
  BY DEF feedVars
<1>3. FeedShapes' BY <1>1, <1>2 DEF FeedShapes
<1>4. FeedFlags' BY <1>1, <1>2 DEF FeedFlags
<1>5. LastAsked' BY <1>2, SameIsAsked DEF FeedInv
<1>6. Drawn' BY <1>2, SameIsDrawn DEF FeedInv
<1>7. FirstPostStays' BY <1>2, StaysFirst DEF FeedInv
<1>8. FeedTypeOK' BY <1>3, <1>4, FeedTypeComes
<1> QED BY <1>5, <1>6, <1>7, <1>8 DEF FeedInv

(* The inductive invariant of a feed, for any windows, sizes and requests. *)
THEOREM FeedInvariant == FeedSpec => []FeedInv
<1>1. ASSUME FeedInv, [FeedNext]_feedVars PROVE FeedInv'
  <2>1. ASSUME NEW f \in Filters, NEW p \in {-1, 1, 2}, NEW n \in Sizes \cup {0}, ChangeAddress(f, p, n)
        PROVE  FeedInv'
    BY <1>1, <2>1, ChangeAddressKeeps
  <2>2. ASSUME NEW why \in {"frame", "settle", "resize"}, Measure(why) PROVE FeedInv'
    BY <1>1, <2>2, MeasureKeeps
  <2>3. ASSUME NEW v \in Viewports, Resize(v) PROVE FeedInv' BY <1>1, <2>3, ResizeKeeps
  <2>4. ASSUME NEW v \in Viewports, Zoom(v) PROVE FeedInv' BY <1>1, <2>4, ZoomKeeps
  <2>5. ASSUME NEW c \in DOMAIN requests, Ignore(c) PROVE FeedInv' BY <1>1, <2>5, IgnoreKeeps
  <2>6. ASSUME NEW c \in DOMAIN requests, Fails(c) PROVE FeedInv' BY <1>1, <2>6, FailsKeeps
  <2>7. ASSUME NEW c \in DOMAIN requests, Loaded(c) PROVE FeedInv' BY <1>1, <2>7, LoadedKeeps
  <2>8. ASSUME NEW c \in DOMAIN requests, Refreshed(c) PROVE FeedInv' BY <1>1, <2>8, RefreshedKeeps
  <2>9. ASSUME NEW c \in DOMAIN requests, NEW result \in {"there", "broken"}, Chunk(c, result)
        PROVE  FeedInv'
    BY <1>1, <2>9, ChunkKeeps
  <2>10. ASSUME LeaveFeed PROVE FeedInv' BY <1>1, <2>10, LeaveFeedKeeps
  <2>11. ASSUME UNCHANGED feedVars PROVE FeedInv' BY <1>1, <2>11, FeedStutters
  <2> QED BY <1>1, <2>1, <2>2, <2>3, <2>4, <2>5, <2>6, <2>7, <2>8, <2>9, <2>10, <2>11 DEF FeedNext
<1> QED BY <1>1, FeedStarts, PTL DEF FeedSpec

(* Types of a feed page's state.                                           *)
THEOREM FeedIsTyped == FeedSpec => []FeedTypeOK
<1>1. FeedInv => FeedTypeOK BY DEF FeedInv
<1> QED BY <1>1, FeedInvariant, PTL

LEMMA FeedIsKept == ASSUME FeedInv PROVE FeedKept
<1>1. FirstPostStays BY DEF FeedInv
<1>2. ASSUME Rests, Undisturbed, dom # "error"
      PROVE  /\ onScreen = shown
             /\ shown = [address EXCEPT !.per = IF @ = 0 THEN shown.per ELSE @]
             /\ parts = IF MultiPage(shown) THEN <<"grid", "paginator">> ELSE <<"grid">>
  <2>1. Running /\ requests = <<>> /\ ~disorder /\ ~crowded /\ ~null
    BY <1>2 DEF Rests, Undisturbed
  <2>2. onScreen = shown /\ shown \in List /\ parts = Whole(shown) /\ Matches(shown)
    BY <1>2, <2>1, ShownAtRest
  <2>3. address \in Address BY FeedTypeIs DEF FeedInv, FeedShapes
  <2>4. shown = [filter |-> shown.filter, page |-> shown.page, per |-> shown.per]
    BY <2>2 DEF List
  <2>5. [address EXCEPT !.per = IF @ = 0 THEN shown.per ELSE @]
          = [filter |-> address.filter, page |-> address.page,
             per |-> IF address.per = 0 THEN shown.per ELSE address.per]
    BY <2>3 DEF Address
  <2>6. (IF address.per = 0 THEN shown.per ELSE address.per) = shown.per BY <2>2 DEF Matches
  <2> QED BY <2>2, <2>4, <2>5, <2>6 DEF Matches, Whole
<1>3. ShownIsAsked BY <1>2 DEF ShownIsAsked
<1> QED BY <1>1, <1>3 DEF FeedKept

(* At rest a feed shows what its address asks for, in one grid with its    *)
(* paginator, and a refit keeps the first post of the page.                *)
THEOREM FeedHolds == FeedSpec => []FeedKept
<1>1. FeedInv => FeedKept BY FeedIsKept
<1> QED BY <1>1, FeedInvariant, PTL

-----------------------------------------------------------------------------
(***************************************************************************)
(* All of them side by side, as front_check has them.                      *)
(***************************************************************************)

(* What moves one component is a step of it, and no step of another.       *)
THEOREM FrontImplements ==
    FrontSpec => RouterSpec /\ CompSpec /\ FeedSpec /\ WorkerSpec /\ EditorSpec
<1>1. FrontInit => RouterInit /\ CompInit /\ FeedInit /\ WorkerInit /\ EditorInit
  BY DEF FrontInit
<1>2. [FrontNext]_allVars => [RouterNext]_routerVars
  <2>1. UNCHANGED allVars => UNCHANGED routerVars BY DEF allVars
  <2>2. ASSUME NEW name \in {"components", "feeds", "worker", "editor"}, Only(name)
        PROVE  UNCHANGED routerVars
    BY <2>2 DEF Only
  <2> QED BY <2>1, <2>2 DEF FrontNext
<1>3. [FrontNext]_allVars => [CompNext]_compVars
  <2>1. UNCHANGED allVars => UNCHANGED compVars BY DEF allVars
  <2>2. ASSUME NEW name \in {"router", "feeds", "worker", "editor"}, Only(name)
        PROVE  UNCHANGED compVars
    BY <2>2 DEF Only
  <2> QED BY <2>1, <2>2 DEF FrontNext
<1>4. [FrontNext]_allVars => [FeedNext]_feedVars
  <2>1. UNCHANGED allVars => UNCHANGED feedVars BY DEF allVars
  <2>2. ASSUME NEW name \in {"router", "components", "worker", "editor"}, Only(name)
        PROVE  UNCHANGED feedVars
    BY <2>2 DEF Only
  <2> QED BY <2>1, <2>2 DEF FrontNext
<1>5. [FrontNext]_allVars => [WorkerNext]_swVars
  <2>1. UNCHANGED allVars => UNCHANGED swVars BY DEF allVars
  <2>2. ASSUME NEW name \in {"router", "components", "feeds", "editor"}, Only(name)
        PROVE  UNCHANGED swVars
    BY <2>2 DEF Only
  <2> QED BY <2>1, <2>2 DEF FrontNext
<1>6. [FrontNext]_allVars => [EditorNext]_editorVars
  <2>1. UNCHANGED allVars => UNCHANGED editorVars BY DEF allVars
  <2>2. ASSUME NEW name \in {"router", "components", "feeds", "worker"}, Only(name)
        PROVE  UNCHANGED editorVars
    BY <2>2 DEF Only
  <2> QED BY <2>1, <2>2 DEF FrontNext
<1>7. FrontSpec => FrontInit /\ [][FrontNext]_allVars BY PTL DEF FrontSpec
<1> QED BY <1>1, <1>2, <1>3, <1>4, <1>5, <1>6, <1>7, PTL
        DEF RouterSpec, CompSpec, FeedSpec, WorkerSpec, EditorSpec

(* The types of all five, at once.                                         *)
THEOREM FrontIsTyped == FrontSpec => []FrontTypeOK
<1>1. RouterTypeOK /\ CompTypeOK /\ FeedTypeOK /\ WorkerTypeOK /\ EditorTypeOK => FrontTypeOK
  BY DEF FrontTypeOK
<1> QED BY <1>1, FrontImplements, RouterIsTyped, TypeIsKept, FeedIsTyped, WorkerIsTyped,
           EditorIsTyped, PTL

=============================================================================
