---------------------------- MODULE SlideViewer ----------------------------
(***************************************************************************)
(* The viewer of one post's pictures: components/shared/MediaViewer.ts     *)
(* and, where the sheet plugin is on, the ImmersiveSheetViewer of          *)
(* plugins/immersive over it.  Fingers, keys and timers move slides; what  *)
(* one of them leaves half done is the others' to put right.               *)
(*                                                                         *)
(* The viewer is followed until it asks its page to close, or to go to a   *)
(* neighbouring post: PostShow has what comes then.  Left out: distances   *)
(* (where a drag ends is a choice), the camera data and the site's chrome, *)
(* and touches that the recogniser drops.                                  *)
(***************************************************************************)
EXTENDS Integers, Sequences, SequencesExt

CONSTANTS
    Slides,  \* slides of the post
    MaxActs  \* bound: commands of the visitor

VARIABLES
    sheeted,  \* the viewer has a sheet
    ends,     \* the post beyond each end: none, one that shows no picture, or one that does
    preloads, \* ends whose post is being fetched
    edges,    \* ends with a ghost slide
    index,
    moved,    \* elements with the inline style of a drag or a slide
    peeking,  \* _peekEl
    timers,
    finger,   \* GestureController's state
    drift,    \* where the finger has gone
    zoomed,
    sheetOpen, sheetDrag,
    offset,   \* of the sheet: closed, on its way, or open
    went,     \* where the viewer has asked to go
    viewerActs,
    (* history *)
    want,     \* where the visitor's commands lead
    haste     \* what was done across what did not expect it

viewerVars == <<sheeted, ends, preloads, edges, index, moved, peeking, timers, finger, drift,
                zoomed, sheetOpen, sheetDrag, offset, went, viewerActs, want, haste>>
sheetVars == <<sheetOpen, sheetDrag, offset>>
slideVars == <<index, moved, peeking, timers, zoomed, went>>

Dir == {"back", "fwd"}
Slide == 0..(Slides - 1)
Element == -1..Slides  \* the slides, and the ghosts beyond them
Drift == Dir \cup {"up", "down"}
Closed == Slides + 1
Timer == [kind : {"swap", "seam", "fade", "settle"}, to : Element]

TypeOK ==
    /\ {sheeted, zoomed, sheetOpen, sheetDrag} \subseteq BOOLEAN
    /\ ends \in [Dir -> {"none", "plain", "picture"}]
    /\ preloads \subseteq Dir /\ edges \subseteq Dir
    /\ index \in Slide /\ moved \subseteq Element
    /\ peeking \subseteq Element /\ \A e, f \in peeking : e = f
    /\ timers \in Seq(Timer)
    /\ finger \in {"none", "h", "v", "pan", "pinch"} /\ drift \in Drift
    /\ offset \in 0..2 /\ went \in {"nowhere", "back", "fwd", "closed"}
    /\ viewerActs \in 0..MaxActs /\ want \in Element \cup {Closed}
    /\ haste \subseteq {"hurried", "under a drag", "turned down", "turned up"}

Init ==
    /\ sheeted \in BOOLEAN
    /\ ends \in [Dir -> {"none", "plain", "picture"}]
    /\ preloads = {d \in Dir : ends[d] # "none"} /\ edges = {}
    /\ index \in {0, Slides - 1}
    /\ moved = {} /\ peeking = {} /\ timers = <<>>
    /\ finger = "none" /\ drift = "up" /\ zoomed = FALSE
    /\ sheetOpen = FALSE /\ sheetDrag = FALSE /\ offset = 0
    /\ went = "nowhere" /\ viewerActs = 0
    /\ want = index /\ haste = {}

Beyond(dir) == IF dir = "fwd" THEN index + 1 ELSE index - 1
Here == went = "nowhere"

(* A timer runs off before every one that was set later and runs as long.  *)
Lasts(t) == IF t.kind \in {"swap", "seam"} THEN 280 ELSE 300
Due(k) == \A j \in 1..(k - 1) : Lasts(timers[j]) > Lasts(timers[k])
Sliding == \E k \in DOMAIN timers : timers[k].kind # "settle"
Set(kind, to) == Append(timers, [kind |-> kind, to |-> to])

-----------------------------------------------------------------------------
(* Slides.                                                                 *)

(* _neighborEl.                                                            *)
Neighbor(dir) ==
    IF Beyond(dir) \in Slide \/ dir \in edges THEN {Beyond(dir)} ELSE {}

(* _isBlocked.                                                             *)
Blocked(dir) == Beyond(dir) \notin Slide /\ ends[dir] = "none"

(* _updateVisuals at fit, with _horizontalDrag, _setPeek and _clearPeek:   *)
(* the active slide follows the finger, and sideways a neighbour with it.  *)
Follow(d) ==
    LET peek == IF d \in Dir THEN Neighbor(d) ELSE {}
        rest == IF d = "up" THEN {index} ELSE {}
    IN  /\ peeking' = peek
        /\ moved' = ((moved \ (peeking \ peek)) \cup peek \cup {index}) \ rest

(* _resetZoom, with the slide that is then active: zoomed, it keeps the    *)
(* transform that belongs to its scale.                                    *)
Fit(active, unmoved) ==
    /\ zoomed' = FALSE /\ peeking' = {} /\ index' = active
    /\ moved' = moved \ (unmoved \cup peeking \cup {active})

(* _resetVisuals and _settlePeek, and what is set to follow.               *)
SettleThen(more) ==
    /\ moved' = moved \ ({index} \ peeking)
    /\ timers' = timers \o (IF peeking = {} THEN <<>> ELSE <<[kind |-> "settle", to |-> index]>>)
                        \o more
    /\ UNCHANGED <<index, peeking, zoomed, went>>
Settle == SettleThen(<<>>)

(* Mutant: the slide that is left keeps the style of its slide.            *)
SwapKeeping(i) == Fit(i, {})

(* _finalizeSwap: what peeks is forgotten, not cleared.                    *)
Swap(i) ==
    /\ zoomed' = FALSE /\ peeking' = {} /\ index' = i
    /\ moved' = moved \ {index, i}

(* _commitHorizontal.  Without a ghost to hand over, _navigatePost fades   *)
(* out for 300 ms.                                                         *)
Commit(dir) ==
    LET to == Beyond(dir)
    IN  IF Neighbor(dir) = {} THEN SettleThen(<<[kind |-> "fade", to |-> to]>>)
        ELSE /\ moved' = moved \cup {index, to}
             /\ timers' = Set(IF to \in Slide THEN "swap" ELSE "seam", to)
             /\ UNCHANGED <<index, peeking, zoomed, went>>

(* goTo.  A step off either end crosses, or wraps where nothing is beyond. *)
Target(i) == i % Slides

(* Mutant: the ends are told by where a step lands.                        *)
CrossesAtEnds(i) ==
    \/ Target(i) = Slides - 1 /\ index = 0 /\ ends["back"] # "none"
    \/ Target(i) = 0 /\ index = Slides - 1 /\ ends["fwd"] # "none"

Crosses(i) ==
    \/ i < 0 /\ Target(i) = Slides - 1 /\ ends["back"] # "none"
    \/ i >= Slides /\ Target(i) = 0 /\ ends["fwd"] # "none"

GoTo(i) ==
    \/ /\ Crosses(i)
       /\ timers' = Set("fade", i)
       /\ UNCHANGED <<index, moved, peeking, zoomed, went>>
    \/ /\ ~Crosses(i) /\ Target(i) # index
       /\ Fit(Target(i), {index})
       /\ UNCHANGED <<timers, went>>
    \/ /\ ~Crosses(i) /\ Target(i) = index
       /\ UNCHANGED slideVars

Close == went' = "closed" /\ UNCHANGED <<index, moved, peeking, timers, zoomed>>

-----------------------------------------------------------------------------
(* The sheet.                                                              *)
OpenSheet == sheetOpen' = TRUE /\ sheetDrag' = FALSE /\ offset' = 2
CloseSheet == sheetOpen' = FALSE /\ sheetDrag' = FALSE /\ offset' = 0

(* ImmersiveSheetViewer's _onSwipeMove with a vertical drag: it moves the  *)
(* sheet, or pulls the photo down when there is none to close.             *)
DragSheet(d) ==
    IF d = "down" /\ ~sheetOpen
    THEN /\ sheetDrag' = FALSE /\ Follow("down")
         /\ haste' = haste \cup (IF offset > 0 THEN {"turned down"} ELSE {})
         /\ UNCHANGED <<sheetOpen, offset>>
    ELSE /\ sheetDrag' = TRUE
         /\ offset' \in IF sheetOpen /\ d = "down" THEN {0, 1}
                        ELSE IF sheetOpen THEN {2} ELSE {1, 2}
         /\ haste' = haste \cup (IF index \in moved THEN {"turned up"} ELSE {})
         /\ UNCHANGED <<sheetOpen, moved, peeking>>

-----------------------------------------------------------------------------
(* What the visitor does.                                                  *)
Act == Here /\ viewerActs < MaxActs /\ viewerActs' = viewerActs + 1
Unseen == UNCHANGED <<sheeted, ends, preloads, edges>>

(* A command is for what the visitor sees, where nothing slides.           *)
Wants(where) ==
    /\ want' = where
    /\ haste' = haste \cup (IF Sliding THEN {"hurried"} ELSE {})

(* The sheet opens or closes under a finger that drags.                    *)
Underhand == IF finger \in {"h", "v"} THEN {"under a drag"} ELSE {}

(* A step leads to the next slide, into the post beyond the last, or       *)
(* around where there is none.                                             *)
Stepped(i) == IF Crosses(i) THEN i ELSE Target(i)

(* A first move of one finger, which tells what the touch is.              *)
Grip ==
    /\ Act /\ finger = "none"
    /\ \E d \in Drift :
        /\ finger' = IF zoomed THEN "pan" ELSE IF d \in Dir THEN "h" ELSE "v"
        /\ drift' = d
        /\ IF zoomed
           THEN /\ moved' = moved \ peeking /\ peeking' = {}
                /\ UNCHANGED <<sheetVars, haste>>
           ELSE IF sheeted /\ d \notin Dir THEN DragSheet(d)
           ELSE IF sheeted /\ sheetOpen
           THEN /\ sheetDrag' = FALSE /\ UNCHANGED <<moved, peeking, sheetOpen, offset, haste>>
           ELSE /\ Follow(d) /\ sheetDrag' = FALSE /\ UNCHANGED <<sheetOpen, offset, haste>>
    /\ Unseen /\ UNCHANGED <<index, timers, zoomed, went, want>>

(* The next ones.  The sheet's viewer keeps to the axis of the first; a    *)
(* pan whose zoom was reset by a key drags the slide.                      *)
Move ==
    /\ Here /\ finger \in {"h", "v", "pan"}
    /\ \E d \in Drift \ {drift} :
        /\ sheeted /\ finger # "pan" => (d \in Dir) = (finger = "h")
        /\ drift' = d
        /\ IF finger = "pan"
           THEN IF zoomed THEN moved' = moved \ peeking /\ peeking' = {} ELSE Follow(d)
           ELSE IF sheeted /\ finger = "v" THEN DragSheet(d)
           ELSE IF sheeted /\ sheetOpen THEN UNCHANGED <<moved, peeking>>
           ELSE Follow(d)
        /\ IF sheeted /\ finger = "v" THEN TRUE ELSE UNCHANGED <<sheetVars, haste>>
    /\ Unseen /\ UNCHANGED <<index, timers, finger, zoomed, went, viewerActs, want>>

(* _onSwipeCancel.  The sheet snaps to the end that is nearer.             *)
Cancel ==
    IF sheetDrag
    THEN /\ \/ offset > 0 /\ OpenSheet
            \/ offset < 2 /\ CloseSheet
         /\ UNCHANGED slideVars
    ELSE /\ IF zoomed THEN UNCHANGED slideVars ELSE Settle
         /\ UNCHANGED sheetVars

(* onSwipeCommit, of a touch that went far enough.                         *)
Swiped(d) ==
    \/ /\ sheeted /\ d = "up" /\ OpenSheet
       /\ UNCHANGED <<slideVars, want, haste>>
    \/ /\ sheeted /\ d = "down" /\ (sheetOpen \/ sheetDrag) /\ CloseSheet
       /\ UNCHANGED <<slideVars, want, haste>>
    \/ /\ d = "down" /\ ~sheetOpen /\ ~sheetDrag /\ Close /\ Wants(Closed)
       /\ UNCHANGED sheetVars
    \/ /\ sheeted /\ d \in Dir /\ sheetOpen /\ UNCHANGED <<slideVars, sheetVars, want, haste>>
    \/ /\ ~sheetOpen /\ d \in Dir /\ ~Blocked(d) /\ Commit(d) /\ Wants(Beyond(d))
       /\ UNCHANGED sheetVars
    \/ /\ ~sheetOpen /\ ((d \in Dir /\ Blocked(d)) \/ (~sheeted /\ d = "up")) /\ Settle
       /\ UNCHANGED <<sheetVars, want, haste>>

(* How far a touch went along its axis, and which way, is not what its     *)
(* last move was where the finger turned.                                  *)
Release ==
    /\ Here /\ finger \in {"h", "v", "pan"} /\ finger' = "none"
    /\ \/ Cancel /\ UNCHANGED <<want, haste>>
       \/ \E d \in (IF finger = "h" THEN Dir ELSE {"up", "down"}) :
              /\ finger # "pan"
              /\ (drift \in Dir) = (finger = "h") => d = drift
              /\ Swiped(d)
    /\ Unseen /\ UNCHANGED <<drift, viewerActs>>

(* A second finger cancels the first one's swipe.                          *)
SecondFinger ==
    /\ Act /\ finger # "pinch" /\ finger' = "pinch"
    /\ IF finger = "none" THEN UNCHANGED <<slideVars, sheetVars>> ELSE Cancel
    /\ Unseen /\ UNCHANGED <<drift, want, haste>>

PinchMove ==
    /\ Here /\ finger = "pinch"
    /\ zoomed' \in BOOLEAN /\ peeking' = {}
    /\ moved' = IF zoomed' THEN moved \ (peeking \cup {index}) ELSE (moved \ peeking) \cup {index}
    /\ Unseen
    /\ UNCHANGED <<index, timers, finger, drift, sheetVars, went, viewerActs, want, haste>>

(* Back to fit from below, or inside the edges of the scaled slide.        *)
PinchEnd ==
    /\ Here /\ finger = "pinch" /\ finger' = "none"
    /\ IF zoomed THEN UNCHANGED <<index, moved, peeking, zoomed>> ELSE Fit(index, {})
    /\ Unseen /\ UNCHANGED <<timers, drift, sheetVars, went, viewerActs, want, haste>>

DoubleTap ==
    /\ Act /\ finger = "none"
    /\ zoomed' = ~zoomed /\ peeking' = {} /\ moved' = moved \ (peeking \cup {index})
    /\ Unseen /\ UNCHANGED <<index, timers, finger, drift, sheetVars, went, want, haste>>

(* Arrow keys, the panels at the sides and the trackpad step, unless the   *)
(* picture is zoomed.                                                      *)
StepTo(dir) ==
    /\ Act /\ ~zoomed
    /\ GoTo(Beyond(dir)) /\ Wants(Stepped(Beyond(dir)))
    /\ Unseen /\ UNCHANGED <<finger, drift, sheetVars>>

(* Home, End, a dot below, and the slideshow.                              *)
JumpTo ==
    /\ Act
    /\ \E i \in Slide : GoTo(i) /\ Wants(i)
    /\ Unseen /\ UNCHANGED <<finger, drift, sheetVars>>

(* What Escape takes off: one layer at a time.                             *)
Peel == IF zoomed THEN "zoom" ELSE IF sheetOpen THEN "sheet" ELSE "viewer"

Escape ==
    /\ Act
    /\ CASE Peel = "zoom" -> Fit(index, {}) /\ UNCHANGED <<timers, went, sheetVars, want, haste>>
         [] Peel = "sheet" -> CloseSheet /\ UNCHANGED <<slideVars, want>>
                              /\ haste' = haste \cup Underhand
         [] Peel = "viewer" -> Close /\ Wants(Closed) /\ UNCHANGED sheetVars
    /\ Unseen /\ UNCHANGED <<finger, drift>>

(* The key or the hint for the sheet, and the tap on the photo above it.   *)
ToggleSheet ==
    /\ Act /\ sheeted
    /\ IF sheetOpen THEN CloseSheet ELSE OpenSheet
    /\ haste' = haste \cup Underhand
    /\ Unseen /\ UNCHANGED <<slideVars, finger, drift, want>>

-----------------------------------------------------------------------------
(* What comes by itself.                                                   *)

(* _preloadNeighbors: only a picture gets a ghost; a fetch may fail.       *)
Preloaded ==
    \E d \in preloads, found \in BOOLEAN :
        /\ preloads' = preloads \ {d}
        /\ edges' = IF found /\ ends[d] = "picture" THEN edges \cup {d} ELSE edges
        /\ UNCHANGED <<sheeted, ends, slideVars, finger, drift, sheetVars, viewerActs, want,
                       haste>>

(* A timer runs off.                                                       *)
RunOff(t) ==
    CASE t.kind = "swap" ->
             /\ Swap(t.to) /\ UNCHANGED <<went>>
             /\ haste' = haste \cup (IF peeking \subseteq {t.to} THEN {} ELSE {"under a drag"})
      [] t.kind = "settle" ->
             /\ moved' = moved \ peeking /\ peeking' = {}
             /\ UNCHANGED <<index, zoomed, went, haste>>
      [] t.kind \in {"seam", "fade"} ->
             /\ went' = IF t.to < 0 THEN "back" ELSE "fwd"
             /\ UNCHANGED <<index, moved, peeking, zoomed, haste>>

Ring ==
    \E k \in DOMAIN timers :
        /\ Here /\ Due(k) /\ timers' = RemoveAt(timers, k)
        /\ RunOff(timers[k])
        /\ Unseen /\ UNCHANGED <<finger, drift, sheetVars, viewerActs, want>>

Next ==
    \/ Grip \/ Move \/ Release
    \/ SecondFinger \/ PinchMove \/ PinchEnd \/ DoubleTap
    \/ \E dir \in Dir : StepTo(dir)
    \/ JumpTo \/ Escape \/ ToggleSheet
    \/ Here /\ Preloaded
    \/ Ring

(***************************************************************************)
(* Properties.                                                             *)
(***************************************************************************)
AtRest == Here /\ finger = "none" /\ timers = <<>>

(* At rest no slide is out of its place and none lies over another.        *)
StageIsClean == AtRest => moved = {} \/ haste \cap {"under a drag", "turned up"} # {}

(* At rest the sheet is open or closed, never between.                     *)
SheetSnaps ==
    AtRest => offset = (IF sheetOpen THEN 2 ELSE 0) \/ "turned down" \in haste

(* The viewer ends where the visitor's commands led.                       *)
LandsAsAsked ==
    "hurried" \notin haste =>
        /\ AtRest => index = want
        /\ went = "back" => want = -1
        /\ went = "fwd" => want = Slides
        /\ went = "closed" => want = Closed

=============================================================================
