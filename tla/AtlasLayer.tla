----------------------------- MODULE AtlasLayer -----------------------------
(***************************************************************************)
(* The map layer over the lists of posts: plugins/tags-atlas               *)
(* (atlasLayerState, atlasLayerGesture, atlasLayerLayout), the marker of   *)
(* utils/atlasReturn.ts, and how core/gridPager.ts, router.ts, TagPage.ts  *)
(* and PostContent.ts bring them up, take them down and carry the layer's  *)
(* mode from page to page.                                                 *)
(*                                                                         *)
(* The mode is an attribute of the document's body; observers write it to  *)
(* the address and to the browser's storage before anything else happens.  *)
(* Each entry of the history names a mode, or none.  Two fingers may drag  *)
(* at the same time.  Left out: the search page, wheel inertia, reduced    *)
(* motion, and what is measured; AtlasMap has the map itself.              *)
(***************************************************************************)
EXTENDS Integers, Sequences, SequencesExt

CONSTANT MaxActs \* bound: what the visitor does

VARIABLES
    attr,           \* body[data-atlas-layer]
    layout,         \* mountAtlasLayerLayout is up
    handle,         \* so is mountAtlasLayerGesture
    here, backwards,     \* the history
    kept,           \* localStorage
    shownRoute, awaits,  \* the page on screen; what it is loading
    pointer, pull,  \* the finger on the handle, and the one on the list
    from,           \* start.from
    dragging, snapping, raised, \* attributes of the body, and its height
    snapTo, snapTick, \* of the timer
    opened,         \* sessionStorage: the entry to come back to
    layerActs,
    (* history *)
    meantMode, origin, \* as the visitor chose; where the post was opened
    slop            \* what a mode does not survive

layerVars == <<attr, layout, handle, here, backwards, kept, shownRoute, awaits, pointer, pull, from,
               dragging, snapping, raised, snapTo, snapTick, opened, layerActs, meantMode,
               origin, slop>>
body == <<dragging, snapping, raised, snapTo, snapTick>>
fingers == <<pointer, pull, from>>

ORDER == <<"list", "mapList", "map">>
Mode == {"list", "mapList", "map"}
List == {"home", "tag"}
Route == List \cup {"tagpost", "post", "other"}
Entry == [route : Route, mode : Mode \cup {"none"}]
Nowhere == [route |-> "other", mode |-> "none"]
Chip == [route |-> "post", mode |-> "none"]

TypeOK ==
    /\ attr \in Mode /\ {layout, handle, dragging, snapping, raised, snapTick} \subseteq BOOLEAN
    /\ here \in Entry /\ backwards \in Seq(Entry) /\ kept \in Mode \cup {"none"}
    /\ shownRoute \in Route \cup {"none"} /\ awaits \in {"no", "part", "full"}
    /\ pointer \in {"no", "down", "drag"} /\ pull \in {"no", "down", "drag"} /\ from \in Mode
    /\ snapTo \in Mode \cup {"none"} /\ {opened, origin} \subseteq Entry
    /\ layerActs \in 0..MaxActs /\ meantMode \in Mode
    /\ slop \subseteq {"bare", "cut", "back", "fingers", "late", "chip", "tab",
                   "astray", "hurried"}

Init ==
    /\ attr = "list" /\ layout = FALSE /\ handle = FALSE
    /\ kept \in {"none", "map"}
    /\ here \in {e \in Entry : e.route \in List /\ e.mode \in {"none", "mapList"}}
    /\ backwards = <<>> /\ shownRoute = "none" /\ awaits = "full"
    /\ pointer = "no" /\ pull = "no" /\ from = "list"
    /\ dragging = FALSE /\ snapping = FALSE /\ raised = FALSE
    /\ snapTo = "none" /\ snapTick = FALSE /\ opened = Nowhere
    /\ layerActs = 0 /\ origin = Nowhere /\ slop = {}
    /\ meantMode = IF here.mode # "none" THEN here.mode
                   ELSE IF kept # "none" THEN kept ELSE "list"

-----------------------------------------------------------------------------
(* Modes.                                                                  *)
At(mode) == CHOOSE i \in 1..3 : ORDER[i] = mode
next(mode) == ORDER[IF At(mode) = 3 THEN 3 ELSE At(mode) + 1]
prev(mode) == ORDER[IF At(mode) = 1 THEN 1 ELSE At(mode) - 1]
cycle(mode) == IF mode = "map" THEN "list" ELSE next(mode)

(* Mutant: the saved mode wins over the address.                           *)
initialStateSaved ==
    IF kept # "none" THEN kept ELSE IF here.mode # "none" THEN here.mode ELSE "list"

initialState ==
    IF here.mode # "none" THEN here.mode ELSE IF kept # "none" THEN kept ELSE "list"

(* setAtlasLayerState, and the layout's observer if it is up.              *)
Set(mode) ==
    /\ attr' = mode
    /\ here' = IF layout THEN [here EXCEPT !.mode = mode] ELSE here
    /\ kept' = IF layout THEN mode ELSE kept

(* carryStateToPath, for a path that names no mode.                        *)
Carried(route) ==
    [route |-> route, mode |-> IF route \in List THEN attr ELSE "none"]

(* carryAtlasParams first, for a move within a list.                       *)
Kept(route) ==
    IF here.mode # "none" THEN [route |-> route, mode |-> here.mode]
    ELSE Carried(route)

-----------------------------------------------------------------------------
(* Drags.                                                                  *)
Act == layerActs < MaxActs /\ layerActs' = layerActs + 1
Elsewhere == UNCHANGED <<layout, handle, backwards, shownRoute, awaits, opened, origin>>

(* Mutant: a drag that is cut short leaves its marks.                      *)
LetGoMarked == snapTo' = "none" /\ snapTick' = FALSE /\ UNCHANGED <<dragging, snapping, raised>>

(* finishDrag, but for the mode.                                           *)
LetGo ==
    /\ snapTo' = "none" /\ snapTick' = FALSE
    /\ IF dragging THEN dragging' = FALSE /\ snapping' = FALSE /\ raised' = FALSE
       ELSE UNCHANGED <<dragging, snapping, raised>>

Settles == dragging /\ snapTo # "none" /\ snapTo # attr

beginDrag == dragging' = TRUE /\ raised' = TRUE /\ UNCHANGED <<snapping, snapTo, snapTick>>

(* releaseDrag.  snapState: the nearest mode, or the next one of a flick;  *)
(* a cancelled drag goes back.                                             *)
releaseDrag ==
    /\ snapTo' \in Mode /\ snapping' = TRUE /\ raised' = TRUE /\ snapTick' = TRUE
    /\ meantMode' = snapTo'
    /\ slop' = slop \cup (IF snapTick \/ ~dragging THEN {"fingers"} ELSE {})
    /\ UNCHANGED dragging

(* onDown: on the handle; with the map up, on the cards and the footer.    *)
Down ==
    /\ Act /\ handle /\ pointer = "no" /\ ~snapTick
    /\ pointer' = "down" /\ from' = attr
    /\ Elsewhere /\ UNCHANGED <<attr, here, kept, pull, body, meantMode, slop>>

(* onTouchStart, of a finger that is alone.                                *)
PullDown ==
    /\ Act /\ handle /\ attr = "list" /\ pull = "no" /\ pointer = "no" /\ ~snapTick
    /\ pull' = "down"
    /\ Elsewhere /\ UNCHANGED <<attr, here, kept, pointer, from, body, meantMode, slop>>

(* onMove and onTouchMove lock the axis once.                              *)
Move ==
    /\ \/ pointer = "down" /\ pointer' = "drag" /\ UNCHANGED pull
       \/ pull = "down" /\ pull' = "drag" /\ UNCHANGED pointer
    /\ beginDrag
    /\ Elsewhere /\ UNCHANGED <<attr, here, kept, from, layerActs, meantMode, slop>>

(* moveDrag moves the handle of whoever drags on.                          *)
MoveOn ==
    /\ pointer = "drag" \/ pull = "drag"
    /\ ~raised /\ raised' = TRUE
    /\ Elsewhere
    /\ UNCHANGED <<attr, here, kept, fingers, dragging, snapping, snapTo, snapTick, layerActs,
                   meantMode, slop>>

(* end and endPull, after a drag.                                          *)
Release ==
    /\ \/ pointer = "drag" /\ pointer' = "no" /\ UNCHANGED pull
       \/ pull = "drag" /\ pull' = "no" /\ UNCHANGED pointer
    /\ releaseDrag
    /\ Elsewhere /\ UNCHANGED <<attr, here, kept, from, layerActs>>

(* Without one: stateAfter of a tap, of a flick that no move told of, or   *)
(* of nothing.                                                             *)
Tap ==
    \/ /\ pointer = "down" /\ pointer' = "no"
       /\ \E mode \in {attr, cycle(attr), next(attr), prev(attr)} :
            IF mode = attr THEN UNCHANGED <<attr, here, kept, meantMode>>
            ELSE Set(mode) /\ meantMode' = mode
       /\ slop' = slop \cup (IF snapTick THEN {"late"} ELSE {})
       /\ Elsewhere /\ UNCHANGED <<pull, from, body, layerActs>>
    \/ /\ pull = "down" /\ pull' = "no"
       /\ Elsewhere
       /\ UNCHANGED <<attr, here, kept, pointer, from, body, layerActs, meantMode, slop>>

(* The timer of releaseDrag.                                               *)
Ring ==
    /\ snapTick /\ LetGo
    /\ IF Settles THEN Set(snapTo) ELSE UNCHANGED <<attr, here, kept>>
    /\ slop' = slop \cup (IF pointer = "drag" \/ pull = "drag" THEN {"fingers"} ELSE {})
    /\ Elsewhere /\ UNCHANGED <<fingers, layerActs, meantMode>>

(* onKey and onWheel.                                                      *)
Key ==
    /\ Act /\ handle
    /\ \E mode \in {cycle(attr), next(attr), prev(attr), "list"} :
            Set(mode) /\ meantMode' = mode
    /\ slop' = slop \cup (IF snapTick THEN {"late"} ELSE {})
    /\ Elsewhere /\ UNCHANGED <<fingers, body>>

-----------------------------------------------------------------------------
(* Pages.                                                                  *)
Page(route) == IF route = "tagpost" THEN "tag" ELSE route

(* The gesture goes: its fingers are not heard any more.                   *)
Unhand == pointer' = "no" /\ pull' = "no" /\ LetGo /\ UNCHANGED from

(* GridPager.destroy: the observers go before they have heard of the last  *)
(* mode.                                                                   *)
Destroy ==
    /\ Unhand /\ handle' = FALSE /\ layout' = FALSE
    /\ attr' = IF layout THEN "list" ELSE attr
Cut == IF snapTick THEN {"cut"} ELSE {}

(* A route that is another page's takes this one down; within a page the   *)
(* new list replaces the old one once it is there.                         *)
Leaves(entry) == Page(entry.route) # Page(here.route)

Go(entry, full) ==
    /\ here' = entry /\ UNCHANGED kept
    /\ IF Leaves(entry) THEN Destroy /\ shownRoute' = "none" /\ awaits' = "full"
       ELSE /\ awaits' = IF full \/ awaits = "full" THEN "full" ELSE "part"
            /\ UNCHANGED <<layout, handle, attr, shownRoute, fingers, body>>

Push == backwards' = Append(backwards, here)

(* clearAtlasOpen of a page that goes.                                     *)
Cleared(entry, marker) ==
    IF Leaves(entry) /\ Page(here.route) \in {"tag", "post"} THEN Nowhere ELSE marker

(* HomePage, TagPage and PostPage once their data is there; arm keeps a    *)
(* layout that is up.                                                      *)
Arrive ==
    /\ awaits # "no" /\ awaits' = "no" /\ shownRoute' = here.route
    /\ CASE here.route \in List ->
                /\ Unhand /\ handle' = TRUE /\ layout' = TRUE
                /\ IF ~layout
                   THEN /\ attr' = initialState /\ UNCHANGED kept
                        /\ here' = IF initialState = "list" THEN here
                                   ELSE [here EXCEPT !.mode = initialState]
                   ELSE IF Settles THEN Set(snapTo) ELSE UNCHANGED <<attr, here, kept>>
                /\ UNCHANGED slop
         [] here.route = "tagpost" ->
                Destroy /\ slop' = slop \cup Cut /\ UNCHANGED <<here, kept>>
         [] OTHER -> UNCHANGED <<attr, layout, handle, here, kept, fingers, body, slop>>
    /\ opened' = IF here.route = "tag" /\ awaits = "full" THEN Nowhere ELSE opened
    /\ UNCHANGED <<backwards, layerActs, origin, meantMode>>

(* The layer's mode is not what this page was reached in.                  *)
Bare(entry) == IF ~layout /\ entry.route \in List THEN {"bare"} ELSE {}
Origin(entry) == IF entry.route = "post" /\ here.route = "post" THEN origin ELSE Nowhere
Gone(entry) ==
    IF Leaves(entry) THEN Cut
    ELSE IF awaits # "no" /\ opened # Nowhere THEN {"hurried"} ELSE {}

(* A link of the header, of a card's tags or of an article.                *)
FollowLink ==
    \E route \in {"home", "tag", "post", "other"} :
        LET entry == Carried(route)
        IN  /\ Act /\ (route \in {"home", "other"} => route # here.route)
            /\ Go(entry, TRUE) /\ Push
            /\ opened' = Cleared(entry, opened)
            /\ origin' = Origin(entry)
            /\ slop' = slop \cup Bare(entry) \cup Gone(entry)
            /\ UNCHANGED meantMode

(* The paginator and the filters of a list.                                *)
Turn ==
    /\ Act /\ here.route \in List /\ shownRoute = here.route
    /\ Go(Kept(here.route), FALSE) /\ Push
    /\ UNCHANGED <<opened, origin, meantMode, slop>>

(* onCardClick, and then the card's own; or a click that opens a new tab.  *)
OpenPost ==
    LET entry == IF here.route = "home" THEN Carried("post")
                 ELSE [route |-> "tagpost", mode |-> here.mode]
        marker == IF attr = "list" THEN opened ELSE here
    IN  /\ Act /\ here.route \in List /\ shownRoute = here.route /\ layout
        /\ \/ /\ Go(entry, TRUE) /\ Push
              /\ opened' = Cleared(entry, marker)
              /\ origin' = IF attr = "list" THEN Nowhere ELSE here
              /\ slop' = slop \cup Gone(entry)
           \/ /\ attr # "list" /\ opened' = marker /\ slop' = slop \cup {"tab"}
              /\ UNCHANGED <<here, backwards, shownRoute, awaits, layout, handle, attr, kept,
                             fingers, body, origin>>
        /\ UNCHANGED meantMode

(* _focusCloudNode leaves a marker of its own kind.                        *)
OpenChip ==
    /\ Act /\ layout /\ attr # "list" /\ here.route \in List
    /\ Go(Carried("post"), TRUE) /\ Push
    /\ opened' = Cleared(Carried("post"), Chip) /\ origin' = here
    /\ slop' = slop \cup Cut \cup {"chip"}
    /\ UNCHANGED meantMode

(* Mutant: a post is always closed to its place in the feed.               *)
TakenNever == Nowhere

(* takeAtlasReturn knows one of the two kinds.                             *)
Taken == IF opened.route \in List THEN opened ELSE Nowhere

(* PostContent's onClose.                                                  *)
ClosePost ==
    LET entry == IF Taken # Nowhere THEN Taken
                 ELSE IF here.route = "post" THEN Carried("home") ELSE Kept("tag")
    IN  /\ Act /\ here.route \in {"post", "tagpost"} /\ shownRoute = here.route
        /\ Go(entry, TRUE) /\ Push
        /\ opened' = Nowhere /\ origin' = Nowhere
        /\ slop' = slop \cup (IF entry.mode # meantMode THEN Bare(entry) ELSE {})
                      \cup (IF origin \notin {Nowhere, entry} THEN {"astray"} ELSE {})
        /\ UNCHANGED meantMode

(* popstate.                                                               *)
Back ==
    LET entry == Last(backwards)
    IN  /\ Act /\ backwards # <<>> /\ backwards' = Front(backwards)
        /\ \E full \in (IF {entry.route, here.route} = {"home"} THEN {FALSE}
                         ELSE IF {entry.route, here.route} = {"tag"} THEN BOOLEAN ELSE {TRUE}) :
                Go(entry, full)
        /\ opened' = Cleared(entry, opened) /\ origin' = Origin(entry)
        /\ meantMode' = IF entry.mode # "none" THEN entry.mode ELSE meantMode
        /\ slop' = slop \cup Gone(entry)
               \cup (IF layout /\ ~Leaves(entry) /\ (snapTick \/ entry.mode # attr)
                   THEN {"back"} ELSE {})

Next ==
    \/ Down \/ PullDown \/ Move \/ MoveOn \/ Release \/ Tap \/ Ring \/ Key
    \/ Arrive \/ FollowLink \/ Turn \/ OpenPost \/ OpenChip \/ ClosePost \/ Back

(***************************************************************************)
(* Properties.                                                             *)
(***************************************************************************)
Quiet == awaits = "no" /\ pointer = "no" /\ pull = "no" /\ ~snapTick

(* A list is shown in the mode that its visitor chose last, or in the one  *)
(* that the address asks for, on whatever way it was come to.              *)
ModeIsKept ==
    Quiet /\ layout => attr = meantMode \/ slop \cap {"bare", "cut", "back", "fingers", "late"} # {}

(* The address names the mode that is shown: a link that is copied, and a  *)
(* reload, show the same.                                                  *)
UrlNamesMode ==
    Quiet /\ layout =>
        attr = (IF here.mode = "none" THEN "list" ELSE here.mode) \/ "back" \in slop

(* No mark of a drag outlives it, whatever cuts it short: the lists wait   *)
(* for it to go before they fit their pages.                               *)
DragEnds ==
    pointer # "drag" /\ pull # "drag" /\ ~snapTick =>
        ~(dragging \/ snapping \/ raised) \/ "fingers" \in slop

(* A post that was opened from the map closes to where it was opened, and  *)
(* no other post does.                                                     *)
ClosesToMap ==
    /\ "astray" \in slop => "chip" \in slop
    /\ here.route \in {"post", "tagpost"} =>
        opened = origin \/ slop \cap {"chip", "tab", "hurried"} # {}

=============================================================================
