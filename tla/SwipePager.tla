----------------------------- MODULE SwipePager -----------------------------
(***************************************************************************)
(* Paging with a finger: core/gridPager.ts over the public grids and its   *)
(* sibling core/mediaPager.ts over the media library, with the recogniser  *)
(* of core/gestures.ts.  The neighbouring pages are fetched ahead into     *)
(* ghosts beside the grid; a swipe slides one in and holds it over the     *)
(* grid until the page it announces has been loaded below it.              *)
(*                                                                         *)
(* The page that owns the grid is modelled as far as the pager sees it: it *)
(* loads what it is asked for, and arms the pager when it has drawn a      *)
(* grid.  Left out: the geometry of a slide, trackpads, which go through   *)
(* the same lock, and the two frames before a ghost is dropped.            *)
(***************************************************************************)
EXTENDS Integers, Sequences, SequencesExt

CONSTANTS
    Pages,        \* pages of every list
    Fetches,      \* bound: loads at a time
    MaxPagerActs  \* bound: touches, other commands, and requests that fail

ASSUME PagerAssumption == Pages \in Nat \ {0} /\ {Fetches, MaxPagerActs} \subseteq Nat

VARIABLES
    deck,      \* which of the two pagers
    mounted,   \* the page is mounted
    stage,     \* what it shows
    list,      \* what the grid holds
    sought,    \* the filter to load: of the address, or of the library's state
    per,       \* per_page as it was last asked for
    edition,   \* how often the files have changed
    fetches,   \* loads under way
    lookup,    \* a lookup will draw the library again
    armed,     \* the page that the listeners were made for, or 0
    hearing,   \* touches arrive at an element that listens
    ghosts, ghostKey,
    building,  \* ghosts whose page is being fetched
    peek,      \* _peekGhost
    committed, \* _committedGhost
    litter,    \* ghosts that were held, were replaced, and are still on the screen
    touch,     \* the recogniser's state, the side the finger is on, and how far
    shift,     \* where the grid is
    locked,    \* _pageNavPending, and its watchdog
    handoffs,  \* pages to go to when a slide is over
    cols,      \* the columns that were zoomed to
    zoomDue,   \* _zoomCommitTimer runs
    pagerActs,
    (* history *)
    slips,     \* what went on across what did not expect it
    misled     \* a swipe was taken to another page than its ghost's

pagerVars == <<deck, mounted, stage, list, sought, per, edition, fetches, lookup, armed, hearing,
               ghosts, ghostKey, building, peek, committed, litter, touch, shift, locked, handoffs,
               cols, zoomDue, pagerActs, slips, misled>>
pagePreloads == <<ghosts, ghostKey, building>>

Page == 1..Pages
Dir == {"prev", "next"}
Filter == {"all", "some"}
NoGhost == [page |-> 0, filter |-> "all", edition |-> 0]
Untouched == [at |-> "idle", dir |-> "none", far |-> FALSE]

Fetch == [page : Page, filter : Filter, seamless : BOOLEAN, refit : BOOLEAN, whole : BOOLEAN]
Ghost == [page : 0..Pages, filter : Filter, edition : 0..MaxPagerActs]

PagerTypeOK ==
    /\ deck \in {"grid", "media"} /\ stage \in {"grid", "spinner", "error"}
    /\ {mounted, lookup, hearing, locked, zoomDue, misled} \subseteq BOOLEAN
    /\ list \in [page : Page, filter : Filter] /\ sought \in Filter /\ per \in 1..2
    /\ fetches \in Seq(Fetch) /\ Len(fetches) <= Fetches
    /\ armed \in 0..Pages /\ ghostKey \in [page : 0..Pages, filter : Filter, per : 1..2]
    /\ ghosts \in [Dir -> Ghost] /\ committed \in Ghost
    /\ building \subseteq [dir : Dir, page : Page, filter : Filter, fresh : BOOLEAN]
    /\ peek \in Dir \cup {"none"}
    /\ litter \in 0..MaxPagerActs
    /\ touch \in [at : {"idle", "single", "h", "v", "multi", "pinching"}, dir : Dir \cup {"none"},
                  far : BOOLEAN]
    /\ shift \in {"in place", "pulled", "away"}
    /\ handoffs \in Seq(Page) /\ cols \in 1..2
    /\ edition \in 0..MaxPagerActs /\ pagerActs \in 0..MaxPagerActs
    /\ slips \subseteq {"cut", "curved", "crossed", "late", "failed"}

Beside(p, dir) == IF dir = "next" THEN p + 1 ELSE p - 1

PagerInit ==
    /\ deck \in {"grid", "media"} /\ mounted = TRUE /\ stage = "grid"
    /\ list = [page |-> 1, filter |-> "all"] /\ sought = "all" /\ per = 1 /\ edition = 0
    /\ fetches = <<>> /\ lookup = (deck = "media")
    /\ armed = 1 /\ hearing = TRUE
    /\ ghosts = [d \in Dir |-> NoGhost]
    /\ ghostKey = [page |-> IF deck = "media" THEN 1 ELSE 0, filter |-> "all", per |-> 1]
    /\ building = {[dir |-> d, page |-> Beside(1, d), filter |-> "all", fresh |-> TRUE] :
                      d \in {e \in Dir : Beside(1, e) \in Page}}
    /\ peek = "none" /\ committed = NoGhost /\ litter = 0
    /\ touch = Untouched /\ shift = "in place" /\ locked = FALSE /\ handoffs = <<>>
    /\ cols = 1 /\ zoomDue = FALSE
    /\ pagerActs = 0 /\ slips = {} /\ misled = FALSE

Blocked(dir) == Beside(armed, dir) \notin Page
Dragging == touch.at \in {"h", "v"} /\ (shift = "pulled" \/ peek # "none")

-----------------------------------------------------------------------------
(* Arming.                                                                 *)

(* _clearPageGhosts, _clearGhosts: what is under way is of an old version. *)
Cleared == ghosts' = [d \in Dir |-> NoGhost] /\ peek' = "none"
Expired == {[b EXCEPT !.fresh = FALSE] : b \in building}

(* _preloadAdjacentGrids, _preloadAdjacent: both neighbours of a page.     *)
Preload(page) ==
    /\ Cleared
    /\ building' = Expired \cup
           {[dir |-> d, page |-> Beside(page, d), filter |-> sought', fresh |-> TRUE] :
               d \in {e \in Dir : Beside(page, e) \in Page}}

(* Mutant: a listing is told by its page alone.                            *)
ListingKeyOfPage(page) == [page |-> page, filter |-> "all", per |-> 1]

(* _listingKey.                                                            *)
ListingKey(page) == [page |-> page, filter |-> sought', per |-> per']

(* _teardown ends a touch without a word, and the lock, and drops a zoom.  *)
Teardown ==
    /\ touch' = Untouched /\ locked' = FALSE /\ zoomDue' = FALSE
    /\ slips' = slips \cup (IF Dragging THEN {"cut"} ELSE {})
                      \cup (IF handoffs # <<>> THEN {"crossed"} ELSE {})

(* arm: the grid's ghosts are always made anew, the library's for another  *)
(* listing.  The library drops the ghost that is held; a grid's page does  *)
(* so itself, if it was asked for by a swipe.                              *)
Arm(page, seamless) ==
    /\ Teardown
    /\ armed' = page /\ hearing' = TRUE
    /\ ghostKey' = IF deck = "media" THEN ListingKey(page) ELSE ghostKey
    /\ IF deck = "grid" \/ ghostKey' # ghostKey THEN Preload(page)
       ELSE UNCHANGED <<ghosts, building, peek>>
    /\ committed' = IF deck = "media" \/ seamless THEN NoGhost ELSE committed

Unarmed == UNCHANGED <<armed, hearing, pagePreloads, peek, committed, touch, locked, zoomDue, slips>>

-----------------------------------------------------------------------------
(* The page that owns the grid.                                            *)

(* A refresh in place, or a load that draws a spinner first, as all those  *)
(* of the library do.                                                      *)
Ask(p, swiped, refit) ==
    LET whole == deck = "media" \/ stage # "grid"
    IN  /\ Len(fetches) < Fetches
        /\ fetches' = Append(fetches,
               [page |-> p, filter |-> sought', seamless |-> swiped /\ ~whole,
                refit |-> refit /\ ~whole, whole |-> whole])
        /\ stage' = IF whole THEN "spinner" ELSE stage

(* The spinner takes the place of what listened to touches.                *)
Deafened == hearing' = (hearing /\ deck = "grid")
Released ==
    /\ Deafened
    /\ touch' = IF deck = "media" THEN Untouched ELSE touch
    /\ shift' = IF deck = "media" THEN "in place" ELSE shift

(* Somebody else's request, under a drag or a slide.                       *)
Crossing ==
    (IF handoffs # <<>> THEN {"crossed"} ELSE {})
    \cup (IF deck = "media" /\ Dragging THEN {"cut"} ELSE {})

(* An answer is drawn.  Only a refit leaves the grid as it is mounted.     *)
Answered ==
    /\ fetches # <<>>
    /\ UNCHANGED <<deck, mounted, sought, per, edition, litter, handoffs, cols, pagerActs, misled>>
    /\ \E c \in DOMAIN fetches :
        LET q == fetches[c]
            inPlace == q.refit /\ list = [page |-> q.page, filter |-> q.filter]
            drawn ==
                /\ mounted
                /\ IF deck = "media" THEN stage # "error" ELSE q.whole \/ stage = "grid"
        IN  /\ fetches' = RemoveAt(fetches, c)
            /\ IF drawn
               THEN /\ list' = [page |-> q.page, filter |-> q.filter]
                    /\ stage' = "grid" /\ lookup' = (deck = "media")
                    /\ shift' = IF inPlace THEN shift ELSE "in place"
                    /\ Arm(q.page, q.seamless /\ ~inPlace)
               ELSE Unarmed /\ UNCHANGED <<list, stage, lookup, shift>>

(* An error takes the place of all that the page has drawn.  The library's *)
(* ghosts are on the body, and stay.                                       *)
FetchFails ==
    /\ fetches # <<>> /\ pagerActs < MaxPagerActs /\ pagerActs' = pagerActs + 1
    /\ \E c \in DOMAIN fetches : fetches' = RemoveAt(fetches, c)
    /\ IF ~mounted THEN Unarmed /\ UNCHANGED <<stage, shift, litter>>
       ELSE /\ stage' = "error" /\ shift' = "in place"
            /\ IF deck = "grid"
               THEN /\ touch' = Untouched /\ locked' = FALSE /\ zoomDue' = FALSE
                    /\ armed' = 0 /\ hearing' = FALSE
                    /\ Cleared /\ building' = Expired
                    /\ committed' = NoGhost /\ litter' = 0 /\ UNCHANGED slips
               ELSE /\ touch' = Untouched /\ hearing' = FALSE
                    /\ slips' = slips \cup Crossing
                                      \cup (IF committed # NoGhost THEN {"failed"} ELSE {})
                    /\ UNCHANGED <<armed, ghosts, building, peek, committed, litter, locked,
                                   zoomDue>>
            /\ UNCHANGED ghostKey
    /\ UNCHANGED <<deck, mounted, list, sought, per, edition, lookup, handoffs, cols, misled>>

(* Each image of the library looks its posts up, and draws all of it again *)
(* when it has them.                                                       *)
Redraw ==
    /\ lookup /\ lookup' = FALSE
    /\ UNCHANGED <<deck, mounted, stage, list, sought, per, edition, fetches, litter, handoffs,
                   cols, pagerActs, misled>>
    /\ IF mounted /\ stage = "grid" THEN Arm(list.page, FALSE) /\ shift' = "in place"
       ELSE Unarmed /\ UNCHANGED shift

-----------------------------------------------------------------------------
(* Ghosts.                                                                 *)

(* An answer of an earlier version is dropped.                             *)
Fits(b) == mounted /\ b.fresh

Built ==
    \E b \in building :
        /\ building' = building \ {b}
        /\ ghosts' = IF ~Fits(b) THEN ghosts
                     ELSE [ghosts EXCEPT ![b.dir] =
                         [page |-> b.page, filter |-> b.filter, edition |-> edition]]
        /\ UNCHANGED <<deck, mounted, stage, list, sought, per, edition, fetches, lookup, armed,
                       hearing, ghostKey, peek, committed, litter, touch, shift, locked, handoffs,
                       cols, zoomDue, pagerActs, slips, misled>>

NotBuilt ==
    /\ pagerActs < MaxPagerActs /\ pagerActs' = pagerActs + 1
    /\ \E b \in building : b.fresh /\ building' = building \ {b}
    /\ UNCHANGED <<deck, mounted, stage, list, sought, per, edition, fetches, lookup, armed,
                   hearing, ghosts, ghostKey, peek, committed, litter, touch, shift, locked,
                   handoffs, cols, zoomDue, slips, misled>>

-----------------------------------------------------------------------------
(* Touches (GestureController).                                            *)
Elsewhere == UNCHANGED <<deck, mounted, list, sought, edition, lookup, building, armed, cols>>
Unasked == UNCHANGED <<stage, per, fetches, hearing, ghosts, ghostKey, committed, litter, handoffs,
                       misled>>

(* _resetGridSwipe, _resetSwipe.                                           *)
Reset == shift' = "in place" /\ peek' = "none"

TouchDown ==
    /\ mounted /\ hearing /\ touch.at = "idle"
    /\ pagerActs < MaxPagerActs /\ pagerActs' = pagerActs + 1
    /\ touch' = [touch EXCEPT !.at = "single"]
    /\ Elsewhere /\ Unasked /\ UNCHANGED <<peek, shift, locked, zoomDue, slips>>

(* onSwipeMove: the grid follows the finger, and the ghost of the side it  *)
(* uncovers.                                                               *)
Dragged(dir) ==
    IF locked THEN UNCHANGED <<shift, peek>>
    ELSE /\ shift' = "pulled"
         /\ peek' = IF ~Blocked(dir) /\ ghosts[dir] # NoGhost THEN dir
                    ELSE IF peek = dir THEN peek ELSE "none"

(* A drag is taken for a horizontal or a vertical one, or dropped, by its  *)
(* first step; a vertical one may turn aside later.                        *)
TouchMove ==
    /\ \/ touch.at = "single" /\ touch' \in {Untouched, [touch EXCEPT !.at = "v"]}
          /\ UNCHANGED <<shift, peek>>
       \/ \E dir \in Dir, far \in BOOLEAN :
              /\ touch.at \in {"single", "h", "v"}
              /\ touch' = [at |-> IF touch.at = "v" THEN "v" ELSE "h", dir |-> dir, far |-> far]
              /\ Dragged(dir)
    /\ Elsewhere /\ Unasked /\ UNCHANGED <<locked, zoomDue, pagerActs, slips>>

SecondFinger ==
    /\ touch.at \in {"single", "h", "v"}
    /\ touch' = [Untouched EXCEPT !.at = "multi"]
    /\ IF touch.at = "single" THEN UNCHANGED <<shift, peek>> ELSE Reset
    /\ Elsewhere /\ Unasked /\ UNCHANGED <<locked, zoomDue, pagerActs, slips>>

(* _commitPageSwipe without a ghost: the page is asked for at once.        *)
CommitPlainly(target) ==
    /\ Ask(target, FALSE, FALSE)
    /\ Deafened /\ Reset
    /\ UNCHANGED <<ghosts, ghostKey, committed, litter, handoffs, slips, misled>>

(* The ghost slides in, and is held.                                       *)
CommitGhost(dir, target) ==
    LET ghost == ghosts[dir]
    IN  /\ shift' = "away" /\ peek' = "none"
        /\ committed' = ghost
        /\ litter' = IF committed = NoGhost THEN litter ELSE litter + 1
        /\ ghosts' = [ghosts EXCEPT ![dir] = NoGhost]
        /\ ghostKey' = [ghostKey EXCEPT !.page = 0]
        /\ handoffs' = Append(handoffs, target)
        /\ slips' = slips \cup (IF fetches = <<>> THEN {} ELSE {"crossed"})
        /\ misled' = (misled \/ (fetches = <<>> /\ ghost.edition = edition
                                 /\ <<ghost.page, ghost.filter>> # <<target, sought>>))
        /\ UNCHANGED <<stage, fetches, hearing>>

(* Mutant: a swipe is taken while another one slides.                      *)
TakesAlways(dir) == ~Blocked(dir)

(* onSwipeCommit: not while another one slides, nor past the ends.         *)
Takes(dir) == ~locked /\ ~Blocked(dir)

TouchUp ==
    /\ touch.at \in {"single", "h", "v"} /\ touch' = Untouched
    /\ Elsewhere /\ UNCHANGED <<per, zoomDue, pagerActs>>
    /\ \/ touch.at = "single" /\ Unasked /\ UNCHANGED <<shift, peek, locked, slips>>
       (* Far enough down or up: a vertical swipe, which moves nothing.    *)
       \/ /\ touch.at = "v" /\ Unasked /\ UNCHANGED <<shift, peek, locked>>
          /\ slips' = slips \cup (IF Dragging THEN {"curved"} ELSE {})
       \/ /\ touch.at = "v" \/ ~touch.far \/ (~locked /\ Blocked(touch.dir))
          /\ touch.at # "single"
          /\ Reset /\ Unasked /\ UNCHANGED <<locked, slips>>
       \/ /\ touch.at = "h" /\ touch.far /\ locked /\ ~Takes(touch.dir)
          /\ Unasked /\ UNCHANGED <<shift, peek, locked, slips>>
       \/ /\ touch.at = "h" /\ touch.far /\ Takes(touch.dir)
          /\ locked' = TRUE
          /\ IF ghosts[touch.dir] = NoGhost THEN CommitPlainly(Beside(armed, touch.dir))
             ELSE CommitGhost(touch.dir, Beside(armed, touch.dir))

(* 280 ms later.                                                           *)
Handoff ==
    /\ handoffs # <<>> /\ handoffs' = Tail(handoffs)
    /\ UNCHANGED <<sought, per>>
    /\ IF mounted THEN Ask(Head(handoffs), TRUE, FALSE) /\ Released
       ELSE UNCHANGED <<stage, fetches, hearing, touch, shift>>
    /\ UNCHANGED <<deck, mounted, list, edition, lookup, armed, pagePreloads, peek, committed, litter,
                   locked, cols, zoomDue, pagerActs, slips, misled>>

(* Three seconds later, with no grid armed since.                          *)
Watchdog ==
    /\ locked /\ handoffs = <<>> /\ locked' = FALSE
    /\ Reset
    /\ slips' = slips \cup (IF committed = NoGhost THEN {} ELSE {"late"})
    /\ Elsewhere /\ Unasked /\ UNCHANGED <<touch, zoomDue, pagerActs>>

-----------------------------------------------------------------------------
(* Zooming: other columns at once, and a refit when it is over.            *)
Zoom ==
    /\ mounted /\ stage = "grid" /\ cols' = 3 - cols /\ zoomDue' = TRUE
    /\ IF touch.at \in {"multi", "pinching"}
       THEN ~zoomDue /\ touch' = [touch EXCEPT !.at = "pinching"]
       ELSE UNCHANGED touch
    /\ pagerActs < MaxPagerActs /\ pagerActs' = pagerActs + 1
    /\ UNCHANGED <<deck, mounted, list, sought, edition, lookup, building, armed, peek, shift,
                   locked, slips>>
    /\ Unasked

(* _commitZoom, of the timer or of fingers that are lifted.                *)
CommitZoom ==
    /\ IF touch.at \in {"multi", "pinching"} THEN touch' = Untouched
       ELSE zoomDue /\ (touch' = IF deck = "media" /\ cols # per THEN Untouched ELSE touch)
    /\ zoomDue' = FALSE
    /\ UNCHANGED sought
    /\ IF mounted /\ stage = "grid" /\ cols # per
       THEN /\ per' = cols /\ Ask(list.page, FALSE, TRUE)
            /\ Deafened /\ shift' = (IF deck = "media" THEN "in place" ELSE shift)
            /\ slips' = slips \cup Crossing
       ELSE UNCHANGED <<per, stage, fetches, hearing, shift, slips>>
    /\ UNCHANGED <<deck, mounted, list, edition, lookup, armed, pagePreloads, peek, committed, litter,
                   locked, handoffs, cols, pagerActs, misled>>

-----------------------------------------------------------------------------
(* What else is done on the page.                                          *)
Command == mounted /\ pagerActs < MaxPagerActs /\ pagerActs' = pagerActs + 1

(* An arrow key or a chevron, which know no lock.                          *)
PressKey(dir) ==
    /\ Command /\ armed # 0 /\ ~Blocked(dir)
    /\ UNCHANGED <<sought, per>>
    /\ Ask(Beside(armed, dir), FALSE, FALSE) /\ Released
    /\ slips' = slips \cup Crossing
    /\ UNCHANGED <<deck, mounted, list, edition, lookup, armed, pagePreloads, peek, committed, litter,
                   locked, handoffs, cols, zoomDue, misled>>

(* Years of posts, or a type of files.  The library draws its old grid     *)
(* under the new filter before it loads.                                   *)
Narrow ==
    /\ Command
    /\ sought' = (CHOOSE f \in Filter : f # sought) /\ UNCHANGED per
    /\ Ask(1, FALSE, FALSE)
    /\ IF deck = "media" /\ stage = "grid"
       THEN /\ Teardown /\ armed' = list.page /\ hearing' = FALSE /\ shift' = "in place"
            /\ ghostKey' = ListingKey(list.page) /\ committed' = NoGhost
            /\ IF ghostKey' # ghostKey THEN Preload(list.page)
               ELSE UNCHANGED <<ghosts, building, peek>>
       ELSE /\ Released /\ slips' = slips \cup Crossing
            /\ UNCHANGED <<armed, pagePreloads, peek, committed, locked, zoomDue>>
    /\ UNCHANGED <<deck, mounted, list, edition, lookup, litter, handoffs, cols, misled>>

(* A file is renamed, deleted or added.                                    *)
Edit ==
    /\ deck = "media" /\ stage = "grid" /\ Command
    /\ edition' = edition + 1
    /\ UNCHANGED <<sought, per>>
    /\ Ask(1, FALSE, FALSE) /\ Released /\ slips' = slips \cup Crossing
    /\ UNCHANGED <<deck, mounted, list, lookup, armed, pagePreloads, peek, committed, litter, locked,
                   handoffs, cols, zoomDue, misled>>

(* destroy.                                                                *)
LeaveGrid ==
    /\ Command /\ mounted' = FALSE
    /\ touch' = Untouched /\ locked' = FALSE /\ zoomDue' = FALSE
    /\ armed' = 0 /\ hearing' = FALSE
    /\ Cleared /\ building' = Expired /\ committed' = NoGhost
    /\ litter' = IF deck = "grid" THEN 0 ELSE litter
    /\ UNCHANGED <<deck, stage, list, sought, per, edition, fetches, lookup, ghostKey, shift,
                   handoffs, cols, slips, misled>>

Progress ==
    \/ Answered \/ Redraw \/ Built \/ Handoff \/ Watchdog
    \/ TouchUp
    \/ CommitZoom

PagerNext ==
    \/ Progress
    \/ FetchFails \/ NotBuilt
    \/ TouchDown \/ TouchMove \/ SecondFinger \/ Zoom
    \/ \E dir \in Dir : PressKey(dir)
    \/ Narrow \/ Edit \/ LeaveGrid

PagerSpec == PagerInit /\ [][PagerNext]_pagerVars

(***************************************************************************)
(* Properties.                                                             *)
(***************************************************************************)
Quiet ==
    /\ touch.at = "idle" /\ ~locked /\ handoffs = <<>> /\ fetches = <<>> /\ ~zoomDue /\ ~lookup
    /\ building = {}

(* At rest the grid is in its place, visible, whatever swipes there were:  *)
(* unless one was cut off by a refit that re-armed the grid, or began      *)
(* vertically and ended so after it had turned aside.                      *)
GridInPlace ==
    Quiet /\ mounted /\ stage = "grid" =>
        \/ shift = "in place"
        \/ "curved" \in slips
        \/ deck = "grid" /\ "cut" \in slips

(* Nor is a ghost left over it.  One may be if something else was loaded   *)
(* during the slide, if the load took longer than the lock, or if it       *)
(* failed under the library's, which is on the body.                       *)
NothingOverlaid ==
    Quiet /\ mounted =>
        /\ peek = "none" \/ slips \cap {"cut", "curved", "crossed"} # {}
        /\ (committed = NoGhost /\ litter = 0) \/ slips \cap {"crossed", "late", "failed"} # {}

(* A swipe leads to the page that its ghost showed.                        *)
GhostTells == ~misled

(* One swipe slides at a time, unless the grid was armed under it.         *)
OneSlide == Len(handoffs) <= 1 \/ "crossed" \in slips

(* What a swipe leaves behind: a grid in its place, nothing over it, the   *)
(* page that was promised, and no second slide under way.                  *)
PagerKept == GridInPlace /\ NothingOverlaid /\ GhostTells /\ OneSlide

=============================================================================
