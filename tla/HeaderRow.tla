----------------------------- MODULE HeaderRow -----------------------------
(***************************************************************************)
(* The row of the public header and the dropdowns over the public pages.   *)
(*                                                                         *)
(* The row (utils/headerFold.ts): what is shown folds in a fixed order     *)
(* until the row fits, and unfolds when there is room, except while the    *)
(* map covers the page (utils/headerFreeze.ts).  The crumbs, the menu's    *)
(* links and the site's title are drawn by components of their own, at     *)
(* their own time, and a new element is never folded.  Every part is as    *)
(* wide as the next one, and as nothing when it is folded away; a          *)
(* shortened one counts for nothing too, and a zone that folds takes all   *)
(* of its parts with it.                                                   *)
(*                                                                         *)
(* The dropdowns: one panel (utils/tagFlyout.ts) serves every trigger: the *)
(* crumbs, the menu's links, the rows of the menu's More panel             *)
(* (plugins/nav-menu) and the tags of cards.  A mouse opens it by resting  *)
(* on a trigger, a finger by a tap, and the next tap follows the link.     *)
(* Whatever is drawn anew replaces its triggers, whose timers are not      *)
(* stopped.                                                                *)
(***************************************************************************)
EXTENDS Naturals, Sequences, FiniteSets, SequencesExt

CONSTANTS
    Links,      \* bound: links of the menu
    Crumbs,     \* bound: crumbs before the current one
    MaxRowActs, \* bound: changes of what is drawn and of the width
    MaxMoves    \* bound: moves, clicks and draws

VARIABLES
    row,      \* its width, and what there is to show: the subtitle, how many links of the menu,
              \* the timeline, how many crumbs before the current one
    folds,    \* what is folded
    frozen,   \* body[data-atlas-layer] is map or mapList
    resized,  \* the ResizeObserver has not told yet
    rowActs,
    (* history *)
    patched   \* drawn anew since the last time that everything was unfolded

rowVars == <<row, folds, frozen, resized, rowActs, patched>>

VARIABLES
    fine,      \* hasFinePointer
    icy,       \* the header is frozen
    cursor,    \* what the mouse is over: a trigger, the More button, the panel, or else
    flyout,    \* the panel: whether it is open, and its anchor, which may have been replaced
    resting,   \* triggers whose timers run
    more,      \* the More panel: open, and whether it goes when the mouse leaves it
    moreTimer, \* the More panel's timer
    moves,
    (* history *)
    late,      \* the panel was opened by the timer of a trigger that is replaced or hidden
    tapped,    \* the last step was a tap: on what, and whether the panel was open there
    landed     \* it led to another page

flyVars == <<fine, icy, cursor, flyout, resting, more, moreTimer, moves, late, tapped, landed>>

-----------------------------------------------------------------------------
(* The row.                                                                *)

Link(i) == <<"link", i>>
Crumb(i) == <<"crumb", i>>
(* Mutant: the timeline keeps its length until the crumbs are folded.      *)
StepsCrumbsFirst ==
    <<<<"subtitle", 0>>>>
    \o [i \in 1..Links |-> Link(Links + 1 - i)]
    \o [i \in 1..Crumbs |-> Crumb(i)]
    \o <<<<"timeline", 0>>, <<"nav", 0>>, <<"title", 0>>, <<"current", 0>>>>

(* FOLD_ORDER.  The links fold from the right, the crumbs from the left.   *)
Steps ==
    <<<<"subtitle", 0>>>>
    \o [i \in 1..Links |-> Link(Links + 1 - i)]
    \o <<<<"timeline", 0>>>>
    \o [i \in 1..Crumbs |-> Crumb(i)]
    \o <<<<"nav", 0>>, <<"title", 0>>, <<"current", 0>>>>
Fold == {Steps[i] : i \in DOMAIN Steps}

(* ops, of the elements that there are: those of the providers in order.   *)
There(r, s) ==
    CASE s[1] = "link" -> s[2] <= r.links
      [] s[1] = "crumb" -> s[2] <= r.crumbs
      [] OTHER -> TRUE
Ops(r) == SelectSeq(Steps, LAMBDA s : There(r, s))

Widths == 0..(Links + Crumbs + 5)

RowTypeOK ==
    /\ row \in [width : Widths, subtitle : BOOLEAN, links : 0..Links, line : BOOLEAN,
                crumbs : 0..Crumbs]
    /\ {frozen, resized} \subseteq BOOLEAN
    /\ folds \subseteq Fold
    /\ rowActs \in 0..MaxRowActs
    /\ patched \subseteq {"title", "link", "crumb"}

(* What the row takes: the logo and the tools never fold.                  *)
Needs(r, fs) ==
    LET Takes(there, s) == IF there /\ s \notin fs THEN 1 ELSE 0
        linksTake == IF <<"nav", 0>> \in fs THEN 0
                     ELSE Cardinality({i \in 1..r.links : Link(i) \notin fs})
        crumbsTake == Cardinality({i \in 1..r.crumbs : Crumb(i) \notin fs})
    IN  1 + Takes(r.subtitle, <<"subtitle", 0>>) + Takes(r.line, <<"timeline", 0>>)
          + linksTake + crumbsTake + Takes(TRUE, <<"title", 0>>) + Takes(TRUE, <<"current", 0>>)

(* _rowFits.                                                               *)
Fits(r, fs) == Needs(r, fs) <= r.width

First(r, n) == {Ops(r)[i] : i \in 1..n}

(* relayout, over what stays folded: as few steps as make the row fit, or  *)
(* all of them.                                                            *)
Folded(r, base) ==
    LET enough == {n \in 0..Len(Ops(r)) : Fits(r, base \cup First(r, n))}
        n == IF enough = {} THEN Len(Ops(r)) ELSE CHOOSE n \in enough : \A k \in enough : n <= k
    IN  base \cup First(r, n)

(* What a layout starts from: all is unfolded first, unless it is frozen.  *)
Base(fs) == IF frozen THEN fs ELSE {}

RowInit ==
    /\ row \in [width : Widths, subtitle : BOOLEAN, links : {0}, line : BOOLEAN, crumbs : {0}]
    /\ frozen \in BOOLEAN /\ resized = FALSE /\ rowActs = 0 /\ patched = {}
    /\ folds = Folded(row, {})

RowAct == rowActs < MaxRowActs /\ rowActs' = rowActs + 1

(* Elements of one kind are drawn anew, unfolded; then comes a layout.     *)
Draw(r, kind) ==
    /\ RowAct /\ row' = r
    /\ folds' = Folded(r, Base({s \in folds : s[1] # kind}))
    /\ patched' = IF frozen THEN patched \cup {kind} ELSE {}
    /\ UNCHANGED <<frozen, resized>>

(* The trail arrives, filled by its plugin.                                *)
DrawTrail(n) == Draw([row EXCEPT !.crumbs = n], "crumb")

(* render of NavMenu, of other links: with its mount, a login, a setting.  *)
DrawMenu(n) == Draw([row EXCEPT !.links = n], "link")

(* SiteCrumb redraws when the root tags arrive.                            *)
DrawTitle == Draw(row, "title")

(* timeline:render.  Its short form is a class of the group, which stays.  *)
DrawLine ==
    /\ ~row.line /\ RowAct
    /\ row' = [row EXCEPT !.line = TRUE]
    /\ folds' = Folded(row', Base(folds))
    /\ patched' = IF frozen THEN patched ELSE {}
    /\ UNCHANGED <<frozen, resized>>

Resize(w) ==
    /\ w # row.width /\ RowAct /\ row' = [row EXCEPT !.width = w] /\ resized' = TRUE
    /\ UNCHANGED <<folds, frozen, patched>>

(* The ResizeObserver: it hears of the group's size.                       *)
Observe ==
    /\ resized /\ resized' = FALSE
    /\ folds' = Folded(row, Base(folds))
    /\ patched' = IF frozen THEN patched ELSE {}
    /\ UNCHANGED <<row, frozen, rowActs>>

Freeze ==
    /\ ~frozen /\ RowAct /\ frozen' = TRUE
    /\ UNCHANGED <<row, folds, resized, patched>>

(* Mutant: the header is left as it is when the map goes.                  *)
ThawAsItIs ==
    /\ frozen /\ frozen' = FALSE
    /\ UNCHANGED <<row, resized, rowActs, folds, patched>>

(* onHeaderThaw.                                                           *)
Thaw ==
    /\ frozen /\ frozen' = FALSE
    /\ folds' = Folded(row, {}) /\ patched' = {}
    /\ UNCHANGED <<row, resized, rowActs>>

RowNext ==
    \/ \E n \in 0..Crumbs : DrawTrail(n)
    \/ \E n \in 0..Links : DrawMenu(n)
    \/ DrawTitle \/ DrawLine \/ Observe \/ Freeze \/ Thaw
    \/ \E w \in Widths : Resize(w)

FoldedAway(kind) == {s \in folds : s[1] = kind /\ There(row, s)}
All == Len(Ops(row))

(* A row that has been laid out fits, or nothing more can fold; and, when  *)
(* it is not frozen, nothing is folded that the row had room for.          *)
RowIsLaidOut ==
    ~resized =>
        /\ Fits(row, folds) \/ First(row, All) \subseteq folds
        /\ ~frozen => \A n \in 0..All : Fits(row, First(row, n)) => folds \subseteq First(row, n)

(* The invariants that headerFold.ts lists: the timeline is short before a *)
(* crumb folds, and the current crumb is the last one to fold, after the   *)
(* ancestors and the site's title.  Only what was drawn anew over a frozen *)
(* row stands unfolded before its turn.                                    *)
FoldsInOrder ==
    /\ FoldedAway("crumb") # {} => <<"timeline", 0>> \in folds
    /\ <<"current", 0>> \in folds =>
        /\ "title" \in patched \/ <<"title", 0>> \in folds
        /\ "crumb" \in patched \/ Cardinality(FoldedAway("crumb")) = row.crumbs

-----------------------------------------------------------------------------
(* The dropdowns.                                                          *)

Header == {"crumb", "link", "row"}
Trigger == Header \cup {"tag"}
Spot == Trigger \cup {"more", "panel", "else"}
Shut == [open |-> FALSE, of |-> "crumb", old |-> FALSE]
NoTap == [on |-> "else", again |-> FALSE]

FlyTypeOK ==
    /\ {fine, icy, moreTimer, late, landed} \subseteq BOOLEAN
    /\ cursor \in Spot
    /\ flyout \in [open : BOOLEAN, of : Trigger, old : BOOLEAN]
    /\ resting \subseteq [of : Trigger, old : BOOLEAN]
    /\ more \in [open : BOOLEAN, zone : BOOLEAN]
    /\ moves \in 0..MaxMoves
    /\ tapped \in [on : Trigger \cup {"else"}, again : BOOLEAN]

MoreShut == [open |-> FALSE, zone |-> FALSE]

FlyInit ==
    /\ fine \in BOOLEAN /\ icy \in BOOLEAN /\ cursor = "else"
    /\ flyout = Shut /\ resting = {} /\ more = MoreShut /\ moreTimer = FALSE
    /\ moves = 0 /\ late = FALSE /\ tapped = NoTap /\ landed = FALSE

Act == moves < MaxMoves /\ moves' = moves + 1
Plain == tapped' = NoTap /\ landed' = FALSE

(* Rows are there while the More panel is open.                            *)
InMore(x) == x \in {"row", "more"}
Seen(x) == x = "row" => more.open

AnchoredIn(x) == flyout.open /\ ~flyout.old /\ flyout.of = x

(* _hideFlyout, and showCrumbDropdown.                                     *)
Hide == flyout' = Shut /\ late' = FALSE
Show(t, old, hiddenRow) ==
    /\ flyout' = [open |-> TRUE, of |-> t, old |-> old]
    /\ late' = (old \/ hiddenRow)
Same == UNCHANGED <<flyout, late>>

(* Mutant: the More panel that closes closes any dropdown.                 *)
HiddenWithMoreAny == flyout.open

(* hideFlyoutWithin, by _closeMore: only a dropdown of one of its rows.    *)
HiddenWithMore == AnchoredIn("row")

(* The mouse moves: the timers of what it leaves stop, those of what it    *)
(* enters start, and zones that it is out of close (createHotZone).        *)
MouseTo(x) ==
    /\ fine /\ x # cursor /\ Seen(x) /\ (x = "panel" => flyout.open) /\ Act
    /\ cursor' = x
    /\ resting' = {r \in resting : r.old \/ r.of # cursor}
        \cup (IF x \in Trigger THEN {[of |-> x, old |-> FALSE]} ELSE {})
    /\ LET out == more.open /\ more.zone /\ ~InMore(x) /\ x # "panel"
           closes == flyout.open /\ x # "panel" /\ ~AnchoredIn(x)
       IN  /\ more' = IF out THEN MoreShut ELSE more
           /\ moreTimer' = IF out \/ (InMore(cursor) /\ ~InMore(x)) THEN FALSE
                           ELSE moreTimer \/ (InMore(x) /\ ~InMore(cursor))
           /\ IF closes \/ (out /\ HiddenWithMore) THEN Hide ELSE Same
    /\ Plain /\ UNCHANGED <<fine, icy>>

(* HOVER_OPEN_MS after the mouse came to rest.                             *)
Open(r) ==
    /\ r \in resting /\ resting' = resting \ {r}
    /\ Show(r.of, r.old, ~Seen(r.of))
    /\ Plain /\ UNCHANGED <<fine, icy, cursor, more, moreTimer, moves>>

OpenMore ==
    /\ moreTimer /\ moreTimer' = FALSE
    /\ more' = [open |-> TRUE, zone |-> TRUE]
    /\ Plain /\ UNCHANGED <<fine, icy, cursor, flyout, resting, moves, late>>

(* The More button toggles its panel, and a panel that a click opened      *)
(* stays until it is clicked away.                                         *)
ClickMore ==
    /\ Act /\ moreTimer' = FALSE
    /\ more' = IF more.open THEN MoreShut ELSE [open |-> TRUE, zone |-> FALSE]
    /\ IF more.open /\ HiddenWithMore THEN Hide ELSE Same
    /\ Plain /\ UNCHANGED <<fine, icy, cursor, resting>>

(* A click outside closes the More panel first, while it is captured.      *)
MoreAfter(x) == IF InMore(x) \/ ~more.open THEN more ELSE MoreShut
MoreTimerAfter(x) == moreTimer /\ (InMore(x) \/ ~more.open)

(* Mutant: a click anywhere outside the panel closes it, its own header's  *)
(* triggers included.                                                      *)
DismissedAnywhere(x) == flyout.open

(* _flyoutDismiss: clicks in the header spare a dropdown of the header,    *)
(* and clicks on a card that card's.                                       *)
Dismissed(x) ==
    flyout.open /\ ~(x \in Header /\ flyout.of \in Header) /\ ~(x = "tag" /\ flyout.of = "tag")

(* Mutant: the More panel's timer runs on over the links that are drawn.   *)
StoppedNever == moreTimer

(* _wireInline stops the More panel's timer.                               *)
Stopped == FALSE

(* Another page, or another draw of all: the timers of the header's        *)
(* triggers run on, those of cards are stopped.                            *)
Outlived == {[r EXCEPT !.old = TRUE] : r \in {r \in resting : r.of \in Header}}

Leave ==
    /\ Hide
    /\ resting' = Outlived
    /\ more' = MoreShut /\ moreTimer' = FALSE /\ cursor' = "else"

(* attachFlyoutTrigger, by a finger: the first tap opens the dropdown, the *)
(* second one follows the link.                                            *)
Tap(t) ==
    /\ t \in Header /\ Seen(t) /\ Act
    /\ tapped' = [on |-> t, again |-> AnchoredIn(t)]
    /\ IF AnchoredIn(t) /\ ~Dismissed(t) /\ ~(more.open /\ ~InMore(t) /\ HiddenWithMore)
       THEN /\ landed' = TRUE
            /\ Hide /\ more' = MoreShut /\ moreTimer' = FALSE /\ cursor' = "else"
            /\ resting' = {[r EXCEPT !.old = TRUE] : r \in
                {r \in resting : r.of \in Header /\ (r.old \/ r.of # t)}}
       ELSE /\ landed' = FALSE
            /\ Show(t, FALSE, FALSE)
            /\ more' = MoreAfter(t) /\ moreTimer' = MoreTimerAfter(t)
            /\ resting' = resting \ {[of |-> t, old |-> FALSE]}
            /\ UNCHANGED cursor
    /\ UNCHANGED <<fine, icy>>

(* A finger rests on a card's tag.                                         *)
LongPress ==
    /\ Act /\ Show("tag", FALSE, FALSE)
    /\ Plain /\ UNCHANGED <<fine, icy, cursor, resting, more, moreTimer>>

(* The mouse clicks the trigger that it is on, an item of the panel, or    *)
(* what is elsewhere.                                                      *)
Follow ==
    /\ fine /\ cursor \in Trigger \cup {"panel"} /\ Act
    /\ Hide
    /\ more' = MoreShut /\ moreTimer' = FALSE /\ cursor' = "else"
    /\ resting' = {[r EXCEPT !.old = TRUE] : r \in
        {r \in resting : r.of \in Header /\ (r.old \/ r.of # cursor)}}
    /\ tapped' = NoTap /\ landed' = TRUE /\ UNCHANGED <<fine, icy>>

ClickAway ==
    /\ Act
    /\ more' = MoreAfter("else") /\ moreTimer' = MoreTimerAfter("else")
    /\ Hide
    /\ Plain /\ UNCHANGED <<fine, icy, cursor, resting>>

(* The grid is drawn anew, or scrolled away under the panel.               *)
DrawCards ==
    /\ Act /\ Hide
    /\ resting' = {r \in resting : r.of # "tag"}
    /\ cursor' = IF cursor = "tag" THEN "else" ELSE cursor
    /\ Plain /\ UNCHANGED <<fine, icy, more, moreTimer>>

(* NavMenu draws its links anew, More closed; the layout that follows      *)
(* closes the dropdown, whoever's it is, but not in a frozen header.       *)
DrawLinks ==
    LET gone == {"link", "row"}
    IN  /\ Act
        /\ resting' = {[r EXCEPT !.old = @ \/ r.of \in gone] : r \in resting}
        /\ more' = MoreShut /\ moreTimer' = Stopped
        /\ cursor' = IF cursor \in gone \cup {"more"} THEN "else" ELSE cursor
        /\ IF icy THEN flyout' = [flyout EXCEPT !.old = flyout.open /\ (@ \/ flyout.of \in gone)]
                       /\ UNCHANGED late
           ELSE Hide
        /\ Plain /\ UNCHANGED <<fine, icy>>

(* SiteCrumb draws itself anew: it closes its own dropdown.                *)
DrawCrumb ==
    /\ Act
    /\ resting' = {[r EXCEPT !.old = @ \/ r.of = "crumb"] : r \in resting}
    /\ cursor' = IF cursor = "crumb" THEN "else" ELSE cursor
    /\ IF icy /\ ~AnchoredIn("crumb") THEN Same ELSE Hide
    /\ Plain /\ UNCHANGED <<fine, icy, more, moreTimer>>

(* A layout: it closes the dropdown and draws the rows of More anew.       *)
Layout ==
    /\ ~icy /\ Act
    /\ Hide
    /\ resting' = {[r EXCEPT !.old = @ \/ r.of = "row"] : r \in resting}
    /\ cursor' = IF cursor = "row" THEN "more" ELSE cursor
    /\ Plain /\ UNCHANGED <<fine, icy, more, moreTimer>>

(* By the keyboard, Back, or a timer of the page.                          *)
Away == Act /\ Leave /\ Plain /\ UNCHANGED <<fine, icy>>

FlyNext ==
    \/ \E x \in Spot : MouseTo(x)
    \/ \E r \in resting : Open(r)
    \/ \E t \in Header : Tap(t)
    \/ OpenMore \/ ClickMore \/ LongPress \/ Follow \/ ClickAway
    \/ DrawCards \/ DrawLinks \/ DrawCrumb \/ Layout \/ Away

(* A dropdown hangs on something that is on the screen, unless a timer     *)
(* outlived the trigger it was for, or the links were drawn anew under a   *)
(* map, where no layout follows.                                           *)
AnchorStands ==
    flyout.open /\ ~late =>
        /\ flyout.old => icy /\ flyout.of \in {"link", "row"}
        /\ AnchoredIn("row") => more.open

(* A tap on a closed trigger leaves its dropdown open: nothing that hears  *)
(* the same tap closes it.  A tap on an open one follows the link.         *)
TapsAreOne ==
    /\ tapped.on # "else" /\ ~tapped.again => AnchoredIn(tapped.on) /\ Seen(tapped.on)
    /\ tapped.again => landed

(* A More panel that the mouse opened goes when the mouse leaves it, for   *)
(* anything but a dropdown.                                                *)
MoreFollowsMouse ==
    more.open /\ more.zone => InMore(cursor) \/ cursor = "panel"

=============================================================================
