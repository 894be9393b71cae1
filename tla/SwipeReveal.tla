---------------------------- MODULE SwipeReveal -----------------------------
(***************************************************************************)
(* The rows of the lists of posts, tags and comments under a finger: a     *)
(* swipe to the left uncovers a row's buttons, one to the right ticks the  *)
(* row (PostsListPage._bindSwipeToReveal, light/tags/tagGestures.ts,       *)
(* CommentsAdminPage._bindSwipeToReveal).  One set of variables serves all *)
(* rows, and the events of a touch go to the row where it landed.          *)
(***************************************************************************)
EXTENDS Integers, FiniteSets

CONSTANTS
    Lines,      \* the rows of the list: positive numbers
    Wide,       \* bound: a finger is at 0..Wide
    MaxSwipes   \* bound: fingers that land

VARIABLES
    surface,   \* the page: "posts", "tags" or "comments"
    reveal,    \* openCard, where each row lies, and those with the mark of an open row
    swipe,     \* startX, decided, dragging and dx
    tips,      \* the finger on each row: where it is, and where it landed
    strays,    \* fingers on rows that a redraw has removed
    landings,
    (* history *)
    outcome,   \* the last touch that ended: what it did, and which way it had gone
    crowd      \* the rows whose touch was not taken over, or not alone

swipeVars == <<surface, reveal, swipe, tips, strays, landings, outcome, crowd>>

None == 0
NoTip == [on |-> FALSE, at |-> 0, from |-> 0]
Threshold == 1
Outcomes == {"close", "snap-open", "open", "select", "reset", "none"}

TypeOK ==
    /\ surface \in {"posts", "tags", "comments"}
    /\ reveal.row \in Lines \cup {None} /\ reveal.shown \subseteq Lines
    /\ reveal.lie \in [Lines -> {"rest", "open", "dragged"}]
    /\ swipe \in [origin : 0..Wide, decided : BOOLEAN, dragging : BOOLEAN, dx : -Wide..Wide]
    /\ tips \in [Lines -> [on : BOOLEAN, at : 0..Wide, from : 0..Wide]]
    /\ strays \in 0..MaxSwipes /\ landings \in 0..MaxSwipes
    /\ outcome.did \in Outcomes /\ outcome.went \in -1..1 /\ outcome.alone \in BOOLEAN
    /\ crowd \subseteq Lines

AtRest == [row |-> None, lie |-> [r \in Lines |-> "rest"], shown |-> {}]
NoSwipe == [origin |-> 0, decided |-> FALSE, dragging |-> FALSE, dx |-> 0]

Init ==
    /\ surface \in {"posts", "tags", "comments"}
    /\ reveal = AtRest /\ swipe = NoSwipe
    /\ tips = [r \in Lines |-> NoTip] /\ strays = 0 /\ landings = 0
    /\ outcome = [did |-> "none", went |-> 0, alone |-> TRUE] /\ crowd = {}

(* e.touches: all fingers on the screen.                                   *)
Touches == Cardinality({r \in Lines : tips[r].on}) + strays

(* closeOpen.                                                              *)
Closed(look) ==
    IF look.row = None THEN look
    ELSE [row |-> None, lie |-> [look.lie EXCEPT ![look.row] = "rest"],
          shown |-> look.shown \ {look.row}]

(* A drag or a tap on row r closes another open row at once, except in the *)
(* list of comments.                                                       *)
OthersClosed(r) ==
    IF surface # "comments" /\ reveal.row # r THEN Closed(reveal) ELSE reveal

(* Which way a touch has gone, if past the threshold.                      *)
Went(t) == IF t.at < t.from - Threshold THEN -1 ELSE IF t.at > t.from + Threshold THEN 1 ELSE 0

-----------------------------------------------------------------------------
(* Mutant: a new touch goes on with the drag of the one before.            *)
BegunAsBefore(x) == [swipe EXCEPT !.origin = x]

Begun(x) == [origin |-> x, decided |-> FALSE, dragging |-> FALSE, dx |-> 0]

(* touchstart; inside: on the buttons of the row, which it then leaves to  *)
(* handle their taps.                                                      *)
Start(r, x, inside) ==
    LET taken == Touches = 0 /\ ~inside
    IN  /\ ~tips[r].on /\ landings < MaxSwipes /\ landings' = landings + 1
        /\ inside => reveal.row = r
        /\ tips' = [tips EXCEPT ![r] = [on |-> TRUE, at |-> x, from |-> x]]
        /\ swipe' = IF taken THEN Begun(x) ELSE swipe
        /\ crowd' = IF taken THEN {}
                    ELSE IF Touches = 0 THEN {r} ELSE Lines
        /\ UNCHANGED <<surface, reveal, strays, outcome>>

(* touchmove along the row: once it has gone some way the direction is     *)
(* fixed, until a touch is taken over anew.                                *)
Move(r, x) ==
    LET raw == x - swipe.origin
        turns == ~swipe.decided /\ raw # 0
    IN  /\ tips[r].on /\ x # tips[r].at
        /\ tips' = [tips EXCEPT ![r].at = x]
        /\ IF Touches = 1 /\ (swipe.dragging \/ turns)
           THEN /\ swipe' = [swipe EXCEPT !.decided = TRUE, !.dragging = TRUE, !.dx = raw]
                /\ reveal' = [(IF turns THEN OthersClosed(r) ELSE reveal)
                                EXCEPT !.lie[r] = "dragged"]
           ELSE UNCHANGED <<swipe, reveal>>
        /\ UNCHANGED <<surface, strays, landings, outcome, crowd>>

(* touchmove along the page.                                               *)
Scroll(r) ==
    /\ tips[r].on /\ Touches = 1 /\ ~swipe.decided
    /\ swipe' = [swipe EXCEPT !.decided = TRUE]
    /\ UNCHANGED <<surface, reveal, tips, strays, landings, outcome, crowd>>

(* swipeOutcome.                                                           *)
Outcome(r) ==
    IF reveal.row = r THEN IF swipe.dx > Threshold THEN "close" ELSE "snap-open"
    ELSE IF swipe.dx < -Threshold THEN "open"
    ELSE IF swipe.dx > Threshold THEN "select" ELSE "reset"

(* Mutant: the row that was open stays so beside the new one.              *)
OpenedBeside(r) ==
    [row |-> r, lie |-> [reveal.lie EXCEPT ![r] = "open"], shown |-> reveal.shown \cup {r}]

(* An action drawer is revealed.                                           *)
Opened(r) ==
    LET look == Closed(reveal)
    IN  [row |-> r, lie |-> [look.lie EXCEPT ![r] = "open"], shown |-> look.shown \cup {r}]

Settled(r, did) ==
    CASE did = "close" -> Closed(reveal)
      [] did = "snap-open" -> [reveal EXCEPT !.lie[r] = "open"]
      [] did = "open" -> Opened(r)
      [] did \in {"select", "reset"} -> [reveal EXCEPT !.lie[r] = "rest"]
      [] did = "none" -> OthersClosed(r)

(* The list is drawn anew: the cleanup ends the listeners, and the fingers *)
(* are left on rows that are gone.                                         *)
Drawn ==
    /\ reveal' = AtRest /\ swipe' = NoSwipe /\ crowd' = {}
    /\ tips' = [r \in Lines |-> NoTip]

(* touchend; a tick redraws the lists of posts and comments.               *)
End(r) ==
    LET did == IF swipe.dragging THEN Outcome(r) ELSE "none"
    IN  /\ tips[r].on
        /\ outcome' = [did |-> did, went |-> Went(tips[r]), alone |-> r \notin crowd]
        /\ IF did = "select" /\ surface # "tags"
           THEN Drawn /\ strays' = Touches - 1
           ELSE /\ reveal' = Settled(r, did) /\ tips' = [tips EXCEPT ![r] = NoTip]
                /\ UNCHANGED <<swipe, strays, crowd>>
        /\ UNCHANGED <<surface, landings>>

(* touchcancel: the browser has taken the touch over to scroll.            *)
Cancel(r) ==
    /\ tips[r].on /\ tips' = [tips EXCEPT ![r] = NoTip]
    /\ reveal' = [reveal EXCEPT !.lie[r] = IF reveal.row = r THEN "open" ELSE "rest"]
    /\ UNCHANGED <<surface, swipe, strays, landings, outcome, crowd>>

(* A click outside the open row.                                           *)
ClickAway ==
    /\ reveal.row # None /\ Touches = 0 /\ reveal' = Closed(reveal)
    /\ UNCHANGED <<surface, swipe, tips, strays, landings, outcome, crowd>>

(* An answer draws the list anew, under whatever finger.                   *)
Redraw ==
    /\ Touches > 0 /\ landings < MaxSwipes /\ Drawn /\ strays' = Touches
    /\ UNCHANGED <<surface, landings, outcome>>

LiftStray ==
    /\ strays > 0 /\ strays' = strays - 1
    /\ UNCHANGED <<surface, reveal, swipe, tips, landings, outcome, crowd>>

Next ==
    \/ \E r \in Lines :
        \/ Scroll(r) \/ End(r) \/ Cancel(r)
        \/ \E x \in 0..Wide : Move(r, x) \/ \E inside \in BOOLEAN : Start(r, x, inside)
    \/ ClickAway \/ Redraw \/ LiftStray

(***************************************************************************)
(* Properties.                                                             *)
(***************************************************************************)

(* With no finger on the list at most one row lies open, the one that a    *)
(* click elsewhere closes and that alone has the mark; no row is left      *)
(* half-way, whichever fingers came and went.                              *)
OneRowOpen ==
    (\A r \in Lines : ~tips[r].on) =>
        /\ reveal.shown = {reveal.row} \ {None}
        /\ \A r \in Lines : reveal.lie[r] = IF r = reveal.row THEN "open" ELSE "rest"

(* A row opens, closes or is ticked by a finger that has moved that way on *)
(* it, past the threshold; unless there were two fingers, or the touch     *)
(* began on the open row's buttons and so was measured from the last one.  *)
SwipesAreMade ==
    outcome.alone =>
        /\ outcome.did = "open" => outcome.went = -1
        /\ outcome.did \in {"close", "select"} => outcome.went = 1

=============================================================================
