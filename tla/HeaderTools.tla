---------------------------- MODULE HeaderTools ----------------------------
(***************************************************************************)
(* The public header as pages mount it (plugins/public-header), with what  *)
(* it mounts in turn: the menu (plugins/nav-menu), which waits for the     *)
(* navigation, and the full-screen toggle of the lists of posts            *)
(* (plugins/distraction-free), which sets classes on the body and hears    *)
(* flicks over the grid.  Every draw of a page fills its header anew, and  *)
(* the first fills wait for the plugins' chunks.                           *)
(*                                                                         *)
(* And its search box with the suggestions below it: typing asks for posts *)
(* and tags after a pause, and the answers are not numbered.  The place    *)
(* where they are drawn is found by its id, whichever header asked.  The   *)
(* two halves share no variable.                                           *)
(*                                                                         *)
(* Left out: what the header shows, its folds and its dropdowns            *)
(* (HeaderRow).                                                            *)
(***************************************************************************)
EXTENDS Naturals, FiniteSets, Sequences, SequencesExt

CONSTANTS
    Draws,       \* bound: draws of pages
    MaxBarActs,  \* bound: taps, flicks and failures
    Asked,       \* bound: suggestions asked for and not answered
    MaxFindActs  \* bound: what the visitor does in the box, and requests that fail

VARIABLES
    draw,      \* the draw whose elements are in the document
    pageOf,    \* pageOf[r]: the page that was drawn
    lists,     \* pages that are lists of posts
    bars,      \* bars[r]: the header that draw r filled
    menus,     \* bars' menus
    tools,     \* bars' full-screen toggles
    chunk,     \* the header's chunk and the toggle's: "out", "in" or "lost"
    navIn,     \* the navigation is in the store
    fullPref,  \* localStorage: distraction-free
    cover,     \* classes of the body: distraction-free, distraction-overlay
    barActs,
    (* history *)
    early,     \* headers whose page was left before they were mounted
    stripped,  \* the body's classes were taken off by a toggle that was late
    (* the search box *)
    box,      \* the box is open
    entry,    \* what is typed: a word (which is long enough), or "" (too short)
    pause,    \* what the timer of the pause will ask for, or "": whether for a header that is
              \* gone, and whether the box was closed since
    hints,    \* suggestions under way, oldest first
    heeding,  \* _typeaheadActive of the header, and of the one before it
    recent,   \* recent searches are stored
    offered,  \* what is drawn below the box
    findActs,
    (* history *)
    why       \* what made the suggestions that are drawn improper

barVars == <<draw, pageOf, lists, bars, menus, tools, chunk, navIn, fullPref, cover, barActs,
             early, stripped>>
findVars == <<box, entry, pause, hints, heeding, recent, offered, findActs, why>>

Draw == 1..Draws
NoBar == [st |-> "none", kept |-> FALSE]
NoTool == [st |-> "none", on |-> FALSE, overlay |-> FALSE, at |-> "off"]
Bare == [mode |-> FALSE, overlay |-> FALSE]

BarTypeOK ==
    /\ draw \in Draw /\ pageOf \in [Draw -> 0..Draws] /\ lists \subseteq Draw
    /\ bars \in [Draw -> [st : {"none", "filling", "up", "down"}, kept : BOOLEAN]]
    /\ menus \in [Draw -> {"none", "loading", "up", "down"}]
    /\ tools \in [Draw -> [st : {"none", "filling", "up", "down"}, on : BOOLEAN,
                           overlay : BOOLEAN, at : {"off", "slot", "body"}]]
    /\ chunk \in [{"header", "tool"} -> {"out", "in", "lost"}]
    /\ {navIn, fullPref, stripped} \subseteq BOOLEAN
    /\ cover \in [mode : BOOLEAN, overlay : BOOLEAN]
    /\ barActs \in 0..MaxBarActs /\ early \subseteq Draw

Page == pageOf[draw]
Listing(r) == pageOf[r] \in lists

BarInit ==
    /\ draw = 1 /\ pageOf = [r \in Draw |-> IF r = 1 THEN 1 ELSE 0]
    /\ lists \in {{}, {1}}
    /\ bars = [r \in Draw |-> IF r = 1 THEN [st |-> "filling", kept |-> FALSE] ELSE NoBar]
    /\ menus = [r \in Draw |-> "none"]
    /\ tools = [r \in Draw |-> NoTool]
    /\ chunk = [c \in {"header", "tool"} |-> "out"]
    /\ navIn = FALSE /\ fullPref \in BOOLEAN /\ cover = Bare
    /\ barActs = 0 /\ early = {} /\ stripped = FALSE

-----------------------------------------------------------------------------
(* Headers mount once their chunk is in.                                   *)

(* mount of nav-menu: it waits for the navigation unless that is in.       *)
MenuMounted == IF navIn THEN "up" ELSE "loading"

(* Headers rs mount: a page that is gone by then keeps nothing.            *)
BarsMount(rs, page) ==
    /\ bars' = [r \in Draw |->
            IF r \in rs THEN [st |-> "up", kept |-> pageOf[r] = page] ELSE bars[r]]
    /\ menus' = [r \in Draw |-> IF r \in rs THEN MenuMounted ELSE menus[r]]

(* mount of distraction-free for toggles rs, one after another: each       *)
(* removes the buttons that lie in the body.  Those whose header is gone   *)
(* are unmounted when all are mounted, which clears the body.              *)
ToolsMount(rs, dead) ==
    LET last == CHOOSE r \in rs : \A q \in rs : q <= r
        Placed(r) == [st |-> "up", on |-> fullPref, overlay |-> FALSE,
                      at |-> IF ~fullPref THEN "slot" ELSE IF r = last THEN "body" ELSE "off"]
    IN  /\ tools' = [r \in Draw |->
                IF r \in rs \cap dead THEN [NoTool EXCEPT !.st = "down"]
                ELSE IF r \in rs THEN Placed(r)
                ELSE [tools[r] EXCEPT !.at = IF @ = "body" THEN "off" ELSE @]]
        /\ cover' = [Bare EXCEPT !.mode = fullPref /\ rs \cap dead = {}]
        /\ stripped' = (fullPref /\ rs \cap dead # {})

Ready(rs) == {r \in rs : Listing(r)}

(* What headers rs that mount now do with their toggles.                   *)
AskTools(rs) ==
    IF Ready(rs) = {} \/ chunk["tool"] = "lost" THEN UNCHANGED <<tools, cover, stripped>>
    ELSE IF chunk["tool"] = "in" THEN ToolsMount(Ready(rs), {})
    ELSE /\ tools' = [r \in Draw |-> IF r \in Ready(rs) THEN [NoTool EXCEPT !.st = "filling"]
                                     ELSE tools[r]]
         /\ UNCHANGED <<cover, stripped>>

Fill(rs) ==
    /\ BarsMount(rs, Page)
    /\ AskTools(rs)

Filling == {r \in Draw : bars[r].st = "filling"}

HeaderIn ==
    /\ chunk["header"] = "out" /\ chunk' = [chunk EXCEPT !["header"] = "in"]
    /\ Fill(Filling)
    /\ UNCHANGED <<draw, pageOf, lists, navIn, fullPref, barActs, early>>

(* A chunk that does not load is not asked for again.                      *)
Lost(c) ==
    /\ chunk[c] = "out" /\ barActs < MaxBarActs /\ barActs' = barActs + 1
    /\ c = "tool" => \E r \in Draw : tools[r].st = "filling"
    /\ chunk' = [chunk EXCEPT ![c] = "lost"]
    /\ IF c = "header"
       THEN bars' = [r \in Draw |-> IF r \in Filling THEN [NoBar EXCEPT !.st = "down"] ELSE bars[r]]
            /\ UNCHANGED tools
       ELSE tools' = [r \in Draw |-> IF tools[r].st = "filling" THEN [NoTool EXCEPT !.st = "down"]
                                     ELSE tools[r]]
            /\ UNCHANGED bars
    /\ UNCHANGED <<draw, pageOf, lists, menus, navIn, fullPref, cover, early, stripped>>

ToolIn ==
    LET rs == {r \in Draw : tools[r].st = "filling"}
    IN  /\ chunk["tool"] = "out" /\ rs # {}
        /\ chunk' = [chunk EXCEPT !["tool"] = "in"]
        /\ ToolsMount(rs, {r \in rs : bars[r].st # "up"})
        /\ UNCHANGED <<draw, pageOf, lists, bars, menus, navIn, fullPref, barActs, early>>

(* Mutant: a menu that arrives late is kept, whatever became of its header. *)
KeptMenuAlways(r) == "up"

(* _keepSlotMounts.                                                        *)
KeptMenu(r) == IF bars[r].st = "up" THEN "up" ELSE "down"

(* The navigation, which the menus that wait share.                        *)
NavAnswer(ok) ==
    /\ \E r \in Draw : menus[r] = "loading"
    /\ IF ok THEN UNCHANGED barActs ELSE barActs < MaxBarActs /\ barActs' = barActs + 1
    /\ navIn' = ok
    /\ menus' = [r \in Draw |-> IF menus[r] = "loading" THEN KeptMenu(r) ELSE menus[r]]
    /\ UNCHANGED <<draw, pageOf, lists, bars, tools, chunk, fullPref, cover, early, stripped>>

-----------------------------------------------------------------------------
(* A draw of a page unmounts the headers it keeps and fills another.       *)
Ends == {r \in Draw : bars[r].st = "up" /\ bars[r].kept /\ pageOf[r] = Page}

(* Mutant: a header that goes leaves its full-screen toggle behind.        *)
UnmountedLeaving(r) == tools[r]

(* beforeUnmount: a toggle that is not there yet is unmounted on arrival.  *)
Unmounted(r) == IF tools[r].st = "up" THEN [NoTool EXCEPT !.st = "down"] ELSE tools[r]

Drawn(page) ==
    LET r == draw + 1
        ends == Ends
        tools0 == [q \in Draw |-> IF q \in ends THEN Unmounted(q) ELSE tools[q]]
        cleared == \E q \in ends : tools[q].st = "up" /\ tools0[q].st = "down"
        direct == chunk["header"] = "in"
        tool == direct /\ page \in lists' /\ chunk["tool"] # "lost"
        placed == tool /\ chunk["tool"] = "in"
    IN  /\ draw < Draws /\ draw' = r
        /\ pageOf' = [pageOf EXCEPT ![r] = page]
        /\ bars' = [q \in Draw |->
                IF q = r
                THEN [st |-> IF direct THEN "up" ELSE IF chunk["header"] = "out" THEN "filling"
                             ELSE "down",
                      kept |-> direct]
                ELSE IF q \in ends THEN [NoBar EXCEPT !.st = "down"] ELSE bars[q]]
        /\ menus' = [q \in Draw |->
                IF q = r THEN IF direct THEN MenuMounted ELSE "none"
                ELSE IF q \in ends /\ menus[q] = "up" THEN "down" ELSE menus[q]]
        /\ tools' = [q \in Draw |->
                IF q = r
                THEN IF placed THEN [st |-> "up", on |-> fullPref, overlay |-> FALSE,
                                     at |-> IF fullPref THEN "body" ELSE "slot"]
                     ELSE IF tool THEN [NoTool EXCEPT !.st = "filling"] ELSE NoTool
                ELSE [tools0[q] EXCEPT !.at = IF placed /\ @ = "body" THEN "off" ELSE @]]
        /\ cover' = IF placed THEN [Bare EXCEPT !.mode = fullPref]
                    ELSE IF cleared THEN Bare ELSE cover
        /\ stripped' = (stripped /\ ~placed)
        /\ UNCHANGED <<chunk, navIn, fullPref, barActs>>

(* setState, as when the posts arrive.                                     *)
Redraw ==
    /\ lists' = lists /\ Drawn(Page)
    /\ UNCHANGED early

(* Another page, a list or not: Page counts up.                            *)
Visit(listing) ==
    /\ lists' = IF listing THEN lists \cup {Page + 1} ELSE lists
    /\ Drawn(Page + 1)
    /\ early' = early \cup {r \in Filling : pageOf[r] = Page}

-----------------------------------------------------------------------------
Heard == {r \in Draw : tools[r].st = "up" /\ tools[r].on}
BarAct == barActs < MaxBarActs /\ barActs' = barActs + 1

(* toggle, by the button: it is in the body, or in the header on screen.   *)
Tap(r) ==
    /\ tools[r].st = "up" /\ BarAct
    /\ tools[r].at = "body" \/ (tools[r].at = "slot" /\ r = draw /\ ~cover.mode)
    /\ LET on == ~tools[r].on
       IN  /\ tools' = [tools EXCEPT ![r].on = on, ![r].overlay = FALSE,
                                     ![r].at = IF on THEN "body" ELSE "slot"]
           /\ fullPref' = on /\ cover' = [Bare EXCEPT !.mode = on]
    /\ stripped' = FALSE
    /\ UNCHANGED <<draw, pageOf, lists, bars, menus, chunk, navIn, early>>

(* A flick down with nothing raised leaves the mode.                       *)
Leaves(r) == ~tools[r].overlay

(* onVerticalSwipe, in every toggle that is mounted.                       *)
Flick(up) ==
    LET go == IF up THEN {} ELSE {r \in Heard : Leaves(r)}
    IN  /\ Listing(draw) /\ Heard # {} /\ BarAct
        /\ tools' = [r \in Draw |->
                IF r \in go THEN [tools[r] EXCEPT !.on = FALSE, !.overlay = FALSE, !.at = "slot"]
                ELSE IF r \in Heard THEN [tools[r] EXCEPT !.overlay = up] ELSE tools[r]]
        /\ cover' = [mode |-> cover.mode /\ go = {}, overlay |-> up]
        /\ fullPref' = (fullPref /\ go = {})
        /\ stripped' = (stripped /\ go = {})
        /\ UNCHANGED <<draw, pageOf, lists, bars, menus, chunk, navIn, early>>

BarNext ==
    \/ HeaderIn \/ ToolIn
    \/ \E c \in {"header", "tool"} : Lost(c)
    \/ \E ok \in BOOLEAN : NavAnswer(ok)
    \/ Redraw
    \/ \E l \in BOOLEAN : Visit(l)
    \/ \E r \in Draw : Tap(r)
    \/ \E up \in BOOLEAN : Flick(up)

-----------------------------------------------------------------------------
(* The search box.                                                         *)

Word == {"w1", "w2"}
Nothing == [of |-> "", open |-> FALSE]
NoPause == [word |-> "", old |-> FALSE, shut |-> FALSE]
Cause == {"overtaken", "closed", "stray", "failed"}

FindTypeOK ==
    /\ {box, recent} \subseteq BOOLEAN /\ entry \in Word \cup {""}
    /\ pause \in [word : Word \cup {""}, old : BOOLEAN, shut : BOOLEAN]
    /\ hints \in Seq([word : Word, old : BOOLEAN, shut : BOOLEAN, late : BOOLEAN])
    /\ Len(hints) <= Asked
    /\ heeding \in [now : BOOLEAN, old : BOOLEAN]
    /\ offered \in [of : Word \cup {"", "recent"}, open : BOOLEAN]
    /\ findActs \in 0..MaxFindActs
    /\ why \subseteq Cause

FindInit ==
    /\ box = FALSE /\ entry = "" /\ pause = NoPause /\ hints = <<>>
    /\ heeding = [now |-> FALSE, old |-> FALSE]
    /\ recent \in BOOLEAN /\ offered = Nothing /\ findActs = 0 /\ why = {}

FindAct == findActs < MaxFindActs /\ findActs' = findActs + 1

(* _hideTypeahead.                                                         *)
Hidden == offered' = Nothing /\ why' = {} /\ heeding' = [heeding EXCEPT !.now = FALSE]

(* The box opens with the focus in it: recent searches, if there are any.  *)
Focus ==
    /\ ~box /\ FindAct /\ box' = TRUE
    /\ IF entry = "" /\ recent
       THEN offered' = [of |-> "recent", open |-> TRUE] /\ why' = {}
       ELSE UNCHANGED <<offered, why>>
    /\ UNCHANGED <<entry, pause, hints, heeding, recent>>

Type(w) ==
    /\ box /\ w # entry /\ FindAct /\ entry' = w
    /\ pause' = [NoPause EXCEPT !.word = w]
    /\ IF w = "" THEN Hidden ELSE UNCHANGED <<offered, heeding, why>>
    /\ UNCHANGED <<box, hints, recent>>

(* 300 ms later: _showTypeahead.                                           *)
Fire ==
    /\ pause.word # "" /\ pause' = NoPause /\ Len(hints) < Asked
    /\ hints' = Append(hints, [word |-> pause.word, old |-> pause.old, shut |-> pause.shut,
                               late |-> FALSE])
    /\ heeding' = IF pause.old THEN [heeding EXCEPT !.old = TRUE] ELSE [heeding EXCEPT !.now = TRUE]
    /\ UNCHANGED <<box, entry, recent, offered, findActs, why>>

(* Mutant: an answer is drawn even when the suggestions were put away.     *)
HeedsAll(h) == TRUE

Heeds(h) == IF h.old THEN heeding.old ELSE heeding.now

Causes(h) ==
    {c \in Cause : \/ c = "overtaken" /\ h.late
                   \/ c = "closed" /\ h.shut
                   \/ c = "stray" /\ h.old}

Settled(k) ==
    /\ k \in DOMAIN hints
    /\ hints' = RemoveAt([j \in DOMAIN hints |-> [hints[j] EXCEPT !.late = @ \/ j < k]], k)

Answer(k) ==
    /\ Settled(k)
    /\ LET h == hints[k]
       IN  IF Heeds(h) THEN offered' = [of |-> h.word, open |-> TRUE] /\ why' = Causes(h)
           ELSE UNCHANGED <<offered, why>>
    /\ UNCHANGED <<box, entry, pause, heeding, recent, findActs>>

Fails(k) ==
    /\ Settled(k) /\ FindAct
    /\ why' = IF offered.open THEN why \cup {"failed"} ELSE why
    /\ UNCHANGED <<box, entry, pause, heeding, recent, offered>>

(* The box closes: the timer and the requests run on.                      *)
Shut ==
    /\ box' = FALSE
    /\ pause' = [pause EXCEPT !.shut = pause.word # ""]
    /\ hints' = [j \in DOMAIN hints |-> [hints[j] EXCEPT !.shut = TRUE]]

(* submitSearch.  The pause that runs is not cut short.                    *)
Submit ==
    /\ box /\ FindAct /\ Shut
    /\ recent' = (recent \/ entry # "") /\ entry' = ""
    /\ Hidden

(* closeSearch alone, by Escape or a click elsewhere: it leaves what is    *)
(* drawn below the box.                                                    *)
Close ==
    /\ box /\ FindAct /\ Shut
    /\ why' = IF offered.open THEN why \cup {"closed"} ELSE why
    /\ UNCHANGED <<entry, heeding, recent, offered>>

(* An item of the suggestions.  They are outside the form, so that the     *)
(* click closes the box too.                                               *)
Pick(searches) ==
    /\ offered.open /\ FindAct /\ Shut
    /\ offered.of = "recent" => searches
    /\ entry' = IF searches THEN "" ELSE entry
    /\ recent' = (recent \/ searches)
    /\ Hidden

(* Another header takes its place.                                         *)
Replace ==
    /\ FindAct /\ box' = FALSE /\ entry' = ""
    /\ pause' = [pause EXCEPT !.old = pause.word # ""]
    /\ hints' = [j \in DOMAIN hints |-> [hints[j] EXCEPT !.old = TRUE]]
    /\ heeding' = [now |-> FALSE, old |-> heeding.now]
    /\ offered' = Nothing /\ why' = {}
    /\ UNCHANGED recent

FindNext ==
    \/ Focus \/ Fire \/ Submit \/ Close \/ Replace
    \/ \E w \in Word \cup {""} : Type(w)
    \/ \E k \in 1..Asked : Answer(k) \/ Fails(k)
    \/ \E s \in BOOLEAN : Pick(s)

-----------------------------------------------------------------------------
(* A step of one half leaves the other as it is.                           *)

Init == BarInit /\ FindInit

Next ==
    \/ BarNext /\ UNCHANGED findVars
    \/ FindNext /\ UNCHANGED barVars

Spec == Init /\ [][Next]_<<barVars, findVars>>

TypeOK == BarTypeOK /\ FindTypeOK

(***************************************************************************)
(* Properties.                                                             *)
(***************************************************************************)

(* Toggles of headers that are not on the screen.                          *)
Twins == {r \in Draw \ {draw} : tools[r].st = "up"}

(* The body is in full screen exactly when the toggle on the screen says   *)
(* so, which is what was chosen last, and there is a button to leave it;   *)
(* unless another header's toggle is still mounted, or one that came late  *)
(* was unmounted over it.                                                  *)
BodyIsTools ==
    tools[draw].st = "up" /\ Twins = {} =>
        /\ tools[draw].on = fullPref
        /\ tools[draw].at = (IF fullPref THEN "body" ELSE "slot")
        /\ ~stripped => cover = [mode |-> fullPref, overlay |-> tools[draw].overlay]
        /\ stripped => ~cover.mode

(* A page that is no list is in full screen only by the toggle of a list   *)
(* that was left while the header's chunk was on its way: nothing unmounts *)
(* that one.                                                               *)
FullOnListsOnly ==
    cover.mode /\ ~Listing(draw) => Twins \cap early # {}

(* A header outlives its draw only when the page was redrawn or left       *)
(* before the chunk was in; the page that kept it unmounts it with the     *)
(* next draw.                                                              *)
HeadersGo ==
    \A r \in Draw : bars[r].st = "up" /\ r # draw =>
        r \in early \/ (pageOf[r] = Page /\ \A q \in Draw : q \in r..draw => pageOf[q] = Page)

(* Nothing that a header mounted outlives it.                              *)
PartsGo ==
    \A r \in Draw : (menus[r] = "up" \/ tools[r].st = "up") => bars[r].st = "up"

(* Suggestions that are on the screen are of what is typed, when nothing   *)
(* more is under way; unless an older answer came last or a younger one    *)
(* failed, the box was closed since they were asked for, or they are a     *)
(* former header's.                                                        *)
OfferedIsTyped ==
    offered.open /\ offered.of \in Word /\ hints = <<>> /\ pause = NoPause
        /\ why \cap {"overtaken", "closed", "stray", "failed"} = {} => offered.of = entry

(* A closed box has no suggestions, but for those that an Escape or a      *)
(* click elsewhere left, and answers to what was asked for before it was   *)
(* closed, by this header or by the one before.                            *)
ClosedOffersNothing ==
    offered.open /\ ~box => why \cap {"closed", "stray"} # {}

=============================================================================
