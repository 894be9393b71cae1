------------------------------ MODULE YearStrip ------------------------------
(***************************************************************************)
(* The timeline plugin in the header of a list: "All years", or up to      *)
(* three pills around a year, and the spinner of the folded header         *)
(* (plugins/timeline).  The strip keeps a range of its own and reports     *)
(* what is picked to the page, which writes it to the address, loads, and  *)
(* puts its range back on the strip once the list is drawn.                *)
(***************************************************************************)
EXTENDS Integers, Sequences, FiniteSets

CONSTANTS
    Archives,     \* sets of years that have posts: positive numbers
    Filters,      \* ranges a followed link or the browser's history may bring
    MaxStripActs  \* bound: what the visitor does

VARIABLES
    archive,      \* state.years
    strip,        \* state: isLoading, scope, preview and panel; and the fold of the header
    grab,         \* _drag
    wheeling,     \* _wheelTimer runs
    tap,          \* _tapTimer runs, and the year it will pick
    freshPanel,   \* _lastTap: a tap has opened the spinner just now
    lastFocused,  \* lastFocusedYear of the module
    host,         \* the page: its kind, the range of the address, what it handed the
                  \* header, the loads under way and whether it shows an error
    stripActs,
    (* history *)
    meantYears,   \* the range the visitor chose last
    muddles       \* ways in which the strip or the address missed it

stripVars == <<archive, strip, grab, wheeling, tap, freshPanel, lastFocused, host, stripActs,
               meantYears, muddles>>

NoYears == [from |-> 0, to |-> 0]
Year(y) == [from |-> y, to |-> y]
AllYears == 0
Idle == [on |-> FALSE, vertical |-> FALSE, moved |-> FALSE]
NoTap == [on |-> FALSE, year |-> 0]

Ranges == {NoYears} \cup Filters \cup UNION {{Year(y) : y \in a} : a \in Archives}
Numbers == {0} \cup UNION Archives

TypeOK ==
    /\ archive \in Archives
    /\ strip \in [phase : {"coming", "loading", "shown", "gone"}, scope : Ranges,
                  preview : Numbers, panel : BOOLEAN, short : BOOLEAN]
    /\ grab \in [on : BOOLEAN, vertical : BOOLEAN, moved : BOOLEAN]
    /\ wheeling \in BOOLEAN /\ tap \in [on : BOOLEAN, year : Numbers] /\ freshPanel \in BOOLEAN
    /\ lastFocused \in Numbers
    /\ host.kind \in {"feed", "tag", "map"} /\ host.url \in Ranges /\ host.opening \in Ranges
    /\ host.loads \in Seq([years : Ranges, full : BOOLEAN]) /\ host.broken \in BOOLEAN
    /\ stripActs \in 0..MaxStripActs /\ meantYears \in Ranges
    /\ muddles \subseteq {"wheel", "tap", "drag", "behind", "echo", "late", "missed", "rebuilt",
                          "stray"}

Init ==
    /\ archive \in Archives
    /\ \E short \in BOOLEAN :
        strip = [phase |-> "coming", scope |-> NoYears, preview |-> 0, panel |-> FALSE,
                 short |-> short]
    /\ grab = Idle /\ wheeling = FALSE /\ tap = NoTap /\ freshPanel = FALSE /\ lastFocused = 0
    /\ \E kind \in {"feed", "tag", "map"}, years \in {NoYears} \cup Filters :
        /\ host = [kind |-> kind, url |-> years, opening |-> years, loads |-> <<>>,
                   broken |-> FALSE]
        /\ meantYears = years
    /\ stripActs = 0 /\ muddles = {}

First == CHOOSE y \in archive : \A z \in archive : y <= z
Last == CHOOSE y \in archive : \A z \in archive : y >= z

(* A range over every year filters nothing.                                *)
Norm(s) == IF s # NoYears /\ s.from <= First /\ s.to >= Last THEN NoYears ELSE s

Far(y, z) == IF y < z THEN z - y ELSE y - z

(* anchorYear: of two years equally near the earlier.                      *)
AnchorYear(s) ==
    CHOOSE y \in archive : \A z \in archive :
        Far(y, s.to) < Far(z, s.to) \/ (Far(y, s.to) = Far(z, s.to) /\ y <= z)

(* stepYear; 0 at the edge.                                                *)
StepYear(y, dir) ==
    LET beyond == {z \in archive : IF dir < 0 THEN z < y ELSE z > y}
    IN  IF y \notin archive \/ dir = 0 \/ beyond = {} THEN 0
        ELSE CHOOSE z \in beyond : \A x \in beyond : Far(z, y) <= Far(x, y)

(* yearWindow.                                                             *)
YearWindow(y) == IF y \in archive THEN {y, StepYear(y, -1), StepYear(y, 1)} \ {0} ELSE {}

(* What the strip draws.                                                   *)
Shown == IF strip.scope # NoYears /\ strip.preview # 0 THEN Year(strip.preview) ELSE strip.scope
Expanded == strip.phase = "shown" /\ strip.scope # NoYears
Spinner == Expanded /\ strip.panel

(* renderTimeline; of the folded strip the active pills are left.          *)
Pills ==
    IF strip.phase # "shown" THEN {}
    ELSE IF strip.scope = NoYears THEN {AllYears}
    ELSE {y \in YearWindow(AnchorYear(Shown)) :
            strip.short => y \in Shown.from..Shown.to}

(* The year the next step or confirm starts from.                          *)
Focus == IF strip.preview # 0 THEN strip.preview ELSE AnchorYear(strip.scope)

(* expand: the year picked last, else the newest.                          *)
Newest == IF lastFocused \in archive THEN lastFocused ELSE Last

-----------------------------------------------------------------------------
(* A new range of the address is loaded; a tag's page heeds the last load. *)
Sent(years) ==
    LET load == [years |-> years, full |-> host.broken]
    IN  IF host.kind = "tag" THEN <<load>> ELSE Append(host.loads, load)

Moved(years) == [host EXCEPT !.url = years, !.loads = Sent(years)]

(* _onTimelineRangeChange.                                                 *)
Told(years) == IF years = host.url THEN host ELSE Moved(years)

(* Mutant: picking the year that a link led to forgets to note it.         *)
PickQuietly(st, y) ==
    /\ strip' = [st EXCEPT !.scope = Year(y)] /\ lastFocused' = y
    /\ host' = host

(* focusYear.                                                              *)
Pick(st, y) ==
    /\ strip' = [st EXCEPT !.scope = Year(y)] /\ lastFocused' = y
    /\ host' = IF strip.scope = Year(y) THEN host ELSE Told(Year(y))

(* collapse.                                                               *)
Collapse(st) ==
    /\ strip' = [st EXCEPT !.scope = NoYears]
    /\ host' = Told(NoYears) /\ UNCHANGED lastFocused

Toggled == IF strip.scope = NoYears THEN Year(Newest) ELSE NoYears

(* toggle.                                                                 *)
Toggle(st) == IF strip.scope = NoYears THEN Pick(st, Newest) ELSE Collapse(st)

(* What is under way when something else is chosen.                        *)
Pending ==
    (IF wheeling THEN {"wheel"} ELSE {})
        \cup (IF tap.on /\ tap.year # 0 THEN {"tap"} ELSE {})
        \cup (IF grab.on /\ ~grab.vertical /\ strip.preview # 0 THEN {"drag"} ELSE {})
Behind == IF host.loads # <<>> /\ strip.scope # Norm(host.url) THEN {"behind"} ELSE {}

Meant(years, crossed) == meantYears' = years /\ muddles' = muddles \cup crossed \cup Behind

Counts == stripActs < MaxStripActs /\ stripActs' = stripActs + 1

-----------------------------------------------------------------------------
(* _openPanel, by a tap or a key on the pill of the folded strip.          *)
OpenPanel ==
    /\ strip' = [strip EXCEPT !.panel = TRUE, !.preview = 0]
    /\ freshPanel' = TRUE /\ muddles' = muddles \cup Pending
    /\ UNCHANGED <<lastFocused, host, tap, meantYears>>

(* Mutant: the spinner is closed and its year stays on the strip.          *)
ClosedShowing == [strip EXCEPT !.panel = FALSE]

(* _closePanel.                                                            *)
Closed == [strip EXCEPT !.panel = FALSE, !.preview = 0]

(* A drag in the spinner goes on when it is closed.                        *)
Strays == IF grab.on /\ grab.vertical THEN {"stray"} ELSE {}

Close ==
    /\ strip' = Closed /\ muddles' = muddles \cup Pending \cup Strays
    /\ UNCHANGED <<lastFocused, host, freshPanel, tap, meantYears>>

(* _handleClick on a pill, while the spinner is open or the strip is short. *)
TapShort(key) ==
    IF ~strip.panel THEN OpenPanel
    ELSE IF key \/ ~freshPanel THEN Close
    ELSE /\ Toggle(Closed) /\ Meant(Toggled, Pending \cup Strays)
         /\ freshPanel' = FALSE /\ UNCHANGED tap

(* ... and on another pill: a key acts at once, a pointer waits for a      *)
(* second tap.                                                             *)
TapLong(p, key) ==
    /\ UNCHANGED freshPanel
    /\ IF key
       THEN LET y == IF p = AllYears THEN Newest ELSE p
            IN  Pick(strip, y) /\ Meant(Year(y), Pending) /\ UNCHANGED tap
       ELSE IF tap.on
       THEN /\ tap' = NoTap /\ Toggle(strip)
            /\ Meant(Toggled, Pending \ {"tap"})
       ELSE /\ tap' = [on |-> TRUE, year |-> p]
            /\ IF p = AllYears THEN UNCHANGED <<meantYears, muddles>> ELSE Meant(Year(p), Pending)
            /\ UNCHANGED <<strip, lastFocused, host>>

Tap(p, key) ==
    /\ p \in Pills /\ Counts
    /\ IF p # AllYears /\ (strip.panel \/ strip.short) THEN TapShort(key) ELSE TapLong(p, key)
    /\ UNCHANGED <<archive, grab, wheeling>>

(* A tap waits no longer: one on the strip or on "All years" does nothing. *)
TapDue ==
    /\ tap.on /\ tap' = NoTap
    /\ IF tap.year = 0 THEN UNCHANGED <<strip, lastFocused, host, muddles>>
       ELSE Pick(strip, tap.year) /\ muddles' = muddles \cup Behind
    /\ UNCHANGED <<archive, grab, wheeling, freshPanel, stripActs, meantYears>>

PanelSettles ==
    /\ freshPanel /\ freshPanel' = FALSE
    /\ UNCHANGED <<archive, strip, grab, wheeling, tap, lastFocused, host, stripActs, meantYears,
                   muddles>>

(* Mutant: the confirmed year is taken from the strip, not the spinner.    *)
ConfirmOld ==
    Pick([strip EXCEPT !.panel = FALSE, !.preview = 0], AnchorYear(strip.scope))

(* _confirmPanel.                                                          *)
Confirm == Pick([strip EXCEPT !.panel = FALSE, !.preview = 0], Focus)

(* A tap on a year of the spinner: the active one confirms.                *)
Spin(y) ==
    /\ Spinner /\ y \in YearWindow(Shown.to) /\ Counts
    /\ IF y = Focus
       THEN Confirm /\ Meant(Year(Focus), Pending \cup Strays)
       ELSE /\ strip' = [strip EXCEPT !.preview = y]
            /\ muddles' = muddles \cup Pending /\ UNCHANGED <<lastFocused, host, meantYears>>
    /\ UNCHANGED <<archive, grab, wheeling, tap, freshPanel>>

(* A pointer lands elsewhere on the page.                                  *)
Outside ==
    /\ strip.panel /\ Counts /\ Close
    /\ UNCHANGED <<archive, grab, wheeling>>

(* Enter and Escape in the spinner; Escape on the strip.                   *)
EnterKey ==
    /\ Spinner /\ Counts /\ Confirm /\ Meant(Year(Focus), Pending \cup Strays)
    /\ UNCHANGED <<archive, grab, wheeling, tap, freshPanel>>
EscapeKey ==
    /\ strip.phase = "shown" /\ Counts
    /\ \/ strip.panel /\ Close
       \/ /\ ~strip.panel /\ strip.scope # NoYears
          /\ Collapse(strip) /\ Meant(NoYears, Pending) /\ UNCHANGED <<freshPanel, tap>>
    /\ UNCHANGED <<archive, grab, wheeling>>

(* slide: from the range, whatever is previewed.                           *)
ArrowKey(dir) ==
    LET y == StepYear(AnchorYear(strip.scope), dir)
    IN  /\ Expanded /\ ~strip.panel /\ Counts /\ y # 0
        /\ Pick(strip, y) /\ Meant(Year(y), Pending)
        /\ UNCHANGED <<archive, grab, wheeling, tap, freshPanel>>

-----------------------------------------------------------------------------
(* _previewStep.                                                           *)
Previewed(dir) ==
    LET y == StepYear(Focus, dir)
    IN  IF strip.scope = NoYears \/ y = 0 THEN strip ELSE [strip EXCEPT !.preview = y]

(* A preview that the spinner only keeps, and one that will be reported.   *)
Leaf(dir, crossed) ==
    /\ strip' = Previewed(dir) /\ muddles' = muddles \cup crossed /\ UNCHANGED meantYears
Offer(dir, crossed) ==
    /\ strip' = Previewed(dir)
    /\ IF Previewed(dir) = strip THEN muddles' = muddles \cup crossed /\ UNCHANGED meantYears
       ELSE Meant(Year(Previewed(dir).preview), crossed)

GrabPill ==
    /\ Expanded /\ ~strip.panel /\ ~strip.short /\ ~grab.on
    /\ grab' = [on |-> TRUE, vertical |-> FALSE, moved |-> FALSE]
    /\ UNCHANGED <<archive, strip, wheeling, tap, freshPanel, lastFocused, host, stripActs,
                   meantYears, muddles>>
GrabSpinner ==
    /\ Spinner /\ ~grab.on
    /\ grab' = [on |-> TRUE, vertical |-> TRUE, moved |-> FALSE]
    /\ UNCHANGED <<archive, strip, wheeling, tap, freshPanel, lastFocused, host, stripActs,
                   meantYears, muddles>>

(* _onDragMove by a step: a drag of the strip is no tap.                   *)
Drag(dir) ==
    /\ grab.on /\ Counts /\ grab' = [grab EXCEPT !.moved = TRUE]
    /\ IF grab.vertical
       THEN /\ Leaf(dir, Pending \cup IF strip.panel THEN {} ELSE {"stray"})
            /\ UNCHANGED tap
       ELSE /\ tap' = IF grab.moved THEN tap ELSE NoTap
            /\ Offer(dir, Pending \ {"drag"})
    /\ UNCHANGED <<archive, wheeling, freshPanel, lastFocused, host>>

(* _commitPreview.                                                         *)
Commit ==
    IF strip.preview = 0 THEN UNCHANGED <<strip, lastFocused, host>>
    ELSE Pick([strip EXCEPT !.preview = 0], strip.preview)

(* Mutant: a drag that the browser takes over leaves its year on the strip. *)
LiftUntold ==
    /\ grab.on /\ grab' = Idle
    /\ UNCHANGED <<archive, strip, wheeling, tap, freshPanel, lastFocused, host, stripActs,
                   meantYears, muddles>>

(* _onDragEnd: the click that follows a slide is no tap.                   *)
Lift ==
    /\ grab.on /\ grab' = Idle
    /\ IF grab.moved /\ ~grab.vertical THEN Commit ELSE UNCHANGED <<strip, lastFocused, host>>
    /\ muddles' = IF grab.moved /\ ~grab.vertical THEN muddles \cup Behind ELSE muddles
    /\ UNCHANGED <<archive, wheeling, tap, freshPanel, stripActs, meantYears>>

(* The wheel over the strip, by a step or less: the year waits for a pause. *)
Wheel(dir) ==
    /\ Expanded /\ Counts /\ wheeling' = TRUE
    /\ Offer(dir, IF strip.panel THEN Pending \cup {"wheel"} ELSE Pending \ {"wheel"})
    /\ UNCHANGED <<archive, grab, tap, freshPanel, lastFocused, host>>
WheelDue ==
    /\ wheeling /\ wheeling' = FALSE /\ Commit
    /\ muddles' = IF strip.preview # 0 THEN muddles \cup Behind ELSE muddles
    /\ UNCHANGED <<archive, grab, tap, freshPanel, stripActs, meantYears>>

(* ... and over the spinner.                                               *)
WheelSpinner(dir) ==
    /\ Spinner /\ Counts /\ Leaf(dir, Pending)
    /\ UNCHANGED <<archive, grab, wheeling, tap, freshPanel, lastFocused, host>>

-----------------------------------------------------------------------------
(* The header's line is folded, or not.                                    *)
Fold ==
    /\ Counts /\ strip' = [strip EXCEPT !.short = ~@]
    /\ UNCHANGED <<archive, grab, wheeling, tap, freshPanel, lastFocused, host, meantYears,
                   muddles>>

(* The plugin's chunk has come: the strip is built with what the page      *)
(* handed the header at its last drawing.                                  *)
ChunkComes ==
    /\ strip.phase = "coming" /\ strip' = [strip EXCEPT !.phase = "loading"]
    /\ UNCHANGED <<archive, grab, wheeling, tap, freshPanel, lastFocused, host, stripActs,
                   meantYears, muddles>>

(* _fetchData: the range it opens on is reported, but on a tag's page.     *)
Fetched ==
    LET scope == Norm(host.opening)
        tells == scope # NoYears /\ host.kind # "tag"
    IN  /\ strip.phase = "loading"
        /\ strip' = [strip EXCEPT !.phase = "shown", !.scope = scope]
        /\ host' = IF tells THEN Told(scope) ELSE host
        /\ muddles' = IF tells /\ scope # host.url THEN muddles \cup {"echo"} ELSE muddles
        /\ UNCHANGED <<archive, grab, wheeling, tap, freshPanel, lastFocused, stripActs, meantYears>>
FetchFails ==
    /\ strip.phase = "loading" /\ strip' = [strip EXCEPT !.phase = "gone"]
    /\ UNCHANGED <<archive, grab, wheeling, tap, freshPanel, lastFocused, host, stripActs,
                   meantYears, muddles>>

(* A link or the browser's history brings another range.                   *)
Followed(years) ==
    /\ years # host.url /\ Counts /\ host' = Moved(years)
    /\ meantYears' = years /\ muddles' = muddles \cup Pending
    /\ UNCHANGED <<archive, strip, grab, wheeling, tap, freshPanel, lastFocused>>

(* The header is drawn anew, and with it another strip.                    *)
Rebuilt(next) ==
    /\ strip' = [strip EXCEPT !.phase = IF strip.phase = "coming" THEN "coming" ELSE "loading",
                              !.scope = NoYears, !.preview = 0, !.panel = FALSE]
    /\ grab' = Idle /\ wheeling' = FALSE /\ tap' = NoTap /\ freshPanel' = FALSE /\ host' = next

(* Mutant: the strip keeps the range it has.                               *)
SetScopeNever(years, next) == UNCHANGED <<strip, lastFocused>> /\ host' = next

(* setScope: lost on a strip that has not come; one that loads keeps it to *)
(* open on.  What is previewed stays.                                      *)
SetScope(years, next) ==
    IF strip.phase = "loading"
    THEN host' = [next EXCEPT !.opening = Norm(years)] /\ UNCHANGED <<strip, lastFocused>>
    ELSE /\ host' = next
         /\ strip' = IF strip.phase = "shown" THEN [strip EXCEPT !.scope = Norm(years)] ELSE strip
         /\ lastFocused' = IF /\ strip.phase = "shown" /\ strip.scope # Norm(years)
                              /\ Norm(years) # NoYears /\ years.from = years.to
                           THEN years.from ELSE lastFocused

(* The list has come: HomePage._refreshPostContent, TagPage, MapPage; after *)
(* an error the whole page is drawn.                                       *)
Loaded(i) ==
    LET load == host.loads[i]
        rest == [host EXCEPT !.loads = SubSeq(@, 1, i - 1) \o SubSeq(@, i + 1, Len(@))]
        lost == (IF load.years # host.url THEN {"late"} ELSE {})
                    \cup (IF strip.phase = "coming" THEN {"missed"} ELSE {})
    IN  /\ UNCHANGED <<archive, stripActs, meantYears>>
        /\ IF load.full
           THEN /\ Rebuilt([rest EXCEPT !.opening = host.url, !.broken = FALSE])
                /\ muddles' = muddles \cup Pending /\ UNCHANGED lastFocused
           ELSE IF host.kind = "map"
           THEN /\ Rebuilt(rest) /\ muddles' = muddles \cup Pending \cup {"rebuilt"}
                /\ UNCHANGED lastFocused
           ELSE /\ SetScope(load.years, rest) /\ muddles' = muddles \cup lost
                /\ UNCHANGED <<grab, wheeling, tap, freshPanel>>

LoadFails(i) ==
    /\ Rebuilt([host EXCEPT !.loads = SubSeq(@, 1, i - 1) \o SubSeq(@, i + 1, Len(@)),
                            !.opening = host.url, !.broken = TRUE])
    /\ muddles' = muddles \cup Pending
    /\ UNCHANGED <<archive, stripActs, meantYears, lastFocused>>

Next ==
    \/ \E p \in Numbers, key \in BOOLEAN : Tap(p, key)
    \/ \E y \in Numbers : Spin(y)
    \/ \E dir \in {-1, 1} : ArrowKey(dir) \/ Drag(dir) \/ WheelSpinner(dir)
    \/ \E dir \in {-1, 0, 1} : Wheel(dir)
    \/ TapDue \/ PanelSettles \/ Outside \/ EnterKey \/ EscapeKey \/ GrabPill \/ GrabSpinner
    \/ Lift \/ WheelDue \/ Fold \/ ChunkComes \/ Fetched \/ FetchFails
    \/ \E years \in {NoYears} \cup Filters : Followed(years)
    \/ \E i \in 1..Len(host.loads) : Loaded(i) \/ LoadFails(i)

Spec == Init /\ [][Next]_stripVars

(***************************************************************************)
(* Properties.                                                             *)
(***************************************************************************)

(* Nothing is under way.                                                   *)
StripRests ==
    /\ strip.phase = "shown" /\ ~strip.panel /\ ~grab.on /\ ~wheeling /\ ~tap.on
    /\ host.loads = <<>>

(* At rest the strip shows the range by which the page lists; unless an    *)
(* older list came last, one came before the strip, the map page built a   *)
(* strip with its first range, or a drag in the spinner went on after the  *)
(* spinner was closed.                                                     *)
StripAgrees ==
    (StripRests /\ muddles \cap {"late", "missed", "rebuilt", "stray"} = {})
        => Norm(Shown) = Norm(host.url)

(* At rest the page lists by the range that was chosen last; unless it was *)
(* chosen while a wheel's pause, a tap or a drag was not over, on a strip  *)
(* behind its page, or a strip has reported the range it opened on.        *)
LastChoiceHolds ==
    (StripRests /\ muddles = {}) => Norm(host.url) = Norm(meantYears)

(* A year that is shown and not reported is under a finger, waits for the  *)
(* wheel to pause, or is in the open spinner.                              *)
PreviewHeld ==
    (strip.preview # 0 /\ "stray" \notin muddles) => grab.on \/ wheeling \/ strip.panel

=============================================================================
