---------------------------- MODULE MediaBrowser ----------------------------
(***************************************************************************)
(* The media library (components/light/MediaBrowser.ts), on a page of its  *)
(* own and in the dialog that picks pictures for a post: filters, pages of *)
(* as many files as the grid fits, selection, uploads, renaming, deletion  *)
(* and the panel that edits a file's EXIF.  Loads are not numbered.        *)
(*                                                                         *)
(* The type, the folder and the typed name are one filter here.  Left out: *)
(* the folder tree, posters of videos, the lightbox, the pager's gestures. *)
(***************************************************************************)
EXTENDS Naturals, Sequences, FiniteSets, SequencesExt

CONSTANTS
    Files,   \* bound: files there ever are
    Loads,   \* bound: listings asked for and not answered
    MaxUses  \* bound: what the user does, and requests that fail

ASSUME MediaAssumption == {Files, Loads} \subseteq Nat \ {0} /\ MaxUses \in Nat

VARIABLES
    stock,     \* the server: stock[i]: whether it is there, its name, its edited fields
    picker,    \* in the dialog
    usable,    \* mounted
    narrowed,  \* the filter
    searching, \* the debounced search: the filter it will set, or "none"
    fits,      \* what the grid's geometry fits
    lastPer, measured, \* _lastPerPage, _measuredPerPage (0: not yet)
    listings,  \* listings under way, oldest first
    grid,      \* state: what the last answer listed
    loadError, loading,
    frame,     \* the page of the oldest frame that will measure, or 0
    selecting, selected, \* state.selectMode, state.selectedIds
    chosen,    \* _selectedItemsById
    asking,    \* the dialog that waits for a confirmation
    jobs,      \* async functions under way
    panel,     \* what is typed in each file's EXIF panel since the last draw
    saves,     \* fields on their way to the server, oldest first
    lookups,   \* images whose referring posts are looked up
    uses,
    (* history *)
    outrun,    \* a listing was answered after a younger one
    masked,    \* one failed, and none was asked for since with no other under way
    pressed,   \* selected by a long press
    handed,    \* what the last new post was opened with
    edited     \* fields saved; unsure: from older rows, or beside another save

mediaVars == <<stock, picker, usable, narrowed, searching, fits, lastPer, measured, listings, grid,
               loadError, loading, frame, selecting, selected, chosen, asking, jobs, panel, lookups,
               uses, outrun, masked, pressed, handed, saves, edited>>
fitting == <<fits, lastPer, measured>>
picks == <<selecting, selected, chosen, pressed>>

File == 1..Files
Field == {"f", "g"}
Narrowing == {"all", "some"}
Known == [name : {0, 1}, fields : SUBSET Field]
Absent == [name |-> 2, fields |-> {}]
Item == Known \cup {Absent}
Query == [page : 1..(Files + 1), per : 1..2, filter : Narrowing, corrected : BOOLEAN,
          overtaken : BOOLEAN]
NoPanel == [i \in File |-> {}]
NoJob == [op |-> "none", left |-> {}, done |-> {}]

MediaTypeOK ==
    /\ stock \in [File -> [there : BOOLEAN, name : {0, 1}, fields : SUBSET Field]]
    /\ {picker, usable, loadError, loading, selecting, outrun, masked} \subseteq BOOLEAN
    /\ narrowed \in Narrowing /\ searching \in Narrowing \cup {"none"}
    /\ fits \in 1..2 /\ lastPer \in 1..2 /\ measured \in 0..2
    /\ listings \in Seq(Query) /\ Len(listings) <= Loads
    /\ grid \in [items : [File -> Item], page : 1..(Files + 1), pages : 0..Files, query : Query]
    /\ frame \in 0..(Files + 1)
    /\ selected \subseteq File /\ pressed \subseteq File
    /\ chosen \in [File -> Item]
    /\ asking \in [op : {"none", "delete", "delete all"}, ids : SUBSET File]
    /\ jobs \in Seq([op : {"upload", "uploaded", "rename", "delete", "delete all"},
                      left : SUBSET File, done : SUBSET File])
    /\ panel \in [File -> SUBSET Field]
    /\ saves \in Seq([file : File, rows : SUBSET Field])
    /\ lookups \subseteq File
    /\ uses \in 0..MaxUses
    /\ handed \in [of : SUBSET File, given : SUBSET File, stale : SUBSET File,
                   pressed : SUBSET File]
    /\ edited \in [saved : [File -> SUBSET Field], unsure : SUBSET File]

First == [page |-> 1, per |-> 1, filter |-> "all", corrected |-> FALSE,
          overtaken |-> FALSE]

(* mount: the folders and the first listing are asked for.                 *)
MediaInit ==
    /\ stock = [i \in File |-> [there |-> i < Files, name |-> 0, fields |-> {}]]
    /\ picker \in BOOLEAN /\ usable = TRUE
    /\ narrowed = "all" /\ searching = "none"
    /\ fits \in 1..2 /\ lastPer = 1 /\ measured = 0
    /\ listings = <<First>>
    /\ grid = [items |-> [i \in File |-> Absent], page |-> 1, pages |-> 0, query |-> First]
    /\ loadError = FALSE /\ loading = TRUE /\ frame = 0
    /\ selecting = FALSE /\ selected = {} /\ chosen = [i \in File |-> Absent]
    /\ asking = [op |-> "none", ids |-> {}]
    /\ jobs = <<>> /\ panel = NoPanel /\ saves = <<>> /\ lookups = {} /\ uses = 0
    /\ outrun = FALSE /\ masked = FALSE /\ pressed = {}
    /\ handed = [of |-> {}, given |-> {}, stale |-> {}, pressed |-> {}]
    /\ edited = [saved |-> [i \in File |-> {}], unsure |-> {}]

-----------------------------------------------------------------------------
(* Loading.                                                                *)

(* GET /api/media.  The filter leaves the first file.                      *)
Matching(q) == {i \in File : stock[i].there /\ (q.filter = "some" => i = 1)}
Newer(q, i) == {j \in Matching(q) : j > i}
ListedBy(q) ==
    {i \in Matching(q) : Cardinality(Newer(q, i)) \in ((q.page - 1) * q.per)..(q.page * q.per - 1)}
PagesOf(q) == (Cardinality(Matching(q)) + q.per - 1) \div q.per

Shown == {i \in File : grid.items[i] # Absent}
OnScreen == IF loading \/ loadError \/ ~usable THEN {} ELSE Shown

(* Whatever sets the state draws everything anew, the panels closed.       *)
Redrawn == panel' = NoPanel

(* _load, with measured as it is by then.                                  *)
Load(page, corrected, filter, m) ==
    LET per == IF m = 0 THEN 1 ELSE m
    IN  /\ Len(listings) < Loads
        /\ listings' = Append(listings,
                [page |-> page, per |-> per, filter |-> filter, corrected |-> corrected,
                 overtaken |-> FALSE])
        /\ lastPer' = per
        /\ loading' = (usable \/ loading)
        /\ loadError' = (loadError /\ ~usable)
        /\ masked' = (masked /\ listings # <<>>)

Loaded(page) == Load(page, FALSE, narrowed, measured) /\ UNCHANGED measured

Answer(c, ok) ==
    LET q == listings[c]
        Overtaken(d) == [listings[d] EXCEPT !.overtaken = @ \/ d < c]
    IN  /\ listings' = RemoveAt([d \in DOMAIN listings |-> Overtaken(d)], c)
        /\ IF ~usable THEN UNCHANGED <<grid, loadError, loading, frame, lookups>>
           ELSE /\ loading' = FALSE
                /\ loadError' = (loadError \/ ~ok)
                /\ IF ok
                   THEN /\ grid' =
                            [items |-> [i \in File |-> IF i \in ListedBy(q)
                                THEN [name |-> stock[i].name, fields |-> stock[i].fields]
                                ELSE Absent],
                             page |-> q.page, pages |-> PagesOf(q), query |-> q]
                        /\ frame' = IF q.corrected \/ frame # 0 THEN frame ELSE q.page
                        /\ lookups' = IF picker THEN {} ELSE ListedBy(q)
                   ELSE UNCHANGED <<grid, frame, lookups>>
        /\ outrun' = IF ok THEN q.overtaken ELSE outrun
        /\ masked' = (masked \/ ~ok)
        /\ Redrawn

ListingAnswered(c) ==
    /\ c \in DOMAIN listings
    /\ Answer(c, TRUE)
    /\ UNCHANGED <<stock, picker, usable, narrowed, searching, fitting, picks, asking, jobs, uses,
                   handed, saves, edited>>

Failed(c) ==
    /\ c \in DOMAIN listings
    /\ uses < MaxUses /\ uses' = uses + 1
    /\ Answer(c, FALSE)
    /\ UNCHANGED <<stock, picker, usable, narrowed, searching, fitting, picks, asking, jobs, handed,
                   saves, edited>>

(* The frame that measures the grid, if there is one: a page of the wrong  *)
(* size is asked for again, once.                                          *)
Measure ==
    /\ frame # 0 /\ frame' = 0
    /\ IF OnScreen # {} /\ fits # lastPer
       THEN measured' = fits /\ Load(frame, TRUE, narrowed, fits) /\ Redrawn
       ELSE UNCHANGED <<measured, lastPer, listings, loading, loadError, masked, panel>>
    /\ UNCHANGED <<stock, picker, usable, narrowed, searching, fits, grid, picks, asking, jobs,
                   lookups, uses, outrun, handed, saves, edited>>

(* _loadReferringPosts: an answer is drawn with everything else.           *)
Lookup(i) ==
    /\ i \in lookups /\ lookups' = lookups \ {i}
    /\ IF usable THEN Redrawn ELSE UNCHANGED panel
    /\ UNCHANGED <<stock, picker, usable, narrowed, searching, fitting, listings, grid, loadError,
                   loading, frame, picks, asking, jobs, uses, outrun, masked, handed, saves,
                   edited>>

-----------------------------------------------------------------------------
(* What the user does.  A dialog covers the page.                          *)
Act == usable /\ asking.op = "none" /\ uses < MaxUses /\ uses' = uses + 1

Unlisted == UNCHANGED <<fitting, listings, loadError, loading, masked>>
Same == UNCHANGED <<stock, picker, usable, grid, lookups, outrun, saves, edited>>

(* A type or a folder.                                                     *)
NarrowFiles(filter) ==
    /\ Act /\ narrowed' = filter
    /\ Load(1, FALSE, filter, measured) /\ Redrawn
    /\ Same /\ UNCHANGED <<searching, fits, measured, frame, picks, asking, jobs, handed>>

(* Words are in the state at once, and are asked for 300 ms later, by a    *)
(* timer that outlives the page.                                           *)
Type(filter) ==
    /\ Act /\ narrowed' = filter /\ searching' = filter
    /\ Same /\ Unlisted /\ UNCHANGED <<frame, picks, asking, jobs, panel, handed>>

Search ==
    /\ searching # "none" /\ searching' = "none"
    /\ narrowed' = IF usable THEN searching ELSE narrowed
    /\ Load(1, FALSE, narrowed', measured) /\ Redrawn
    /\ Same /\ UNCHANGED <<fits, measured, frame, picks, asking, jobs, uses, handed>>

Turn(page) ==
    /\ Act /\ ~loading /\ grid.pages > 1 /\ page \in 1..grid.pages \ {grid.page}
    /\ Loaded(page) /\ Redrawn
    /\ Same /\ UNCHANGED <<narrowed, searching, fits, frame, picks, asking, jobs, handed>>

(* _refitToZoom.                                                           *)
ZoomFiles ==
    /\ Act /\ ~picker /\ fits' = 3 - fits
    /\ IF OnScreen # {} /\ fits' # lastPer
       THEN measured' = fits' /\ Load(grid.page, FALSE, narrowed, fits') /\ Redrawn
       ELSE UNCHANGED <<measured, lastPer, listings, loading, loadError, masked, panel>>
    /\ Same /\ UNCHANGED <<narrowed, searching, frame, picks, asking, jobs, handed>>

LongPress(i) ==
    /\ Act /\ ~picker /\ ~selecting /\ i \in OnScreen
    /\ selecting' = TRUE /\ selected' = {i} /\ pressed' = {i}
    /\ Redrawn
    /\ Same /\ Unlisted /\ UNCHANGED <<narrowed, searching, frame, chosen, asking, jobs, handed>>

(* Mutant: a file that is not selected any more is still held.             *)
ToggledHeld(i) ==
    /\ selected' = IF i \in selected THEN selected \ {i} ELSE selected \cup {i}
    /\ chosen' = IF i \in selected THEN chosen ELSE [chosen EXCEPT ![i] = grid.items[i]]

(* _toggleSelection.                                                       *)
Toggled(i) ==
    /\ selected' = IF i \in selected THEN selected \ {i} ELSE selected \cup {i}
    /\ chosen' = [chosen EXCEPT ![i] = IF i \in selected THEN Absent ELSE grid.items[i]]

Toggle(i) ==
    /\ Act /\ (picker \/ selecting) /\ i \in OnScreen
    /\ Toggled(i)
    /\ pressed' = pressed \ {i}
    /\ Redrawn
    /\ Same /\ Unlisted /\ UNCHANGED <<narrowed, searching, frame, selecting, asking, jobs, handed>>

Cancel ==
    /\ Act /\ selecting
    /\ selecting' = FALSE /\ selected' = {} /\ pressed' = {}
    /\ Redrawn
    /\ Same /\ Unlisted /\ UNCHANGED <<narrowed, searching, frame, chosen, asking, jobs, handed>>

(* _createPostFromSelected, and the dialog's button: the paths of the      *)
(* files that are held.                                                    *)
CreatePost ==
    LET given == {i \in (IF picker THEN File ELSE selected) : chosen[i] # Absent}
    IN  /\ Act /\ (picker \/ selecting) /\ given # {}
        /\ handed' = [of |-> selected, given |-> given, pressed |-> pressed,
                      stale |-> {i \in given : chosen[i].name # stock[i].name}]
        /\ usable' = FALSE
        /\ selecting' = FALSE /\ selected' = {} /\ pressed' = {}
        /\ panel' = NoPanel
        /\ UNCHANGED <<stock, picker, narrowed, searching, fitting, listings, grid, loadError,
                       loading, frame, chosen, asking, jobs, lookups, outrun, masked, saves,
                       edited>>

LeaveLibrary ==
    /\ Act /\ usable' = FALSE /\ panel' = NoPanel
    /\ UNCHANGED <<stock, picker, narrowed, searching, fitting, listings, grid, loadError, loading,
                   frame, picks, asking, jobs, lookups, outrun, masked, handed, saves, edited>>

AskDelete ==
    /\ Act /\ ~picker
    /\ \/ selecting /\ selected # {} /\ asking' = [op |-> "delete all", ids |-> selected]
       \/ \E i \in OnScreen : asking' = [op |-> "delete", ids |-> {i}]
    /\ Same /\ Unlisted /\ UNCHANGED <<narrowed, searching, frame, picks, jobs, panel, handed>>

Confirm(yes) ==
    /\ asking.op # "none" /\ asking' = [op |-> "none", ids |-> {}]
    /\ jobs' = IF yes THEN Append(jobs, [op |-> asking.op, left |-> asking.ids, done |-> {}])
               ELSE jobs
    /\ Same /\ Unlisted
    /\ UNCHANGED <<narrowed, searching, frame, picks, panel, uses, handed>>

(* The prompt lets no name pass that is the one listed.                    *)
Rename(i) ==
    /\ Act /\ ~picker /\ i \in OnScreen /\ grid.items[i].name = 0
    /\ jobs' = Append(jobs, [op |-> "rename", left |-> {i}, done |-> {}])
    /\ Same /\ Unlisted
    /\ UNCHANGED <<narrowed, searching, frame, picks, asking, panel, handed>>

(* The panel of a file: the fields that were listed, and what is typed.    *)
RowsIn(i) == grid.items[i].fields \cup panel[i]

(* A save sends them all, and the button may be pressed again meanwhile.   *)
SaveFields(i, field) ==
    /\ Act /\ ~picker /\ i \in OnScreen
    /\ panel' = [panel EXCEPT ![i] = @ \cup {field}]
    /\ saves' = Append(saves, [file |-> i, rows |-> RowsIn(i) \cup {field}])
    /\ LET beside == \E s \in DOMAIN saves : saves[s].file = i
       IN  edited' = IF beside \/ ~(edited.saved[i] \subseteq RowsIn(i))
                     THEN [edited EXCEPT !.unsure = @ \cup {i}] ELSE edited
    /\ Unlisted
    /\ UNCHANGED <<stock, picker, usable, narrowed, searching, grid, frame, picks, asking, jobs,
                   lookups, outrun, handed>>

(* The server takes saves in any order and stores what one says; what the  *)
(* page hears of it is a toast.                                            *)
FieldsServed(s, ok) ==
    /\ s \in DOMAIN saves /\ saves' = RemoveAt(saves, s)
    /\ IF ok THEN UNCHANGED uses ELSE uses < MaxUses /\ uses' = uses + 1
    /\ LET i == saves[s].file
       IN  IF ok /\ stock[i].there
           THEN /\ stock' = [stock EXCEPT ![i].fields = saves[s].rows]
                /\ edited' = [edited EXCEPT !.saved[i] = @ \cup saves[s].rows]
           ELSE UNCHANGED <<stock, edited>>
    /\ UNCHANGED <<picker, usable, narrowed, searching, fitting, listings, grid, loadError, loading,
                   frame, picks, asking, jobs, panel, lookups, outrun, masked, handed>>

-----------------------------------------------------------------------------
(* Uploads, renaming and deletions: one request after another.             *)
Upload ==
    /\ Act /\ ~stock[Files].there
    /\ jobs' = Append(jobs, [op |-> "upload", left |-> {Files}, done |-> {}])
    /\ Redrawn
    /\ Same /\ Unlisted /\ UNCHANGED <<narrowed, searching, frame, picks, asking, handed>>

(* A request is served or not, and the page is told so or not.             *)
StepJob(k, served, told) ==
    /\ k \in DOMAIN jobs /\ jobs[k].left # {}
    /\ told => served
    /\ IF told THEN UNCHANGED uses ELSE uses < MaxUses /\ uses' = uses + 1
    /\ LET i == CHOOSE i \in jobs[k].left : TRUE
           op == jobs[k].op
           works == served /\ (op = "upload" \/ stock[i].there)
       IN  /\ stock' = IF ~works THEN stock
                       ELSE IF op = "rename" THEN [stock EXCEPT ![i].name = 1]
                       ELSE [stock EXCEPT ![i].there = op = "upload"]
           /\ jobs' = [jobs EXCEPT ![k].left = @ \ {i},
                                   ![k].done = IF works /\ told THEN @ \cup {i} ELSE @]
    /\ UNCHANGED <<picker, usable, narrowed, searching, fitting, listings, grid, loadError, loading,
                   frame, picks, asking, panel, lookups, outrun, masked, handed, saves, edited>>

(* The last request is over: the first page is loaded, unless it was one   *)
(* file's and failed.  A bulk ends the selection.                          *)
EndJob(k) ==
    /\ k \in DOMAIN jobs /\ jobs[k].left = {} /\ jobs[k].op # "uploaded"
    /\ IF jobs[k].op = "delete all"
       THEN /\ chosen' = [i \in File |-> Absent]
            /\ IF usable THEN selecting' = FALSE /\ selected' = {} /\ pressed' = {}
               ELSE UNCHANGED <<selecting, selected, pressed>>
       ELSE UNCHANGED picks
    /\ jobs' = IF jobs[k].op = "upload" THEN [jobs EXCEPT ![k].op = "uploaded"]
               ELSE RemoveAt(jobs, k)
    /\ IF jobs[k].op \in {"rename", "delete"} /\ jobs[k].done = {}
       THEN UNCHANGED <<lastPer, measured, listings, loadError, loading, masked, panel>>
       ELSE Loaded(1) /\ Redrawn
    /\ UNCHANGED <<stock, picker, usable, narrowed, searching, fits, grid, frame, asking, lookups,
                   uses, outrun, handed, saves, edited>>

(* The picker selects what was uploaded when it has been listed.           *)
SelectUploaded(k) ==
    /\ k \in DOMAIN jobs /\ jobs[k].op = "uploaded" /\ listings = <<>>
    /\ jobs' = RemoveAt(jobs, k)
    /\ LET new == IF picker THEN jobs[k].done ELSE {}
           asUploaded == [name |-> 0, fields |-> {}]
       IN  /\ chosen' = [i \in File |-> IF i \in new THEN asUploaded ELSE chosen[i]]
           /\ selected' = IF usable THEN selected \cup new ELSE selected
    /\ Redrawn
    /\ Same /\ Unlisted
    /\ UNCHANGED <<narrowed, searching, frame, selecting, pressed, asking, uses, handed>>

MediaProgress ==
    \/ \E c \in 1..Loads : ListingAnswered(c)
    \/ Measure \/ Search
    \/ \E i \in File : Lookup(i)
    \/ \E k \in 1..MaxUses : StepJob(k, TRUE, TRUE) \/ EndJob(k) \/ SelectUploaded(k)
        \/ FieldsServed(k, TRUE)

MediaNext ==
    \/ MediaProgress
    \/ \E c \in 1..Loads : Failed(c)
    \/ \E f \in Narrowing : f # narrowed /\ (NarrowFiles(f) \/ Type(f))
    \/ \E p \in 1..Files : Turn(p)
    \/ ZoomFiles \/ Cancel \/ CreatePost \/ LeaveLibrary \/ AskDelete \/ Upload
    \/ \E i \in File : LongPress(i) \/ Toggle(i) \/ Rename(i)
    \/ \E yes \in BOOLEAN : Confirm(yes)
    \/ \E i \in File, f \in Field : SaveFields(i, f)
    \/ \E k \in 1..MaxUses, served \in BOOLEAN : StepJob(k, served, FALSE)
    \/ \E k \in 1..MaxUses : FieldsServed(k, FALSE)

MediaSpec == MediaInit /\ [][MediaNext]_mediaVars

(***************************************************************************)
(* Properties.                                                             *)
(***************************************************************************)

(* At rest the grid is of the filter and of the size of page that were     *)
(* asked for last, unless answers came out of order, which _load does not  *)
(* notice, or one failed: a younger answer leaves its error on the screen. *)
ListedIsAsked ==
    listings = <<>> /\ searching = "none" /\ usable /\ ~outrun /\ ~masked =>
        ~loadError /\ grid.query.filter = narrowed /\ grid.query.per = lastPer

(* A new post is given every file that is selected, as it is called now.   *)
(* Files selected by a long press are not given, since they are not held,  *)
(* and ones that are held keep the name they had.                          *)
PostHasSelected ==
    /\ handed.of \ handed.given \subseteq handed.pressed
    /\ \A i \in handed.stale : stock[i].name = 1

(* The dialog gives exactly the files whose boxes are ticked.              *)
PickerHolds == picker /\ usable => selected = {i \in File : chosen[i] # Absent}

(* Saves keep the fields that were saved before, unless the panel was      *)
(* drawn from a listing older than those, or two saves of a file were      *)
(* under way at once.                                                      *)
FieldsAreKept ==
    \A i \in File : i \notin edited.unsure => edited.saved[i] \subseteq stock[i].fields

(* What the library keeps: listings, picks and edits.                      *)
MediaKept == ListedIsAsked /\ PostHasSelected /\ PickerHolds /\ FieldsAreKept

=============================================================================
