---------------------------- MODULE TagsManager ----------------------------
(***************************************************************************)
(* The author's page of tags: pages/light/TagsManagerPage.ts with its      *)
(* flows, select mode, tree, list and editor in components/light/tags/.    *)
(* The page draws a copy of the hierarchy; commands act on what the copy   *)
(* said when they were given, as one request or several, and reload it.    *)
(*                                                                         *)
(* A request reaches the server and is answered in one step, a listing is  *)
(* as of when it was sent or when it is answered.  Of a tag only its place *)
(* in the hierarchy is modelled: a request that changes something else is  *)
(* a Touch.  Left out: the order of siblings, which branches are expanded, *)
(* search and the other fields of the editor, and dragging in pixels.      *)
(***************************************************************************)
EXTENDS Naturals, Sequences, SequencesExt

CONSTANTS
    Tags,    \* number of tags there may be
    Slots,   \* bound: listings, and commands, under way at a time
    MaxActs  \* bound: commands of the author, and requests that fail

Tag == 1..Tags
New == Tags + 1   \* the editor of a tag that is not there yet

VARIABLES
    forest,    \* the server's tags, and its edges <<parent, child>>
    managing,  \* the page is mounted
    slug,      \* the tag in its route, New, or 0
    phase, copy, \* what the page shows
    reads,     \* listings under way: the forest as it was when they were sent
    view, under, \* tree or list, and the parent that the list is narrowed to
    marking, marks, \* select mode and what is selected
    modal,     \* the editor: its tag, and the boxes that are ticked
    initial,   \* _initialParentIds, _initialChildIds
    prompt,    \* a dialog: what for, and what the page gave it
    runs,      \* commands under way
    tagActs,
    (* history *)
    mixups,    \* what crossed what
    misfiled,  \* a save was reported of a place the tag does not have
    unfiled,   \* a tag lost a parent to a command that keeps parents
    shut       \* an editor was closed by something else than its author

tagVars == <<forest, managing, slug, phase, copy, reads, view, under, marking, marks, modal,
             initial, prompt, runs, tagActs, mixups, misfiled, unfiled, shut>>
histories == <<mixups, misfiled, unfiled, shut>>

NoBoxes == [parents |-> {}, children |-> {}]
NoModal == [tag |-> 0, boxes |-> NoBoxes]
NoDialog == [kind |-> "none", tag |-> 0, ids |-> {}, parents |-> {}, offered |-> {}]

ParentsOf(h, t) == {p \in h.tags : <<p, t>> \in h.edges}
ChildrenOf(h, t) == {c \in h.tags : <<t, c>> \in h.edges}

(* Tags, and the tags below them.                                          *)
Downward(h, tops) ==
    LET reached[n \in 0..Tags] ==
            IF n = 0 THEN tops
            ELSE reached[n - 1] \cup {e[2] : e \in {d \in h.edges : d[1] \in reached[n - 1]}}
    IN  reached[Tags]

Requests == {"count", "touch", "order", "parents", "children", "create", "merge", "delete"}

TypeOK ==
    /\ forest \in [tags : SUBSET Tag, edges : SUBSET (Tag \X Tag)]
    /\ managing \in BOOLEAN /\ slug \in 0..New
    /\ phase \in {"loading", "shown", "failed"}
    /\ copy \in [tags : SUBSET Tag, edges : SUBSET (Tag \X Tag)]
    /\ Len(reads) \in 0..Slots
    /\ view \in {"tree", "list"} /\ under \in 0..Tags
    /\ marking \in BOOLEAN /\ marks \subseteq Tag
    /\ modal.tag \in 0..New
    /\ {modal.boxes, initial} \subseteq [parents : SUBSET Tag, children : SUBSET Tag]
    /\ prompt.kind \in {"none", "delete", "merge", "move", "drop", "move all", "delete all"}
    /\ Len(runs) \in 0..Slots
    /\ \A k \in DOMAIN runs : \A n \in DOMAIN runs[k].todo : runs[k].todo[n].kind \in Requests
    /\ tagActs \in 0..MaxActs
    /\ {misfiled, unfiled, shut} \subseteq BOOLEAN

Init ==
    /\ managing = TRUE /\ slug \in {0, 2, New}
    /\ forest = [tags |-> IF slug = New THEN {1, 2} ELSE Tag, edges |-> {<<1, 2>>}]
    /\ phase = "loading" /\ copy = [tags |-> {}, edges |-> {}]
    /\ reads = <<forest>>
    /\ view \in (IF slug = 0 THEN {"tree", "list"} ELSE {"tree"}) /\ under = 0
    /\ marking = FALSE /\ marks = {}
    /\ modal = NoModal /\ initial = NoBoxes
    /\ prompt = NoDialog
    /\ runs = <<>>
    /\ tagActs = 0
    /\ mixups = {} /\ misfiled = FALSE /\ unfiled = FALSE /\ shut = FALSE

(***************************************************************************)
(* The hierarchy on the screen.                                            *)
(***************************************************************************)

(* The tags at the top, and below them along chains that repeat no tag.    *)
InTree == Downward(copy, {t \in copy.tags : ParentsOf(copy, t) = {}})

Matches(t) == under = 0 \/ under \in ParentsOf(copy, t)

Rows == IF view = "tree" THEN InTree ELSE {t \in copy.tags : Matches(t)}

(* Mutant: the filter of the list is forgotten.                            *)
SelectableEvery == copy.tags

(* What "select all" ticks.  (Only the list can be narrowed.)              *)
Selectable == IF view = "list" THEN {t \in copy.tags : Matches(t)} ELSE copy.tags

(* The tags that a flow may target.                                        *)
Candidates(excluded) == copy.tags \ excluded

(* The boxes that an editor starts with.                                   *)
Selection(t, parent) ==
    IF t \in Tag THEN [parents |-> ParentsOf(copy, t), children |-> ChildrenOf(copy, t)]
    ELSE [parents |-> IF parent = 0 THEN {} ELSE {parent}, children |-> {}]

(* Mutant: the parents it had are not added back.                          *)
ParentsWithout(parents, p) == IF p \in parents THEN {} ELSE {p}

(* The parents of a tag that is filed under one more, or none if it is     *)
(* there already: no request is needed then.                               *)
ParentsWith(parents, p) == IF p \in parents THEN {} ELSE parents \cup {p}

(***************************************************************************)
(* The server.                                                             *)
(***************************************************************************)

(* A replacement clears first, and then adds one by one until an edge is   *)
(* refused: a cycle, or a tag that is gone.                                *)
Replaced(h, cleared, new) ==
    LET base == [h EXCEPT !.edges = @ \ cleared]
        bad == {e \in new :
                  ~({e[1], e[2]} \subseteq h.tags) \/ e[1] \in Downward(base, {e[2]})}
    IN  [bad |-> bad, edges |-> base.edges]

(* A new tag: it stays when a parent is refused, which is an error, or a   *)
(* child, which is not.                                                    *)
Created(h, boxes) ==
    LET t == CHOOSE u \in Tag : u \notin h.tags
        filed == [tags |-> h.tags \cup {t},
                  edges |-> h.edges \cup {<<p, t>> : p \in boxes.parents \cap h.tags}]
        fits == {c \in boxes.children \cap h.tags : t \notin Downward(filed, {c})}
    IN  IF boxes.parents \subseteq h.tags
        THEN [forest |-> [filed EXCEPT !.edges = @ \cup {<<t, c>> : c \in fits}], ok |-> TRUE]
        ELSE [forest |-> filed, ok |-> FALSE]

(* The forests that a request may leave, each with whether it succeeded.   *)
(* The parent that a flow adds comes last.                                 *)
Handled(h, q) ==
    LET set(cleared, new, last) ==
            LET r == Replaced(h, cleared, new)
                kept == IF r.bad = {} THEN {new}
                        ELSE IF r.bad = last THEN {new \ last}
                        ELSE SUBSET (new \ r.bad)
            IN  {[forest |-> [h EXCEPT !.edges = r.edges \cup es], ok |-> r.bad = {}] : es \in kept}
        gone == {[forest |-> h, ok |-> FALSE]}
        same == {[forest |-> h, ok |-> TRUE]}
    IN  CASE q.kind = "count" -> same
          [] q.kind = "create" -> IF h.tags = Tag THEN gone ELSE {Created(h, q.set)}
          [] q.tag \notin h.tags -> gone
          [] q.kind = "touch" -> same
          [] q.kind = "order" -> IF <<q.last, q.tag>> \in h.edges THEN same ELSE gone
          [] q.kind = "delete" ->
                 {[forest |-> [tags |-> h.tags \ {q.tag},
                               edges |-> {e \in h.edges : q.tag \notin {e[1], e[2]}}],
                   ok |-> TRUE]}
          [] q.kind = "merge" ->
                 LET as(x) == IF x = q.tag THEN q.last ELSE x
                 IN  IF q.last \notin h.tags THEN gone
                     ELSE {[forest |-> [tags |-> h.tags \ {q.tag},
                                        edges |-> {<<as(e[1]), as(e[2])>> : e \in h.edges}],
                            ok |-> TRUE]}
          [] q.kind = "parents" ->
                 set({e \in h.edges : e[2] = q.tag}, {<<p, q.tag>> : p \in q.set.parents},
                     IF q.last = 0 THEN {} ELSE {<<q.last, q.tag>>})
          [] OTHER ->
                 set({e \in h.edges : e[1] = q.tag}, {<<q.tag, c>> : c \in q.set.children}, {})

Request(kind, t, boxes, last) ==
    [kind |-> kind, tag |-> t, set |-> boxes, last |-> last, diff |-> FALSE]
Plain(kind, t) == Request(kind, t, NoBoxes, 0)
Refile(t, ps, last) == Request("parents", t, [parents |-> ps, children |-> {}], last)
Order(t, p) == Request("order", t, NoBoxes, p)

(***************************************************************************)
(* The page.                                                               *)
(***************************************************************************)

(* _load: setState does nothing after the page was left.                   *)
Load ==
    /\ Len(reads) < Slots
    /\ reads' = Append(reads, forest')
    /\ phase' = IF managing' THEN "loading" ELSE phase

(* _openModal; an editor that is open gives way.                           *)
OpenModal(t, h, parent) ==
    /\ modal' = [tag |-> t, boxes |->
                   IF t \in Tag THEN [parents |-> ParentsOf(h, t), children |-> ChildrenOf(h, t)]
                   ELSE Selection(t, parent)]
    /\ initial' = modal'.boxes

(* The last answer wins.  A route that names a tag opens its editor, every *)
(* time, even when the page has been left.                                 *)
Listed ==
    /\ reads # <<>>
    /\ \E k \in DOMAIN reads : \E h \in {reads[k], forest} :
        LET opens == slug = New \/ slug \in h.tags
        IN  /\ reads' = RemoveAt(reads, k)
            /\ copy' = IF managing THEN h ELSE copy
            /\ phase' = IF managing THEN "shown" ELSE phase
            /\ IF opens THEN OpenModal(slug, h, 0) ELSE UNCHANGED <<modal, initial>>
            /\ mixups' = mixups \cup (IF k = 1 THEN {} ELSE {"reordered"})
                              \cup (IF opens THEN {"routed"} ELSE {})
                              \cup (IF marks = {} THEN {} ELSE {"narrowed"})
            /\ shut' = (shut \/ (opens /\ modal.tag # 0))
    /\ UNCHANGED <<forest, managing, slug, view, under, marking, marks, prompt, runs, tagActs,
                   misfiled, unfiled>>

ListFails ==
    /\ reads # <<>> /\ tagActs < MaxActs /\ tagActs' = tagActs + 1
    /\ \E k \in DOMAIN reads :
        /\ reads' = RemoveAt(reads, k)
        /\ mixups' = mixups \cup (IF k = 1 THEN {} ELSE {"reordered"})
    /\ IF managing THEN phase' = "failed" /\ copy' = [tags |-> {}, edges |-> {}]
       ELSE UNCHANGED <<phase, copy>>
    /\ UNCHANGED <<forest, managing, slug, view, under, marking, marks, modal, initial, prompt,
                   runs, misfiled, unfiled, shut>>

Command == tagActs < MaxActs /\ tagActs' = tagActs + 1

(* The page can be used: it shows the tags, and nothing lies over it.      *)
OnPage == managing /\ phase = "shown" /\ modal.tag = 0 /\ prompt = NoDialog

Saving == \E k \in DOMAIN runs : runs[k].kind = "save"

(* The editor of a row, or of a new tag at the top or below a row.         *)
Edit ==
    /\ OnPage /\ Command
    /\ \/ \E t \in Rows : OpenModal(t, copy, 0)
       \/ \E p \in {0} \cup (IF view = "tree" THEN Rows ELSE {}) : OpenModal(New, copy, p)
    /\ mixups' = mixups \cup (IF Saving THEN {"reopened"} ELSE {})
                      \cup (IF runs # <<>> \/ copy # forest THEN {"stale"} ELSE {})
    /\ UNCHANGED <<forest, managing, slug, phase, copy, reads, view, under, marking, marks, prompt,
                   runs, misfiled, unfiled, shut>>

CloseModal ==
    /\ modal.tag # 0
    /\ modal' = NoModal
    /\ UNCHANGED <<forest, managing, slug, phase, copy, reads, view, under, marking, marks,
                   initial, prompt, runs, tagActs, histories>>

(* Mutant: children are only looked at when the parents have changed.      *)
DueTogether(todo) ==
    IF todo # <<>> /\ Head(todo).diff /\ Head(todo).set.parents = initial.parents THEN <<>>
    ELSE todo

(***************************************************************************)
(* Commands that make requests.                                            *)
(***************************************************************************)
(* The structure calls of a save are skipped when the boxes are those that *)
(* the editor started with: the editor that is open by then.               *)
Due(todo) ==
    LET changed(q) ==
            \/ ~q.diff
            \/ q.kind = "parents" /\ q.set.parents # initial.parents
            \/ q.kind = "children" /\ q.set.children # initial.children
        n == SelectInSeq(todo, changed)
    IN  IF n = 0 THEN <<>> ELSE SubSeq(todo, n, Len(todo))

(* What is done when the last request has succeeded, or in bulk has been   *)
(* answered: close the editor, or leave select mode; and load.             *)
Finish(run) ==
    /\ Load
    /\ IF run.kind = "save" /\ run.close
       THEN modal' = NoModal /\ shut' = (shut \/ modal.tag \notin {0, run.tag})
       ELSE UNCHANGED <<modal, shut>>
    /\ IF run.kind = "bulk" /\ managing THEN marking' = FALSE /\ marks' = {}
       ELSE UNCHANGED <<marking, marks>>
    /\ misfiled' = (misfiled \/
          /\ run.kind = "save" /\ run.tag \in Tag
          /\ \/ ParentsOf(forest', run.tag) # run.boxes.parents
             \/ ChildrenOf(forest', run.tag) # run.boxes.children)

Run(kind, t, todo) ==
    [kind |-> kind, tag |-> t, todo |-> todo, boxes |-> NoBoxes, close |-> FALSE, failed |-> FALSE]

(* A flow that needs no request at all is done at once.                    *)
Begin(run) ==
    /\ UNCHANGED forest
    /\ IF run.todo = <<>>
       THEN Finish(run) /\ UNCHANGED <<runs, mixups>>
       ELSE /\ Len(runs) < Slots /\ runs' = Append(runs, run)
            /\ mixups' = IF runs = <<>> THEN mixups ELSE mixups \cup {"overlapped"}
            /\ UNCHANGED <<reads, phase, modal, marking, marks, misfiled, shut>>

(* The next request of a run is answered.  What failed is not undone, and, *)
(* except in bulk, nothing is reloaded and nothing more is sent.           *)
Step ==
    /\ UNCHANGED <<managing, slug, copy, view, under, initial, prompt>>
    /\ \E k \in DOMAIN runs :
        LET run == runs[k]
            q == Head(run.todo)
            outcomes == Handled(forest, q)
            faults == {[forest |-> h, ok |-> FALSE] :
                         h \in {o.forest : o \in outcomes} \cup {forest}}
            bulk == run.kind = "bulk"
        IN  \E o \in outcomes \cup faults :
             LET rest == IF o.ok THEN Due(Tail(run.todo)) ELSE Tail(run.todo)
                 on == [run EXCEPT !.todo = rest, !.failed = @ \/ ~o.ok]
             IN  /\ IF o \in outcomes THEN UNCHANGED tagActs ELSE Command
                 /\ forest' = o.forest
                 /\ unfiled' = (unfiled \/
                       /\ run.kind = "keep" /\ q.kind = "parents"
                       /\ ~(ParentsOf(forest, q.tag) \subseteq ParentsOf(forest', q.tag)))
                 /\ mixups' = mixups
                       \cup (IF o.ok \/ bulk THEN {} ELSE {"failed"})
                       \cup (IF o \in outcomes THEN {} ELSE {"faulty"})
                       \cup (IF q.kind = "merge" THEN {"merged"} ELSE {})
                 /\ IF ~o.ok /\ ~bulk
                    THEN /\ runs' = RemoveAt(runs, k)
                         /\ UNCHANGED <<reads, phase, modal, marking, marks, misfiled, shut>>
                    ELSE IF rest = <<>> THEN runs' = RemoveAt(runs, k) /\ Finish(on)
                    ELSE /\ runs' = [runs EXCEPT ![k] = on]
                         /\ UNCHANGED <<reads, phase, modal, marking, marks, misfiled, shut>>

(* A box of the editor is ticked or unticked, or none.                     *)
Ticked(boxes, t) ==
    LET flip(set) == {IF u \in set THEN set \ {u} ELSE set \cup {u} : u \in copy.tags \ {t}}
    IN  {boxes} \cup {[boxes EXCEPT !.parents = ps] : ps \in flip(boxes.parents)}
                \cup {[boxes EXCEPT !.children = cs] : cs \in flip(boxes.children)}

(* _handleSave, of the button, of Ctrl+S and of a text that is maximised,  *)
(* which leaves the editor open.                                           *)
Save ==
    /\ modal.tag # 0 /\ Command /\ Len(runs) < Slots
    /\ \E boxes \in Ticked(modal.boxes, modal.tag), close \in BOOLEAN :
        LET t == modal.tag
            changed(kind) == [Request(kind, t, boxes, 0) EXCEPT !.diff = TRUE]
            todo == IF t = New THEN <<Request("create", t, boxes, 0)>>
                    ELSE <<Plain("touch", t), changed("parents"), changed("children")>>
        IN  /\ modal' = [modal EXCEPT !.boxes = boxes]
            /\ runs' = Append(runs, [Run("save", t, todo) EXCEPT !.boxes = boxes, !.close = close])
            /\ mixups' = mixups \cup (IF runs = <<>> THEN {} ELSE {"overlapped"})
                              \cup (IF close THEN {} ELSE {"kept"})
    /\ UNCHANGED <<forest, managing, slug, phase, copy, reads, view, under, marking, marks,
                   initial, prompt, misfiled, unfiled, shut>>

(* A dialog takes what the page shows with it.                             *)
Ask(kind, t, ids, offered) ==
    /\ OnPage /\ Command
    /\ prompt' = [kind |-> kind, tag |-> t, ids |-> ids, offered |-> offered,
                  parents |-> IF t = 0 THEN {} ELSE ParentsOf(copy, t)]
    /\ mixups' = mixups \cup (IF runs # <<>> \/ copy # forest THEN {"stale"} ELSE {})
    /\ UNCHANGED <<forest, managing, slug, phase, copy, reads, view, under, marking, marks, modal,
                   initial, runs, misfiled, unfiled, shut>>

AskDelete == \E t \in Rows : Ask("delete", t, {}, {})
AskMerge == view = "tree" /\ \E t \in Rows : Ask("merge", t, {}, Candidates({t}))
AskMove == view = "tree" /\ \E t \in Rows : Ask("move", t, {}, Candidates({t}))
Drop == view = "tree" /\ \E t \in Rows : \E p \in Rows \ {t} : Ask("drop", t, {}, {p})
AskAll ==
    /\ marking /\ marks # {}
    /\ \/ Ask("delete all", 0, marks, {})
       \/ Candidates(marks) # {} /\ Ask("move all", 0, marks, Candidates(marks))

(* The dialog closes, and then its requests start.                         *)
Confirm ==
    /\ prompt # NoDialog /\ prompt' = NoDialog
    /\ UNCHANGED <<managing, slug, copy, view, under, initial, tagActs, unfiled>>
    /\ LET t == prompt.tag
           also(p) == LET ps == ParentsWith(prompt.parents, p)
                      IN  IF ps = {} THEN <<>> ELSE <<Refile(t, ps, p)>>
           each(Op(_)) == LET ids == SetToSeq(prompt.ids)
                          IN  Run("bulk", 0, [n \in DOMAIN ids |-> Op(ids[n])])
       IN  CASE prompt.kind = "delete" -> Begin(Run("flow", t, <<Plain("delete", t)>>))
             [] prompt.kind = "merge" ->
                    \E w \in prompt.offered :
                        Begin(Run("flow", t, <<Request("merge", t, NoBoxes, w)>>))
             [] prompt.kind = "move" ->
                    \E p \in prompt.offered : Begin(Run("keep", t, Append(also(p), Order(t, p))))
             [] prompt.kind = "drop" ->
                    \E p \in prompt.offered :
                        \/ Begin(Run("flow", t, <<Refile(t, {p}, 0)>>))
                        \/ Begin(Run("keep", t, also(p)))
             [] prompt.kind = "delete all" ->
                    LET Delete(id) == Plain("delete", id) IN Begin(each(Delete))
             [] OTHER ->
                    \E p \in prompt.offered :
                        LET Move(id) == Refile(id, {p}, 0) IN Begin(each(Move))

(* Recalculate, a drop between siblings, and visibility in bulk ask        *)
(* nothing first.                                                          *)
Direct ==
    /\ OnPage /\ Command
    /\ \/ Begin(Run("flow", 0, <<Plain("count", 0)>>))
       \/ /\ view = "tree"
          /\ \E e \in copy.edges : {e[1], e[2]} \subseteq Rows
                /\ Begin(Run("flow", e[2], <<Order(e[2], e[1])>>))
       \/ /\ marking /\ marks # {}
          /\ LET ids == SetToSeq(marks)
             IN  Begin(Run("bulk", 0, [n \in DOMAIN ids |-> Plain("touch", ids[n])]))
    /\ UNCHANGED <<managing, slug, copy, view, under, initial, prompt, unfiled>>

(***************************************************************************)
(* Select mode, and the list's filter.                                     *)
(***************************************************************************)
Marked(mode, set) ==
    /\ OnPage
    /\ marking' = mode /\ marks' = set
    /\ UNCHANGED <<forest, managing, slug, phase, copy, reads, view, under, modal, initial, prompt,
                   runs, misfiled, unfiled, shut>>

Enter ==
    /\ Command
    /\ \/ Marked(~marking, {})
       \/ ~marking /\ \E t \in Rows : Marked(TRUE, {t})
    /\ mixups' = mixups \ {"narrowed"}

MarkAll ==
    /\ marking /\ Marked(TRUE, Selectable)
    /\ mixups' = mixups \ {"narrowed"} /\ UNCHANGED tagActs

Mark ==
    /\ marking
    /\ \E t \in Rows : Marked(TRUE, IF t \in marks THEN marks \ {t} ELSE marks \cup {t})
    /\ UNCHANGED <<mixups, tagActs>>

(* The selection is not looked at when rows come and go.                   *)
Narrow ==
    /\ OnPage /\ Command
    /\ \/ view' \in {"tree", "list"} \ {view} /\ UNCHANGED under
       \/ view = "list" /\ under' \in {0} \cup {e[1] : e \in copy.edges} /\ UNCHANGED view
    /\ mixups' = IF marks = {} THEN mixups ELSE mixups \cup {"narrowed"}
    /\ UNCHANGED <<forest, managing, slug, phase, copy, reads, marking, marks, modal, initial,
                   prompt, runs, misfiled, unfiled, shut>>

(* beforeUnmount: the editor goes; dialogs and requests stay.              *)
Leave ==
    /\ managing /\ Command
    /\ managing' = FALSE
    /\ modal' = NoModal
    /\ UNCHANGED <<forest, slug, phase, copy, reads, view, under, marking, marks, initial,
                   prompt, runs, histories>>

Next ==
    \/ Listed \/ ListFails \/ Step
    \/ Edit \/ Save \/ CloseModal
    \/ AskDelete \/ AskMerge \/ AskMove \/ Drop \/ AskAll \/ Confirm \/ Direct
    \/ Enter \/ MarkAll \/ Mark \/ Narrow \/ Leave

(***************************************************************************)
(* Properties.                                                             *)
(***************************************************************************)

(* At rest the page shows the hierarchy that the server has: unless a      *)
(* command failed, which reloads nothing, or listings came out of order.   *)
ListIsCurrent ==
    managing /\ phase = "shown" /\ runs = <<>> /\ reads = <<>> =>
        copy = forest \/ mixups \cap {"failed", "reordered"} # {}

(* A tag that was reported as saved is where its boxes said: unless another *)
(* editor was opened meanwhile, the editor had been saved before, or it    *)
(* was opened on a copy that was out of date.                              *)
SavedIsStored ==
    misfiled => mixups \cap {"reopened", "routed", "kept", "stale", "overlapped", "failed"} # {}

(* To move a tag, or to file it under another as well, keeps the parents   *)
(* it has, even when the server refuses: unless the dialog was opened on a *)
(* copy that was out of date, or a request failed halfway.                 *)
FilingsKept == unfiled => mixups \cap {"stale", "overlapped", "faulty"} # {}

(* Nobody closes an editor but its author and its own save: except a save  *)
(* that it was opened under, and the route.                                *)
EditorStays == shut => mixups \cap {"reopened", "routed"} # {}

(* Nothing is selected that the list does not show: unless rows have come  *)
(* or gone since.                                                          *)
PickedAreShown ==
    marking /\ phase = "shown" /\ view = "list" /\ "narrowed" \notin mixups => marks \subseteq Rows

(* The tree loses no tag: unless tags above one another were merged, whose *)
(* cycle hangs from no top.                                                *)
TreeHoldsAll == InTree = copy.tags \/ "merged" \in mixups

(* No editor lies over another page, unless its route opened it there.     *)
NoEditorElsewhere == ~managing => modal.tag = 0 \/ "routed" \in mixups

=============================================================================
