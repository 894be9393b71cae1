----------------------------- MODULE MenuEditor -----------------------------
(***************************************************************************)
(* The editor of the site's menu (plugins/nav-menu/MenuPage.ts): rows with *)
(* a name, an address and a depth, edited in place or as markdown.  Typing *)
(* is in the document only; state.items is the list as of the last change  *)
(* of its shape.  A preview is drawn beside it, and a save changes the     *)
(* settings that the public header reads.                                  *)
(***************************************************************************)
EXTENDS Naturals, Sequences, SequencesExt

CONSTANTS
    MaxRows,   \* bound: rows of the menu
    MaxDepth,  \* bound: steps that a row is indented (3 in the code)
    MaxEdits   \* bound: what the author does, and requests that fail

VARIABLES
    menuPhase, \* "loading", "ready" or "error"
    menuMode,  \* state.mode
    format,    \* state.editFormat
    items,     \* state.items
    inputs,    \* what the editor on the screen holds, in rows or in lines
    preview,   \* the entries of the preview, and whether it is due to be drawn again
    grip,      \* the row whose handle was pressed or that is dragged
    saves,     \* the save under way: what was sent
    served,    \* the menu on the server
    settings,  \* the store's nav_menu_mode
    editActs,
    (* history *)
    menuMeant, \* the rows as the author has made them
    lapses     \* why the editor or the store may differ from them

menuVars == <<menuPhase, menuMode, format, items, inputs, preview, grip, saves, served, settings,
              editActs, menuMeant, lapses>>

Mode == {"tags", "custom", "none"}
(* A name, none, or one that markdown reads as something else.             *)
Label == {"A", "", "odd"}
Row == [label : Label, url : BOOLEAN, depth : 0..MaxDepth]
Rows == UNION {[1..n -> Row] : n \in 0..MaxRows}
NoGrip == [row |-> 0, drag |-> FALSE]
NoSave == [on |-> FALSE, mode |-> "tags", rows |-> <<>>]

TypeOK ==
    /\ menuPhase \in {"loading", "ready", "error"}
    /\ {menuMode, settings} \subseteq Mode /\ format \in {"visual", "markdown"}
    /\ {items, inputs, menuMeant} \subseteq Rows
    /\ preview.of \in Rows /\ preview.due \in BOOLEAN
    /\ grip \in [row : 0..MaxRows, drag : BOOLEAN]
    /\ saves.on \in BOOLEAN /\ saves.mode \in Mode /\ saves.rows \in Rows
    /\ served.mode \in Mode /\ served.rows \in Rows
    /\ editActs \in 0..MaxEdits
    /\ lapses \subseteq {"garbled", "inFlight", "lost"}

(* namedItems.                                                             *)
Named(rs) == SelectSeq(rs, LAMBDA r : r.label # "")

(* serializeMarkdown and parseMarkdown, one after the other: a row without *)
(* a name is dropped, and a bracket in a linked name breaks the link.      *)
Parsed(rs) ==
    LET named == Named(rs)
    IN  [i \in DOMAIN named |-> IF named[i].label = "odd" /\ named[i].url
                                THEN [named[i] EXCEPT !.label = "A", !.url = FALSE] ELSE named[i]]

Garbles(rs) == Parsed(rs) # Named(rs)

(* Mutant: rows that have no name yet are not collected.                   *)
CollectedNamed == Named(inputs)

(* _collectVisualItems.                                                    *)
Collected == inputs

(* _currentItems.                                                          *)
CurrentItems ==
    IF menuMode # "custom" THEN items ELSE IF format = "visual" THEN Collected ELSE Parsed(inputs)

(* The tree that is saved: a row goes below the last row before it that is *)
(* less deep, of those that are still open.                                *)
Top(rs) == SelectSeq([i \in DOMAIN rs |-> [row |-> rs[i], at |-> i]],
                     LAMBDA e : \A j \in 1..(e.at - 1) : rs[j].depth >= e.row.depth)
Roots(rs) == LET top == Top(rs) IN [i \in DOMAIN top |-> top[i].row]

(* _previewItems.                                                          *)
Previewed(mode, rs) ==
    IF mode = "custom" THEN SelectSeq(Named(rs), LAMBDA r : r.depth = 0) ELSE <<>>

Fresh(mode, rs) == preview' = [of |-> Previewed(mode, rs), due |-> FALSE]

(* setState with these rows: the editor is drawn from them.                *)
Drawn(mode, as, rs) ==
    /\ menuMode' = mode /\ format' = as /\ items' = rs
    /\ inputs' = IF mode # "custom" THEN <<>> ELSE IF as = "visual" THEN rs ELSE Named(rs)
    /\ Fresh(mode, IF as = "visual" THEN rs ELSE Parsed(rs))
    /\ grip' = NoGrip

Act == editActs < MaxEdits /\ editActs' = editActs + 1

Init ==
    /\ menuPhase = "loading" /\ menuMode = "tags" /\ format = "visual" /\ items = <<>>
    /\ inputs = <<>> /\ preview = [of |-> <<>>, due |-> FALSE] /\ grip = NoGrip
    /\ saves = NoSave
    /\ served \in [mode : {"tags", "custom"},
                    rows : {<<>>, <<[label |-> "A", url |-> TRUE, depth |-> 0]>>}]
    /\ settings = served.mode
    /\ editActs = 0 /\ menuMeant = <<>> /\ lapses = {}

Load(ok) ==
    /\ menuPhase = "loading"
    /\ IF ok
       THEN /\ menuPhase' = "ready" /\ Drawn(served.mode, "visual", Parsed(served.rows))
            /\ menuMeant' = items'
       ELSE /\ menuPhase' = "error"
            /\ UNCHANGED <<menuMode, format, items, inputs, preview, grip, menuMeant>>
    /\ UNCHANGED <<saves, served, settings, editActs, lapses>>

-----------------------------------------------------------------------------
Ready == menuPhase = "ready"
Editing(as) == Ready /\ menuMode = "custom" /\ format = as /\ ~grip.drag
Rest == UNCHANGED <<menuPhase, saves, served, settings>>

(* History: what a markdown text of rows rs would lose.                    *)
GarbledBy(rs) == IF Garbles(rs) THEN lapses \cup {"garbled"} ELSE lapses

(* The author means the same change of what he sees.                       *)
Means(rs) == menuMeant' = rs

SetMode(mode) ==
    /\ Ready /\ mode # menuMode /\ ~grip.drag /\ Act
    /\ Drawn(mode, format, CurrentItems)
    /\ Rest /\ UNCHANGED <<menuMeant, lapses>>

ToVisual ==
    /\ Editing("markdown") /\ Act
    /\ Drawn("custom", "visual", Parsed(inputs))
    /\ Means(Named(menuMeant)) /\ Rest /\ UNCHANGED lapses

ToMarkdown ==
    /\ Editing("visual") /\ Act
    /\ Drawn("custom", "markdown", Collected)
    /\ lapses' = GarbledBy(Collected)
    /\ Rest /\ UNCHANGED menuMeant

(* A change of shape, to rows rs; meant is what the author asked for.      *)
Shape(rs, meant) ==
    /\ Editing("visual") /\ Act
    /\ Drawn("custom", "visual", rs) /\ Means(meant)
    /\ Rest /\ UNCHANGED lapses

New == [label |-> "", url |-> FALSE, depth |-> 0]
Add == Len(inputs) < MaxRows /\ Shape(Append(Collected, New), Append(inputs, New))

Delete(i) ==
    /\ i \in DOMAIN inputs
    /\ Shape(IF i \in DOMAIN Collected THEN RemoveAt(Collected, i) ELSE Collected,
             RemoveAt(inputs, i))

Deeper(r) == [r EXCEPT !.depth = IF @ < MaxDepth THEN @ + 1 ELSE @]
Higher(r) == [r EXCEPT !.depth = IF @ > 0 THEN @ - 1 ELSE 0]

Indent(i, in) ==
    LET Of(rs) == IF i \notin DOMAIN rs THEN rs
                  ELSE [rs EXCEPT ![i] = IF in THEN Deeper(@) ELSE Higher(@)]
    IN  /\ i \in DOMAIN inputs
        /\ Shape(Of(Collected), Of(inputs))

(* The handle arms a row, the mouse lets it go or drags it to another row. *)
Press(i) ==
    /\ Editing("visual") /\ i \in DOMAIN inputs /\ grip = NoGrip /\ Act
    /\ grip' = [row |-> i, drag |-> TRUE]
    /\ Rest /\ UNCHANGED <<menuMode, format, items, inputs, preview, menuMeant, lapses>>

Moved(rs, i, j) ==
    IF i \notin DOMAIN rs THEN rs
    ELSE InsertAt(RemoveAt(rs, i), IF j <= Len(rs) THEN j ELSE Len(rs), rs[i])

Drop(j) ==
    /\ grip.drag /\ j \in 0..Len(inputs)
    /\ IF j \in {0, grip.row}
       THEN grip' = NoGrip /\ UNCHANGED <<menuMode, format, items, inputs, preview, menuMeant>>
       ELSE /\ Drawn("custom", "visual", Moved(Collected, grip.row, j))
            /\ Means(Moved(inputs, grip.row, j))
    /\ Rest /\ UNCHANGED <<editActs, lapses>>

(* A name or an address is typed: no redraw.                               *)
Type(i, label, url) ==
    /\ Ready /\ menuMode = "custom" /\ ~grip.drag /\ i \in DOMAIN inputs /\ Act
    /\ label = "" => format = "visual"
    /\ <<label, url>> # <<inputs[i].label, inputs[i].url>>
    /\ inputs' = [inputs EXCEPT ![i].label = label, ![i].url = url]
    /\ preview' = [preview EXCEPT !.due = TRUE]
    /\ Means(inputs')
    /\ lapses' = IF format = "markdown" THEN GarbledBy(inputs') ELSE lapses
    /\ Rest /\ UNCHANGED <<menuMode, format, items, grip>>

(* 300 ms after the last key.                                              *)
Preview ==
    /\ preview.due /\ Fresh(menuMode, CurrentItems)
    /\ Rest /\ UNCHANGED <<menuMode, format, items, inputs, grip, editActs, menuMeant, lapses>>

-----------------------------------------------------------------------------
(* Mutant: the rows of the last change of shape are saved.                 *)
SentItems == IF menuMode = "custom" THEN Named(items) ELSE <<>>

(* _handleSave: what is on the screen, which stays there while it is sent. *)
Sent == IF menuMode = "custom" THEN Named(CurrentItems) ELSE <<>>

Save ==
    /\ Ready /\ ~saves.on /\ ~grip.drag /\ Act
    /\ saves' = [on |-> TRUE, mode |-> menuMode, rows |-> Sent]
    /\ UNCHANGED <<menuPhase, menuMode, format, items, inputs, preview, grip, served, settings,
                   menuMeant, lapses>>

(* The answer: the store takes the mode that is chosen now.                *)
Saved ==
    /\ saves.on /\ saves' = NoSave
    /\ served' = [mode |-> saves.mode, rows |-> saves.rows]
    /\ settings' = menuMode
    /\ lapses' = IF menuMode = saves.mode THEN lapses \ {"inFlight", "lost"}
                 ELSE lapses \cup {"inFlight"}
    /\ UNCHANGED <<menuPhase, menuMode, format, items, inputs, preview, grip, editActs, menuMeant>>

(* The request fails, or its answer is lost after the server has written.  *)
SaveFails(written) ==
    /\ saves.on /\ saves' = NoSave /\ Act
    /\ IF written
       THEN served' = [mode |-> saves.mode, rows |-> saves.rows] /\ lapses' = lapses \cup {"lost"}
       ELSE UNCHANGED <<served, lapses>>
    /\ UNCHANGED <<menuPhase, menuMode, format, items, inputs, preview, grip, settings, menuMeant>>

Next ==
    \/ \E ok \in BOOLEAN : Load(ok) \/ SaveFails(ok)
    \/ \E m \in Mode : SetMode(m)
    \/ ToVisual \/ ToMarkdown \/ Add \/ Preview \/ Save \/ Saved
    \/ \E i \in 1..MaxRows : Delete(i) \/ Press(i) \/ \E in \in BOOLEAN : Indent(i, in)
    \/ \E j \in 0..MaxRows : Drop(j)
    \/ \E i \in 1..MaxRows, l \in Label, u \in BOOLEAN : Type(i, l, u)

(***************************************************************************)
(* Properties.                                                             *)
(***************************************************************************)

(* Whatever the author has typed and moved is what the editor holds, or    *)
(* would hold if he came back to it, and what a save sends; unless a name  *)
(* that markdown cannot carry went through it.                             *)
EditsKept ==
    Ready /\ "garbled" \notin lapses =>
        /\ Named(CurrentItems) = Named(menuMeant)
        /\ menuMode = "custom" => Sent = Named(menuMeant)

(* A preview that is not about to be drawn again shows the entries at the  *)
(* top of the menu that a save would build; but for a row that is deep     *)
(* though no row above it is less deep, which goes to the top unseen.      *)
PreviewIsMenu ==
    LET roots == Roots(Named(CurrentItems))
    IN  Ready /\ menuMode = "custom" /\ ~preview.due
            /\ (\A i \in DOMAIN roots : roots[i].depth = 0) => preview.of = roots

(* The store has the mode that the server has, unless another one was      *)
(* chosen while a save was under way, or the answer of one was lost; the   *)
(* next save whose mode stays mends both.                                  *)
StoreIsServers ==
    ~saves.on /\ lapses \cap {"inFlight", "lost"} = {} => settings = served.mode

=============================================================================
