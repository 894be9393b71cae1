--------------------------- MODULE SettingsDrawer ---------------------------
(***************************************************************************)
(* The forms over settings: the drawers that pages/light/PluginsPage.ts    *)
(* opens (components/light/PluginSettingsPanel.ts, settingsFields.ts), and *)
(* the form of pages/light/SettingsPage.ts.  A form holds a copy of what   *)
(* was stored; what is typed is in the document only, and a redraw puts    *)
(* the copy back.                                                          *)
(*                                                                         *)
(* One setting stands for all.  The drawers that are looked at show the    *)
(* same one, as the maps and the viewers share theirs; the page's is then  *)
(* out of sight, and the other way round.  While a drawer is up the cards  *)
(* behind it stay in reach of the keyboard.  Left out: the sections of a   *)
(* drawer, which are components of their own, and its swipe, which closes  *)
(* it as its button does.                                                  *)
(***************************************************************************)
EXTENDS Integers, Sequences, SequencesExt, FiniteSets

CONSTANTS
    Values, \* number of values of the setting
    MaxActs \* bound: commands of the administrator, and requests that fail

VARIABLES
    onPage,    \* the form is the page's, not a drawer's
    cardsUp,   \* the page is mounted
    setting, merged, \* in the database, and in the store of the tab
    sheets,    \* forms in the order in which they were mounted
    drawer,    \* _panel: a form's number, or 0
    cached,    \* _settingsCache, or 0
    openings,  \* _openPanel or the page's _load under way
    puts,      \* saves under way
    bells,     \* the timers of _close: numbers of forms
    formActs,
    (* history *)
    slack      \* what a form does not expect

formVars == <<onPage, cardsUp, setting, merged, sheets, drawer, cached, openings, puts, bells,
              formActs, slack>>

Value == 1..Values
MaybeValue == 0..Values
Sheet == [up : BOOLEAN, closing : BOOLEAN, saving : BOOLEAN,
          copy : Value, input : Value,
          typed : MaybeValue, \* what was typed and is not saved
          asked : BOOLEAN]    \* to go

TypeOK ==
    /\ {onPage, cardsUp} \subseteq BOOLEAN /\ {setting, merged} \subseteq Value
    /\ sheets \in Seq(Sheet) /\ drawer \in 0..Len(sheets) /\ cached \in MaybeValue
    /\ openings \in Seq([read : MaybeValue, more : BOOLEAN])
    /\ puts \in Seq([sheet : DOMAIN sheets, value : Value, done : BOOLEAN])
    /\ bells \subseteq DOMAIN sheets /\ formActs \in 0..MaxActs
    /\ slack \subseteq {"twice", "left", "reopened", "overlapped", "lost", "failed", "late"}

Init ==
    /\ onPage \in BOOLEAN /\ cardsUp = TRUE
    /\ setting \in Value /\ merged = setting
    /\ sheets = <<>> /\ drawer = 0 /\ cached = 0
    /\ openings = IF onPage THEN <<[read |-> 0, more |-> FALSE]>> ELSE <<>>
    /\ puts = <<>> /\ bells = {} /\ formActs = 0 /\ slack = {}

-----------------------------------------------------------------------------
(* Forms.                                                                  *)
Up == {s \in DOMAIN sheets : sheets[s].up}

(* renderFields: every field from the copy.                                *)
New(value) ==
    [up |-> TRUE, closing |-> FALSE, saving |-> FALSE, copy |-> value, input |-> value,
     typed |-> 0, asked |-> FALSE]

Redrawn(s, saving) ==
    IF sheets[s].up THEN [sheets[s] EXCEPT !.saving = saving, !.input = sheets[s].copy]
    ELSE sheets[s]

(* beforeUnmount takes the drawer off the scroll lock, too.                *)
Gone(all, s) == IF s = 0 THEN all ELSE [all EXCEPT ![s].up = FALSE]

(* Mutant: the settings that were fetched are kept for the next drawer.    *)
ClosePanelKeeping(all) ==
    /\ sheets' = Gone(all, drawer) /\ drawer' = 0 /\ UNCHANGED cached

(* _closePanel: whichever drawer is the page's.  The cache is dropped.     *)
ClosePanel(all) ==
    /\ sheets' = Gone(all, drawer)
    /\ drawer' = 0 /\ cached' = IF drawer = 0 THEN cached ELSE 0

(* The drawer that asks is not the one that is closed.                     *)
Missed(s) == drawer \notin {0, s} /\ sheets[drawer].up

(* _close acts once for a drawer.                                          *)
Answerable(s) == ~sheets[s].closing

Own(act) == formActs < MaxActs /\ formActs' = formActs + act
Still == UNCHANGED <<onPage, setting, merged>>

-----------------------------------------------------------------------------
(* Opening.                                                                *)
Mounted(all, value) ==
    /\ sheets' = Append(all, New(value)) /\ drawer' = Len(all) + 1

(* The one that is up is closed first.  A cached copy is taken as it is,   *)
(* at once, unless the drawer needs to know of a connection as well.       *)
Open ==
    /\ ~onPage /\ cardsUp /\ Own(1)
    /\ LET before == Gone([s \in DOMAIN sheets |->
                              IF s = drawer THEN [sheets[s] EXCEPT !.asked = TRUE]
                              ELSE sheets[s]], drawer)
           kept == IF drawer = 0 THEN cached ELSE 0
       IN  \E more \in BOOLEAN :
            IF kept # 0 /\ ~more
            THEN Mounted(before, kept) /\ UNCHANGED openings /\ cached' = kept
            ELSE /\ sheets' = before /\ drawer' = 0 /\ cached' = kept
                 /\ openings' = Append(openings, [read |-> kept, more |-> more])
    /\ slack' = slack \cup (IF openings # <<>> THEN {"twice"} ELSE {})
                      \cup (IF bells # {} THEN {"reopened"} ELSE {})
                      \cup (IF puts # <<>> THEN {"overlapped"} ELSE {})
    /\ Still /\ UNCHANGED <<cardsUp, puts, bells>>

(* The server reads the settings.                                          *)
Read ==
    \E k \in DOMAIN openings :
        /\ openings[k].read = 0
        /\ openings' = [openings EXCEPT ![k].read = setting]
        /\ Still /\ UNCHANGED <<cardsUp, sheets, drawer, cached, puts, bells, formActs, slack>>

(* The answer, and for some drawers a second one; then the form is         *)
(* mounted, on the body and so whether or not its page is.                 *)
Opened ==
    \E k \in DOMAIN openings :
        /\ openings[k].read # 0
        /\ cached' = IF onPage THEN 0 ELSE openings[k].read
        /\ IF openings[k].more
           THEN openings' = [openings EXCEPT ![k].more = FALSE] /\ UNCHANGED <<sheets, drawer, slack>>
           ELSE /\ openings' = RemoveAt(openings, k)
                /\ IF onPage /\ ~cardsUp THEN UNCHANGED <<sheets, drawer, slack>>
                   ELSE /\ Mounted(sheets, openings[k].read)
                        /\ slack' = slack \cup (IF cardsUp THEN {} ELSE {"left"})
        /\ Still /\ UNCHANGED <<cardsUp, puts, bells, formActs>>

OpenFails ==
    \E k \in DOMAIN openings :
        /\ Own(1) /\ openings' = RemoveAt(openings, k)
        /\ Still /\ UNCHANGED <<cardsUp, sheets, drawer, cached, puts, bells, slack>>

-----------------------------------------------------------------------------
(* Typing and saving.                                                      *)
Type ==
    \E s \in Up, v \in Value :
        /\ Own(1) /\ ~sheets[s].closing /\ v # sheets[s].input
        /\ sheets' = [sheets EXCEPT ![s].input = v, ![s].typed = v]
        /\ slack' = slack \cup (IF sheets[s].saving THEN {"late"} ELSE {})
        /\ Still /\ UNCHANGED <<cardsUp, drawer, cached, openings, puts, bells>>

(* Mutant: the fields are collected after the redraw.                      *)
CollectedRedrawn(s) == sheets[s].copy

(* collectUpdates, from the form as it was before the redraw.              *)
Collected(s) == sheets[s].input

(* _save.  The redraw for the spinner puts the copy back.                  *)
Save ==
    \E s \in Up :
        /\ Own(1) /\ ~sheets[s].saving /\ ~sheets[s].closing
        /\ sheets' = [sheets EXCEPT ![s] = Redrawn(s, TRUE)]
        /\ puts' = Append(puts, [sheet |-> s, value |-> Collected(s), done |-> FALSE])
        /\ slack' = slack \cup (IF puts # <<>> \/ openings # <<>> THEN {"overlapped"} ELSE {})
        /\ Still /\ UNCHANGED <<cardsUp, drawer, cached, openings, bells>>

Write ==
    \E k \in DOMAIN puts :
        /\ ~puts[k].done
        /\ setting' = puts[k].value /\ puts' = [puts EXCEPT ![k].done = TRUE]
        /\ UNCHANGED <<onPage, cardsUp, merged, sheets, drawer, cached, openings, bells, formActs,
                       slack>>

(* _close: an animation of 300 ms, or at once where the drawer is gone.    *)
Saved ==
    \E k \in DOMAIN puts :
        LET s == puts[k].sheet
            kept == IF sheets[s].typed = puts[k].value THEN 0 ELSE sheets[s].typed
            page == [Redrawn(s, FALSE) EXCEPT !.copy = puts[k].value,
                                              !.input = puts[k].value, !.typed = kept]
            drawn == [sheets[s] EXCEPT !.typed = 0, !.asked = TRUE,
                                       !.closing = TRUE]
        IN  /\ puts[k].done /\ puts' = RemoveAt(puts, k) /\ merged' = puts[k].value
            /\ IF onPage
               THEN /\ sheets' = IF sheets[s].up THEN [sheets EXCEPT ![s] = page] ELSE sheets
                    /\ UNCHANGED <<drawer, cached, bells, slack>>
               ELSE IF ~Answerable(s) THEN UNCHANGED <<sheets, drawer, cached, bells, slack>>
               ELSE IF sheets[s].up
               THEN /\ sheets' = [sheets EXCEPT ![s] = drawn] /\ bells' = bells \cup {s}
                    /\ UNCHANGED <<drawer, cached, slack>>
               ELSE /\ ClosePanel([sheets EXCEPT ![s] = drawn])
                    /\ slack' = slack \cup (IF Missed(s) THEN {"reopened"} ELSE {})
                    /\ UNCHANGED bells
            /\ UNCHANGED <<onPage, cardsUp, setting, openings, formActs>>

(* Before or after it was written.                                         *)
SaveFails ==
    \E k \in DOMAIN puts :
        /\ Own(1) /\ puts' = RemoveAt(puts, k)
        /\ sheets' = [sheets EXCEPT ![puts[k].sheet] = Redrawn(puts[k].sheet, FALSE)]
        /\ slack' = slack \cup {"failed"} \cup (IF puts[k].done THEN {"lost"} ELSE {})
        /\ Still /\ UNCHANGED <<cardsUp, drawer, cached, openings, bells>>

-----------------------------------------------------------------------------
(* Closing.                                                                *)

(* The buttons, the overlay, a swipe, and Escape, which every drawer       *)
(* hears.                                                                  *)
Close ==
    \E s \in Up :
        /\ ~onPage /\ Own(1) /\ Answerable(s)
        /\ sheets' = [sheets EXCEPT ![s].closing = TRUE, ![s].asked = TRUE]
        /\ bells' = bells \cup {s}
        /\ Still /\ UNCHANGED <<cardsUp, drawer, cached, openings, puts, slack>>

(* transitionend, or 300 ms: the page closes its drawer.                   *)
Rung ==
    \E s \in bells :
        /\ bells' = bells \ {s}
        /\ ClosePanel(sheets)
        /\ slack' = slack \cup (IF Missed(s) THEN {"reopened"} ELSE {})
        /\ Still /\ UNCHANGED <<cardsUp, openings, puts, formActs>>

(* The page's beforeUnmount.                                               *)
Leave ==
    /\ cardsUp /\ Own(1) /\ cardsUp' = FALSE
    /\ LET going == IF onPage THEN Len(sheets) ELSE drawer
       IN  /\ sheets' = IF going = 0 THEN sheets
                        ELSE [sheets EXCEPT ![going].up = FALSE, ![going].asked = TRUE]
           /\ drawer' = 0 /\ cached' = IF drawer = 0 THEN cached ELSE 0
    /\ Still /\ UNCHANGED <<openings, puts, bells, slack>>

Next ==
    \/ Open \/ Read \/ Opened \/ OpenFails
    \/ Type \/ Save \/ Write \/ Saved \/ SaveFails
    \/ Close \/ Rung \/ Leave

(***************************************************************************)
(* Properties.                                                             *)
(***************************************************************************)
Rest == openings = <<>> /\ puts = <<>> /\ bells = {}

(* At rest no drawer is up but the page's own, and none without its page:  *)
(* one that the page has lost sight of cannot be closed, and locks what is *)
(* behind it.                                                              *)
NoDrawerIsLost ==
    Rest =>
        /\ Up \subseteq {drawer} \/ "twice" \in slack
        /\ cardsUp \/ Up = {} \/ slack \cap {"twice", "left"} # {}

(* A drawer goes only when it was told to, by its own buttons, its own     *)
(* save, the next drawer or the page.                                      *)
GoesWhenAsked ==
    \A s \in DOMAIN sheets :
        sheets[s].up \/ sheets[s].asked \/ "reopened" \in slack

(* At rest the form that is up was drawn from what is stored.              *)
CopyIsStored ==
    Rest => \A s \in Up :
        sheets[s].copy = setting \/ slack \cap {"overlapped", "lost", "twice"} # {}

(* At rest the tab's own settings are what is stored.                      *)
StoreFollows == Rest => merged = setting \/ slack \cap {"overlapped", "lost"} # {}

(* What was typed and is not saved stays in the form that shows it, until  *)
(* that one closes.                                                        *)
TypedIsKept ==
    Rest => \A s \in {s \in Up : ~sheets[s].closing} :
        sheets[s].typed \in {0, sheets[s].input} \/ slack \cap {"failed", "late"} # {}

=============================================================================
