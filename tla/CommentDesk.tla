---------------------------- MODULE CommentDesk -----------------------------
(***************************************************************************)
(* The page that moderates comments (plugins/comments/CommentsAdminPage.ts)*)
(* and the comment engine behind it.  Rows are ticked by their number in   *)
(* the list; an action works on what a dialog named, several requests at   *)
(* once, and then loads both lists anew.                                   *)
(***************************************************************************)
EXTENDS Naturals, Sequences, FiniteSets, SequencesExt

CONSTANTS
    MaxComments,  \* bound: comments that readers write
    MaxMods       \* bound: what the moderator does, and loads that fail

VARIABLES
    commentPhase, \* "loading", "ready" or "error"
    shelf,        \* state.tab: "recent" or "blocked"
    thread,       \* state.comments
    banned,       \* state.blocked
    choosing,     \* state.selectMode
    chosenRows,   \* state.selectedIds: numbers of rows
    question,     \* the open dialog: what it would do, and to what
    deeds,        \* actions under way
    readings,     \* loads under way: what they have read of either list
    posted,       \* the engine's comments, the newest first
    barred,       \* the engine's blocked users
    modActs,
    (* history *)
    intended,     \* what the moderator has ticked
    wished,       \* what he meant by the dialogs that he confirmed
    gone,         \* what actions have deleted, blocked or unblocked
    blots         \* why the page may differ from it

commentVars == <<commentPhase, shelf, thread, banned, choosing, chosenRows, question, deeds,
                 readings, posted, barred, modActs, intended, wished, gone, blots>>

Comment == 1..MaxComments
Author(c) == c % 2
User == {Author(c) : c \in Comment}
Kind == {"delete", "block", "unblock"}
(* What is acted upon: a comment, or a user.                               *)
Thing == [kind : Kind, id : Comment \cup User]
Things(kind, ids) == {[kind |-> kind, id |-> i] : i \in ids}
NoQuestion == [kind |-> "", ids |-> {}, bulk |-> FALSE, meant |-> {}]
Unread == <<0, 0>>

TypeOK ==
    /\ commentPhase \in {"loading", "ready", "error"} /\ shelf \in {"recent", "blocked"}
    /\ ToSet(thread) \subseteq Comment /\ ToSet(banned) \subseteq User
    /\ choosing \in BOOLEAN /\ chosenRows \subseteq 1..MaxComments
    /\ question.kind \in Kind \cup {""} /\ question.ids \subseteq Comment \cup User
    /\ \A d \in deeds : d.kind \in Kind /\ d.left \subseteq Comment \cup User /\ d.ok \in BOOLEAN
    /\ \A l \in readings : l.n \in 1..Cardinality(readings)
    /\ ToSet(posted) \subseteq Comment /\ ToSet(barred) \subseteq User
    /\ modActs \in 0..MaxMods
    /\ intended \subseteq Comment \cup User /\ wished \cup gone \subseteq Thing
    /\ blots \subseteq {"reload", "swept", "written", "outrun", "halfway"}

(* The list on the screen.                                                 *)
List == IF shelf = "recent" THEN thread ELSE banned
Chosen == {List[i] : i \in chosenRows \cap DOMAIN List}

(* A load takes its place behind those under way.                          *)
Loaded(ls) == ls \cup {[n |-> Cardinality(ls) + 1, recent |-> Unread, blocked |-> Unread]}
Read(l) == l.recent # Unread /\ l.blocked # Unread
Answered(l) == {[k EXCEPT !.n = IF @ > l.n THEN @ - 1 ELSE @] : k \in readings \ {l}}

Init ==
    /\ commentPhase = "loading" /\ shelf = "recent" /\ thread = <<>> /\ banned = <<>>
    /\ choosing = FALSE /\ chosenRows = {} /\ question = NoQuestion /\ deeds = {}
    /\ readings = Loaded({})
    /\ posted \in {<<1>>, <<2, 1>>} /\ barred = <<>> /\ modActs = 0
    /\ intended = {} /\ wished = {} /\ gone = {} /\ blots = {}

-----------------------------------------------------------------------------
(* The engine and its readers.                                             *)
Page == <<commentPhase, shelf, thread, banned, choosing, chosenRows, question>>

ReaderWrites ==
    LET c == Cardinality(ToSet(posted) \cup {t.id : t \in {g \in gone : g.kind = "delete"}}) + 1
    IN  /\ c \in Comment /\ c \notin ToSet(posted) /\ Author(c) \notin ToSet(barred)
        /\ Things("delete", {c}) \cap gone = {} /\ Things("block", {Author(c)}) \cap gone = {}
        /\ posted' = <<c>> \o posted /\ blots' = blots \cup {"written"}
        /\ UNCHANGED <<Page, deeds, readings, barred, modActs, intended, wished, gone>>

(* A load's two requests are read one by one.                              *)
ReadRecent(l) ==
    /\ l \in readings /\ l.recent = Unread
    /\ readings' = (readings \ {l}) \cup {[l EXCEPT !.recent = posted]}
    /\ UNCHANGED <<Page, deeds, posted, barred, modActs, intended, wished, gone, blots>>

ReadBlocked(l) ==
    /\ l \in readings /\ l.blocked = Unread
    /\ readings' = (readings \ {l}) \cup {[l EXCEPT !.blocked = barred]}
    /\ UNCHANGED <<Page, deeds, posted, barred, modActs, intended, wished, gone, blots>>

Without(seq, ids) == SelectSeq(seq, LAMBDA x : x \notin ids)

(* One request of an action: a blocked user's comments are deleted too.    *)
Serve(d, i) ==
    /\ d \in deeds /\ i \in d.left
    /\ deeds' = (deeds \ {d}) \cup {[d EXCEPT !.left = @ \ {i}]}
    /\ gone' = gone \cup Things(d.kind, {i})
    /\ posted' = Without(posted, CASE d.kind = "delete" -> {i}
                                   [] d.kind = "block" -> {c \in Comment : Author(c) = i}
                                   [] OTHER -> {})
    /\ barred' = CASE d.kind = "block" -> Append(Without(barred, {i}), i)
                   [] d.kind = "unblock" -> Without(barred, {i})
                   [] OTHER -> barred
    /\ UNCHANGED <<Page, readings, modActs, intended, wished, blots>>

(* A request is refused: the rest of them go on.                           *)
Refuse(d, i) ==
    /\ d \in deeds /\ i \in d.left
    /\ deeds' = (deeds \ {d}) \cup {[d EXCEPT !.left = @ \ {i}, !.ok = FALSE]}
    /\ UNCHANGED <<Page, readings, posted, barred, modActs, intended, wished, gone, blots>>

-----------------------------------------------------------------------------
(* The answers.                                                            *)

(* Mutant: the lists are not loaded again.                                 *)
AfterwardsNothing == readings

(* What _run and the bulk handlers do once all of it is done.              *)
Afterwards == Loaded(readings)

Done(d) ==
    /\ d \in deeds /\ d.left = {} /\ d.ok /\ deeds' = deeds \ {d}
    /\ readings' = Afterwards
    /\ IF d.bulk
       THEN /\ choosing' = FALSE /\ chosenRows' = {}
            /\ intended' = intended \ d.about
            /\ blots' = IF intended \subseteq d.about THEN blots ELSE blots \cup {"swept"}
       ELSE UNCHANGED <<choosing, chosenRows, intended, blots>>
    /\ UNCHANGED <<commentPhase, shelf, thread, banned, question, posted, barred, modActs,
                   wished, gone>>

(* A toast; the page stays as it is.                                       *)
DoneFails(d) ==
    /\ d \in deeds /\ d.left = {} /\ ~d.ok /\ deeds' = deeds \ {d}
    /\ blots' = IF d.bulk THEN blots \cup {"halfway"} ELSE blots
    /\ UNCHANGED <<Page, readings, posted, barred, modActs, intended, wished, gone>>

(* _load: both answers are there.                                          *)
Answer(l) ==
    /\ l \in readings /\ Read(l) /\ readings' = Answered(l)
    /\ commentPhase' = "ready" /\ thread' = l.recent /\ banned' = l.blocked
    /\ blots' = blots \cup (IF chosenRows # {} THEN {"reload"} ELSE {})
                      \cup (IF l.n > 1 THEN {"outrun"} ELSE {})
    /\ UNCHANGED <<shelf, choosing, chosenRows, question, deeds, posted, barred, modActs,
                   intended, wished, gone>>

AnswerFails(l) ==
    /\ l \in readings /\ readings' = Answered(l)
    /\ modActs < MaxMods /\ modActs' = modActs + 1 /\ commentPhase' = "error"
    /\ blots' = IF l.n > 1 THEN blots \cup {"outrun"} ELSE blots
    /\ UNCHANGED <<shelf, thread, banned, choosing, chosenRows, question, deeds, posted, barred,
                   intended, wished, gone>>

-----------------------------------------------------------------------------
(* The moderator, while no dialog lies over the page.                      *)
Free == commentPhase = "ready" /\ question = NoQuestion
Act == Free /\ modActs < MaxMods /\ modActs' = modActs + 1
Rest == UNCHANGED <<commentPhase, thread, banned, posted, barred, wished, gone>>

(* The ticks become those of rows; they are forgotten and named anew.      *)
Ticks(rows, on) ==
    /\ choosing' = on /\ chosenRows' = rows
    /\ blots' = IF rows = {} THEN blots \ {"reload", "swept"} ELSE blots

(* Mutant: the ticks are not cleared with the list they are in.            *)
OnTabKept == <<choosing, chosenRows>>

OnTab == <<FALSE, {}>>

SetTab ==
    /\ Act /\ shelf' = IF shelf = "recent" THEN "blocked" ELSE "recent"
    /\ choosing' = OnTab[1] /\ chosenRows' = OnTab[2] /\ intended' = {}
    /\ blots' = blots \ {"reload", "swept"}
    /\ Rest /\ UNCHANGED <<question, deeds, readings>>

SelectMode ==
    /\ Act /\ Ticks({}, ~choosing) /\ intended' = {}
    /\ Rest /\ UNCHANGED <<shelf, question, deeds, readings>>

SelectAll(on) ==
    /\ Act /\ choosing /\ List # <<>>
    /\ LET rows == IF on THEN DOMAIN List ELSE {}
       IN  Ticks(rows, rows # {}) /\ intended' = {List[i] : i \in rows}
    /\ Rest /\ UNCHANGED <<shelf, question, deeds, readings>>

(* A box is ticked, or a card swiped to the right.                         *)
Tick(i, byBox) ==
    LET rows == IF i \in chosenRows THEN chosenRows \ {i} ELSE chosenRows \cup {i}
    IN  /\ i \in DOMAIN List /\ Act
        /\ byBox => choosing
        /\ Ticks(rows, IF byBox THEN choosing ELSE rows # {})
        /\ intended' = IF rows = {} THEN {}
                       ELSE IF i \in chosenRows THEN intended \ {List[i]}
                       ELSE intended \cup {List[i]}
        /\ Rest /\ UNCHANGED <<shelf, question, deeds, readings>>

Asks(kind, ids, bulk, meant) ==
    /\ question' = [kind |-> kind, ids |-> ids, bulk |-> bulk, meant |-> meant]
    /\ Rest /\ UNCHANGED <<shelf, choosing, chosenRows, deeds, readings, intended, blots>>

Starts(kind, ids, bulk) ==
    deeds' = deeds \cup {[kind |-> kind, left |-> ids, ok |-> TRUE, bulk |-> bulk,
                             about |-> IF bulk THEN intended ELSE {}]}

AskDelete(i) ==
    /\ shelf = "recent" /\ i \in DOMAIN thread /\ Act
    /\ Asks("delete", {thread[i]}, FALSE, {thread[i]})
AskBlock(i) ==
    /\ shelf = "recent" /\ i \in DOMAIN thread /\ Act
    /\ Asks("block", {Author(thread[i])}, FALSE, {Author(thread[i])})

(* _unblock asks nothing.                                                  *)
Unblock(i) ==
    /\ Act /\ shelf = "blocked" /\ i \in DOMAIN banned
    /\ Starts("unblock", {banned[i]}, FALSE)
    /\ wished' = wished \cup Things("unblock", {banned[i]})
    /\ UNCHANGED <<Page, readings, posted, barred, intended, gone, blots>>

(* History: what the moderator believes to be ticked, if the rows have not *)
(* moved under his ticks.                                                  *)
Believed == IF blots \cap {"reload", "swept"} = {} THEN intended ELSE Chosen

AskBulk(kind, on) ==
    /\ choosing /\ shelf = on /\ Chosen # {} /\ Act
    /\ LET of(things) == IF kind = "block" THEN {Author(c) : c \in things} ELSE things
       IN  Asks(kind, of(Chosen), TRUE, of(Believed))
AskBulkDelete == AskBulk("delete", "recent")
AskBulkBlock == AskBulk("block", "recent")
AskBulkUnblock == AskBulk("unblock", "blocked")

(* Mutant: the ticks are looked up when the dialog is confirmed.           *)
NamedNow ==
    IF ~question.bulk THEN question.ids
    ELSE IF question.kind = "block" THEN {Author(c) : c \in Chosen} ELSE Chosen

(* The things that the handler had in hand when it opened the dialog.      *)
Named == question.ids

Confirm ==
    /\ question # NoQuestion /\ question' = NoQuestion
    /\ Starts(question.kind, Named, question.bulk)
    /\ wished' = wished \cup Things(question.kind, question.meant)
    /\ UNCHANGED <<commentPhase, shelf, thread, banned, choosing, chosenRows, readings, posted,
                   barred, modActs, intended, gone, blots>>

Cancel ==
    /\ question # NoQuestion /\ question' = NoQuestion
    /\ Rest /\ UNCHANGED <<shelf, choosing, chosenRows, deeds, readings, modActs, intended, blots>>

Next ==
    \/ ReaderWrites
    \/ \E l \in readings : ReadRecent(l) \/ ReadBlocked(l) \/ Answer(l) \/ AnswerFails(l)
    \/ \E d \in deeds : Done(d) \/ DoneFails(d) \/ \E i \in d.left : Serve(d, i) \/ Refuse(d, i)
    \/ SetTab \/ SelectMode \/ \E on \in BOOLEAN : SelectAll(on)
    \/ \E i \in 1..MaxComments :
        AskDelete(i) \/ AskBlock(i) \/ Unblock(i) \/ \E byBox \in BOOLEAN : Tick(i, byBox)
    \/ AskBulkDelete \/ AskBulkBlock \/ AskBulkUnblock \/ Confirm \/ Cancel

(***************************************************************************)
(* Properties.                                                             *)
(***************************************************************************)

(* The ticked rows are those that the moderator ticked, in a page that     *)
(* shows their buttons; unless the lists were loaded anew under the ticks, *)
(* or a finished action cleared ticks that were set meanwhile.             *)
TicksAreTheirs ==
    commentPhase = "ready" /\ blots \cap {"reload", "swept"} = {} =>
        Chosen = intended /\ (chosenRows # {} => choosing)

(* Nothing is deleted, blocked or unblocked but what the moderator meant;  *)
(* unless rows moved under his ticks.                                      *)
OnlyMeantIsGone == gone \subseteq wished

(* With nothing under way both lists are the engine's; unless a reader has *)
(* written since, loads were answered out of order, or an action failed in *)
(* part.                                                                   *)
ListsAreEngines ==
    commentPhase = "ready" /\ readings = {} /\ deeds = {}
        /\ blots \cap {"written", "outrun", "halfway"} = {} =>
            thread = posted /\ banned = barred

=============================================================================
