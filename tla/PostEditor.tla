----------------------------- MODULE PostEditor -----------------------------
(***************************************************************************)
(* The post editor (frontend/src/pages/light/PostEditPage.ts) and the rows *)
(* it writes.  What the user types lives in the form; a render rebuilds    *)
(* the form from state.post, except for the blocks of the visual editor.   *)
(* The page is one thread: a handler runs to its first await, so that the  *)
(* call it makes is sent in that step; the server serves it in a second    *)
(* step and the handler goes on in a third.                                *)
(*                                                                         *)
(* An edit is a number.  A version of the post has the last edit of each   *)
(* of its parts: the fields (title, slug, excerpt, tags), the status, the  *)
(* details (schedule, CSS, immersive mode, Instagram) and the content.     *)
(***************************************************************************)
EXTENDS Naturals, Sequences

CONSTANTS
    MaxCalls,    \* bound: calls under way at once
    MaxEdits,    \* bound: edits
    MaxErrands,  \* bound: commands of the user besides typing
    MaxHandlers, \* bound: handlers that answer one Ctrl+S
    MaxPosts,    \* bound: rows
    NoId

ASSUME EditorAssumption ==
    /\ {MaxCalls, MaxEdits, MaxErrands} \subseteq Nat
    /\ {MaxHandlers, MaxPosts} \subseteq Nat \ {0}
    /\ NoId \notin Nat

Calls == 1..MaxCalls

(* What the Publish button makes of the status, whatever was picked.       *)
Published == MaxEdits + 1

Versions == [fields : 0..MaxEdits, status : 0..Published, details : 0..MaxEdits,
             content : 0..MaxEdits]
Blank == [fields |-> 0, status |-> 0, details |-> 0, content |-> 0]
PostParts == DOMAIN Blank

VARIABLES
    mounted,    \* FALSE from beforeUnmount on
    awaited,    \* the answer mount waits for: "post", "igStatus" or "none"
    viewing,    \* the call _viewOnSite waits for, or NoId
    isNew, postId, saving, deleting,
    pending,    \* state.hasPendingEdits
    timer,      \* _idleTimer and _maxWaitTimer, which are set together
    chip,       \* autosave_status
    mode,       \* state.editorMode
    form,       \* the version on the screen
    post,       \* the version in state.post
    hooks,      \* how often the container listens to textarea:save
    calls,      \* calls[c]: a call and how far it is
    rows,       \* the server's posts
    edits,      \* the last edit
    errands,    \* how many commands were given
    spare,      \* history: creates sent beside another or answered in vain
    late,       \* history: the form changed unmarked, or beside a write, or its editor
                \* did, or a create made a draft of it
    owed,       \* history: the parts changed since a write took them along
    dropped,    \* history: of those one was unmarked, drawn over or counted as saved
    parked,     \* history: a timer went off in vain, in a delete or an empty post
    missed      \* history: writes that found their row in the trash

identity == <<isNew, postId>>
flags == <<saving, deleting>>
saver == <<pending, timer, parked>>
screenVars == <<mode, form, post, hooks, late>>
debt == <<owed, dropped>>
pageVars == <<mounted, awaited, viewing, identity, flags, saver, screenVars, debt>>
serverVars == <<rows, missed>>
boundVars == <<edits, errands>>
editorVars == <<pageVars, chip, calls, serverVars, boundVars, spare>>

Writes == {"autosave", "save"}
Kinds == Writes \cup {"none", "delete", "preview", "instagram", "analyze", "field"}
NoCall == [kind |-> "none", new |-> FALSE, id |-> NoId, data |-> Blank, stage |-> "sent",
           parted |-> FALSE]

EditorTypeOK ==
    /\ {mounted, isNew, saving, deleting, pending, timer, late, parked, dropped} \subseteq BOOLEAN
    /\ owed \subseteq PostParts
    /\ awaited \in {"post", "igStatus", "none"}
    /\ viewing \in Calls \cup {NoId}
    /\ postId \in 1..MaxPosts \cup {NoId}
    /\ isNew <=> postId = NoId
    /\ timer => mounted
    /\ chip \in {"none", "idle", "saving", "saved", "failed"}
    /\ mode \in {"visual", "text"}
    /\ {form, post} \subseteq Versions
    /\ hooks \in 0..MaxHandlers
    /\ calls \in [Calls -> [kind : Kinds, new : BOOLEAN, id : 1..MaxPosts \cup {NoId},
                            data : Versions, stage : {"sent", "ok", "failed"},
                            parted : BOOLEAN]]
    /\ rows \in Seq([data : Versions, trashed : BOOLEAN])
    /\ Len(rows) <= MaxPosts
    /\ edits \in 0..MaxEdits
    /\ errands \in 0..MaxErrands
    /\ spare \in Nat
    /\ missed \subseteq Kinds \X BOOLEAN

(* Either New Post, or Edit Post of the row 1.                             *)
EditorInit ==
    /\ mounted = TRUE
    /\ isNew \in BOOLEAN
    /\ rows = IF isNew THEN <<>> ELSE <<[data |-> Blank, trashed |-> FALSE]>>
    /\ postId = IF isNew THEN NoId ELSE 1
    /\ awaited = IF isNew THEN "igStatus" ELSE "post"
    /\ hooks = IF isNew THEN 1 ELSE 0
    /\ viewing = NoId
    /\ saving = FALSE
    /\ deleting = FALSE
    /\ pending = FALSE
    /\ timer = FALSE
    /\ chip = "none"
    /\ mode = "visual"
    /\ form = Blank
    /\ post = Blank
    /\ calls = [c \in Calls |-> NoCall]
    /\ edits = 0
    /\ errands = 0
    /\ spare = 0
    /\ late = FALSE
    /\ owed = {}
    /\ dropped = FALSE
    /\ parked = FALSE
    /\ missed = {}

-----------------------------------------------------------------------------
(* Renders, calls and the server.                                          *)

UnderWay(K) == {c \in Calls : calls[c].kind \in K}
Writing == UnderWay(Writes) # {}
Creating == \E c \in Calls : calls[c].new
FreeCalls == UnderWay({"none"})

(* What a render leaves of the form: all of it is built again from p, but  *)
(* the visual editor from _nodes.                                          *)
Rendered(f, p, m) == IF m = "visual" THEN [p EXCEPT !.content = f.content] ELSE p

AtMost(n, k) == IF n > k THEN k ELSE n

(* n calls of setState; each afterRender adds a listener to the container. *)
Draw(p, m, n) ==
    /\ post' = p
    /\ mode' = m
    /\ hooks' = AtMost(hooks + n, MaxHandlers)
    /\ form' = Rendered(form, p, m)

(* What was typed and not sent yet may be drawn over.                      *)
DrawsOver ==
    /\ dropped' = (dropped \/ \E part \in owed : form'[part] # form[part])
    /\ UNCHANGED owed

(* A render, noting that nothing marks what changed as unsaved.            *)
Redraw(p, m, n) ==
    /\ Draw(p, m, n)
    /\ DrawsOver
    /\ late' = (late \/ (form' # form /\ (Writing \/ ~pending)))

(* _collectFormData.                                                       *)
FormData == form

Sent(kind, data) ==
    [kind |-> kind, new |-> isNew /\ kind \in Writes, id |-> postId, data |-> data,
     stage |-> "sent", parted |-> deleting]

Send(c, kind, data) ==
    /\ c \in FreeCalls
    /\ \A d \in FreeCalls : c <= d
    /\ calls' = [calls EXCEPT ![c] = Sent(kind, data)]

Done(c) == calls' = [calls EXCEPT ![c] = NoCall]

(* The server does what it is asked to, or cannot; either way the answer   *)
(* may be lost.  It finds no post that is in the trash.                    *)
Serve(c) ==
    LET k == calls[c]
        End(how, id, data) ==
            calls' = [calls EXCEPT ![c] = [k EXCEPT !.stage = how, !.id = id, !.data = data]]
    IN
    /\ k.kind # "none"
    /\ k.stage = "sent"
    /\ \/ /\ k.kind \in Writes
          /\ k.new
          /\ Len(rows) < MaxPosts
          /\ rows' = Append(rows, [data |-> k.data, trashed |-> FALSE])
          /\ \/ End("ok", Len(rows) + 1, k.data) /\ UNCHANGED spare
             \/ End("failed", NoId, k.data) /\ spare' = spare + 1
          /\ UNCHANGED missed
       \/ /\ k.kind \in Writes
          /\ ~k.new
          /\ ~rows[k.id].trashed
          /\ rows' = [rows EXCEPT ![k.id].data = k.data]
          /\ \E how \in {"ok", "failed"} : End(how, k.id, k.data)
          /\ UNCHANGED <<spare, missed>>
       \/ /\ k.kind = "delete"
          /\ rows' = [rows EXCEPT ![k.id].trashed = TRUE]
          /\ \E how \in {"ok", "failed"} : End(how, k.id, k.data)
          /\ UNCHANGED <<spare, missed>>
       \/ /\ k.kind \in {"preview", "analyze", "field"}
          /\ End("ok", k.id, k.data)
          /\ UNCHANGED <<rows, spare, missed>>
       \/ /\ k.kind = "instagram"
          /\ End("ok", k.id, rows[k.id].data)
          /\ UNCHANGED <<rows, spare, missed>>
       \/ /\ End("failed", k.id, k.data)
          /\ missed' = IF k.kind \in Writes /\ ~k.new /\ rows[k.id].trashed
                          THEN missed \cup {<<k.kind, k.parted>>} ELSE missed
          /\ UNCHANGED <<rows, spare>>
    /\ UNCHANGED <<pageVars, chip, boundVars>>

Answered(c, K) == mounted /\ calls[c].kind \in K /\ calls[c].stage # "sent"

(* Mutant: a call that failed counts as done.                              *)
OkAnyway(c) == TRUE

Ok(c) == calls[c].stage = "ok"

-----------------------------------------------------------------------------
(* Mounting, typing and leaving.                                           *)

(* beforeUnmount, and the page is gone; its calls go on.                   *)
Leaving ==
    /\ mounted' = FALSE
    /\ awaited' = "none"
    /\ viewing' = NoId
    /\ isNew' = TRUE
    /\ postId' = NoId
    /\ saving' = FALSE /\ deleting' = FALSE
    /\ pending' = FALSE /\ timer' = FALSE /\ parked' = FALSE
    /\ mode' = "visual" /\ form' = Blank /\ post' = Blank
    /\ hooks' = 0 /\ late' = FALSE
    /\ owed' = {} /\ dropped' = FALSE

LeaveEditor ==
    /\ mounted
    /\ Leaving
    /\ UNCHANGED <<chip, calls, serverVars, boundVars, spare>>

(* A call ends whose page is gone: setState does nothing then, but the     *)
(* chip is the store's.                                                    *)
Orphan(c) ==
    /\ ~mounted
    /\ calls[c].kind # "none"
    /\ calls[c].stage # "sent"
    /\ Done(c)
    /\ chip' = CASE calls[c].kind \notin Writes -> chip
                [] Ok(c) -> "saved"
                [] OTHER -> "failed"
    /\ UNCHANGED <<pageVars, serverVars, boundVars, spare>>

(* _loadPost: a post that does not load sends the user to the list.        *)
Load ==
    /\ mounted
    /\ awaited = "post"
    /\ \/ /\ awaited' = "none"
          /\ post' = rows[postId].data
          /\ form' = rows[postId].data
          /\ hooks' = 1
          /\ UNCHANGED <<mounted, viewing, identity, flags, saver, mode, late, debt>>
       \/ Leaving
    /\ UNCHANGED <<chip, calls, serverVars, boundVars, spare>>

(* mount of a new post: the answer of getInstagramStatus is set as state.  *)
IgStatus ==
    /\ mounted
    /\ awaited = "igStatus"
    /\ awaited' = "none"
    /\ Redraw(post, mode, 1)
    /\ UNCHANGED <<mounted, viewing, identity, flags, saver, chip, calls, serverVars, boundVars,
                   spare>>

Editable == mounted /\ awaited # "post"

(* _onInput, also after a rename or an insertion that reports itself; who  *)
(* picks a status may empty the schedule.                                  *)
Input(chosen) ==
    /\ Editable
    /\ edits < MaxEdits
    /\ edits' = edits + 1
    /\ form' = [part \in PostParts |-> IF part \in chosen THEN edits + 1 ELSE form[part]]
    /\ pending' = TRUE
    /\ timer' = TRUE
    /\ parked' = FALSE
    /\ chip' = "idle"
    /\ late' = (late \/ Writing)
    /\ owed' = owed \cup chosen
    /\ dropped' = FALSE
    /\ UNCHANGED <<mounted, awaited, viewing, identity, flags, mode, post, hooks, calls,
                   serverVars, errands, spare>>

(* _insertMediaPaths, in the visual editor, after an upload that was       *)
(* dropped on the window: no one calls _onInput.                           *)
InsertMedia ==
    /\ Editable
    /\ mode = "visual"
    /\ edits < MaxEdits
    /\ edits' = edits + 1
    /\ form' = [form EXCEPT !.content = edits + 1]
    /\ late' = TRUE
    /\ owed' = owed \cup {"content"}
    /\ dropped' = (dropped \/ ~pending)
    /\ UNCHANGED <<mounted, awaited, viewing, identity, flags, saver, mode, post, hooks,
                   chip, calls, serverVars, errands, spare>>

Command ==
    /\ Editable
    /\ errands < MaxErrands
    /\ errands' = errands + 1
    /\ UNCHANGED edits

(* _switchMode: the form becomes state.post and is drawn again.  A save    *)
(* has drawn the text from state.post, and blocks made of that outlast its *)
(* answer.                                                                 *)
SwitchMode ==
    /\ Command
    /\ Draw(FormData, IF mode = "visual" THEN "text" ELSE "visual", 1)
    /\ late' = (late \/ (mode = "text" /\ UnderWay({"save"}) # {}))
    /\ UNCHANGED <<mounted, awaited, viewing, identity, flags, saver, debt, chip, calls,
                   serverVars, spare>>

-----------------------------------------------------------------------------
(* Autosave.                                                               *)

(* A new post without title and content is not worth a row.                *)
MaybeEmpty == isNew /\ form.content = 0
Empty == MaybeEmpty /\ form.fields = 0

(* Mutant: a preview link or a cross-post under way stops it too.          *)
StoppedByErrand == saving \/ deleting \/ ~pending \/ UnderWay({"preview", "instagram"}) # {}

Stopped == saving \/ deleting \/ ~pending

(* _autosave gives up before its first await.                              *)
GivesUp == Stopped \/ MaybeEmpty

GiveUp ==
    /\ GivesUp
    /\ timer' = FALSE
    /\ parked' = (parked \/ deleting \/ (pending /\ MaybeEmpty /\ ~saving))
    /\ UNCHANGED <<pending, late, debt, chip, calls, spare>>

(* _autosave up to its first await, in the call c: whatever status was     *)
(* picked, a create asks for a draft.                                      *)
SendAutosave(c) ==
    /\ ~Stopped
    /\ ~Empty
    /\ Send(c, "autosave", IF isNew THEN [FormData EXCEPT !.status = 0] ELSE FormData)
    /\ spare' = IF isNew /\ Creating THEN spare + 1 ELSE spare
    /\ late' = (Writing \/ (isNew /\ form.status # 0))
    /\ owed' = IF isNew THEN owed \cap {"status"} ELSE {}
    /\ dropped' = FALSE
    /\ timer' = FALSE
    /\ chip' = "saving"
    /\ UNCHANGED <<pending, parked>>

(* One of the timers goes off.                                             *)
Autosave ==
    /\ timer
    /\ GiveUp \/ \E c \in Calls : SendAutosave(c)
    /\ UNCHANGED <<mounted, awaited, viewing, identity, flags, mode, form, post, hooks,
                   serverVars, boundVars>>

(* Mutant: the answer of a create leaves the page as it was.               *)
AdoptNothing(c) == UNCHANGED identity

(* What a create's answer does to the page: the next save is an update.    *)
Adopt(c) ==
    /\ isNew' = (isNew /\ ~calls[c].new)
    /\ postId' = IF calls[c].new THEN calls[c].id ELSE postId

(* An answer that says saved says it of everything.                        *)
CountsAsSaved ==
    /\ pending' = FALSE
    /\ dropped' = (dropped \/ owed # {})
    /\ UNCHANGED owed

(* The answer.  There is no render, and nothing looks at the form again.   *)
AutosaveAnswer(c) ==
    /\ Answered(c, {"autosave"})
    /\ Done(c)
    /\ chip' = IF Ok(c) THEN "saved" ELSE "failed"
    /\ IF viewing = c
          THEN Leaving
          ELSE /\ IF Ok(c)
                     THEN Adopt(c) /\ post' = calls[c].data /\ CountsAsSaved
                     ELSE UNCHANGED <<identity, post, pending, debt>>
               /\ UNCHANGED <<mounted, awaited, viewing, flags, timer, parked, mode, form,
                              hooks, late>>
    /\ UNCHANGED <<serverVars, boundVars, spare>>

(* _viewOnSite: pending edits are saved first, if they can be; then the    *)
(* page is left.                                                           *)
ViewOnSite ==
    /\ Command
    /\ ~isNew
    /\ viewing = NoId
    /\ \/ GivesUp /\ Leaving /\ UNCHANGED <<chip, calls, spare>>
       \/ \E c \in Calls :
             /\ SendAutosave(c)
             /\ viewing' = c
             /\ UNCHANGED <<mounted, awaited, identity, flags, mode, form, post, hooks>>
    /\ UNCHANGED serverVars

-----------------------------------------------------------------------------
(* Commands.                                                               *)

(* How many handlers one gesture reaches: a button has one; Ctrl+S in a    *)
(* textarea reaches every listener of textarea:save and the one of the     *)
(* document.                                                               *)
Handlers == {1, hooks, AtMost(hooks + 1, MaxHandlers)} \ {0}

(* _save, once per handler.  The first reads the form; its setState draws  *)
(* the form from state.post, which is what the next one reads.  A button   *)
(* may set the status.                                                     *)
Save ==
    /\ Command
    /\ \E n \in Handlers : \E C \in [1..n -> FreeCalls] :
       \E status \in {FormData.status} \cup (IF n = 1 THEN {Published} ELSE {}) :
          /\ \A i, j \in 1..n : i < j => C[i] < C[j]
          /\ calls' = [c \in Calls |->
                 CASE c = C[1] -> Sent("save", [FormData EXCEPT !.status = status])
                   [] \E i \in 2..n : c = C[i] -> Sent("save", Rendered(form, post, mode))
                   [] OTHER -> calls[c]]
          /\ spare' = spare + (IF ~isNew THEN 0 ELSE IF Creating THEN n ELSE n - 1)
          /\ late' = (Writing \/ n > 1)
          /\ Draw(post, mode, n)
    /\ owed' = {} /\ dropped' = FALSE
    /\ saving' = TRUE
    /\ chip' = "saving"
    /\ UNCHANGED <<mounted, awaited, viewing, identity, deleting, saver, serverVars>>

SaveAnswer(c) ==
    /\ Answered(c, {"save"})
    /\ Done(c)
    /\ saving' = FALSE
    /\ chip' = IF Ok(c) THEN "saved" ELSE "failed"
    /\ IF Ok(c)
          THEN /\ Adopt(c)
               /\ CountsAsSaved
               /\ Draw(calls[c].data, mode, 1)
               /\ UNCHANGED late
          ELSE /\ Draw(post, mode, 1)
               /\ DrawsOver
               /\ late' = (late \/ UnderWay(Writes) # {c})
               /\ UNCHANGED <<identity, pending>>
    /\ UNCHANGED <<mounted, awaited, viewing, deleting, timer, parked, serverVars, boundVars,
                   spare>>

(* _deletePost, after the dialog; a post without a row is just left.       *)
Delete ==
    /\ Command
    /\ IF isNew
          THEN Leaving /\ UNCHANGED calls
          ELSE /\ deleting' = TRUE
               /\ Redraw(post, mode, 1)
               /\ \E c \in Calls : Send(c, "delete", Blank)
               /\ UNCHANGED <<mounted, awaited, viewing, identity, saving, saver>>
    /\ UNCHANGED <<chip, serverVars, spare>>

DeleteAnswer(c) ==
    /\ Answered(c, {"delete"})
    /\ Done(c)
    /\ IF Ok(c)
          THEN Leaving
          ELSE /\ deleting' = FALSE
               /\ Redraw(post, mode, 1)
               /\ UNCHANGED <<mounted, awaited, viewing, identity, saving, saver>>
    /\ UNCHANGED <<chip, serverVars, boundVars, spare>>

(* _publishToInstagram and _generatePreviewLink: drawn while they work.    *)
Errand(kind) ==
    /\ Command
    /\ ~isNew
    /\ UnderWay({kind}) = {}
    /\ \E c \in Calls : Send(c, kind, Blank)
    /\ Redraw(post, mode, 1)
    /\ UNCHANGED <<mounted, awaited, viewing, identity, flags, saver, chip, serverVars, spare>>

ErrandAnswer(c) ==
    /\ Answered(c, {"preview", "instagram"})
    /\ Done(c)
    /\ Redraw(IF calls[c].kind = "instagram" /\ Ok(c) THEN calls[c].data ELSE post, mode, 1)
    /\ UNCHANGED <<mounted, awaited, viewing, identity, flags, saver, chip, serverVars, boundVars,
                   spare>>

(* _handleAnalyze ("analyze") and _doAnalyzeField ("field"): the form is   *)
(* read first, and what was read is drawn when the suggestion is there.    *)
(* The details are those of state.post, and not of the form: at the start  *)
(* for a field, at the answer for the other, which also takes the blocks   *)
(* from what was read.                                                     *)
Analyze(kind) ==
    /\ Command
    /\ UnderWay({"analyze"}) = {}
    /\ \E c \in Calls : Send(c, kind, [FormData EXCEPT !.details = post.details])
    /\ UNCHANGED <<pageVars, chip, serverVars, spare>>

AnalyzeAnswer(c) ==
    LET whole == calls[c].kind = "analyze"
        snap == IF whole THEN [calls[c].data EXCEPT !.details = post.details] ELSE calls[c].data IN
    /\ Answered(c, {"analyze", "field"})
    /\ Done(c)
    /\ \E filled \in {FALSE, Ok(c) /\ edits < MaxEdits} :
          /\ edits' = IF filled THEN edits + 1 ELSE edits
          /\ post' = IF filled THEN [snap EXCEPT !.fields = edits + 1] ELSE snap
    /\ form' = IF whole THEN post' ELSE Rendered(form, post', mode)
    /\ hooks' = AtMost(hooks + 1, MaxHandlers)
    /\ late' = (late \/ (form' # form /\ (Writing \/ ~pending)))
    /\ DrawsOver
    /\ UNCHANGED <<mounted, awaited, viewing, identity, flags, saver, mode, chip, serverVars,
                   errands, spare>>

-----------------------------------------------------------------------------

Inputs == {{"fields"}, {"status", "details"}, {"details"}, {"content"}}

User ==
    \/ \E chosen \in Inputs : Input(chosen)
    \/ InsertMedia
    \/ SwitchMode
    \/ ViewOnSite
    \/ Save
    \/ Delete
    \/ \E kind \in {"preview", "instagram"} : Errand(kind)
    \/ \E kind \in {"analyze", "field"} : Analyze(kind)
    \/ LeaveEditor

Answer(c) ==
    \/ AutosaveAnswer(c)
    \/ SaveAnswer(c)
    \/ DeleteAnswer(c)
    \/ ErrandAnswer(c)
    \/ AnalyzeAnswer(c)
    \/ Orphan(c)

EditorNext ==
    \/ Load
    \/ IgStatus
    \/ User
    \/ Autosave
    \/ \E c \in Calls : Serve(c) \/ Answer(c)

(* Timers go off and calls end; nobody has to type.                        *)
EditorProgress == Autosave \/ \E c \in Calls : Serve(c) \/ Answer(c)

EditorSpec == EditorInit /\ [][EditorNext]_editorVars

-----------------------------------------------------------------------------
(* Properties.                                                             *)

(* One editor makes one post, however its saves fail and are repeated,     *)
(* except for a create that was sent beside another one (autosave and a    *)
(* button, or several handlers of one Ctrl+S) and one whose answer the     *)
(* page never got.                                                         *)
OnePost == Len(rows) <= 1 + spare

(* PostEditPage.ts:726: "`deleting` is what parks the autosave".  An       *)
(* autosave that was sent after the user moved the post to the trash never *)
(* arrives at the row in the trash.                                        *)
DeletingParks == <<"autosave", TRUE>> \notin missed

(* When the chip says Saved and no write is under way, the row is what is  *)
(* on the screen, whatever failed, was drawn again or was switched before: *)
(* as long as writes did not overlap, nothing changed beside the last one  *)
(* (nor did the text give way to blocks), nothing changed unmarked, and no *)
(* create made a draft of a post whose status was picked.                  *)
SavedIsStored ==
    (chip = "saved" /\ mounted /\ ~Writing /\ ~late) =>
        postId \in DOMAIN rows /\ rows[postId].data = form

EditorKept == OnePost /\ DeletingParks /\ SavedIsStored

(* docs/features/publishing.md: the editor autosaves on idle.  Again and   *)
(* again all that was changed has been sent and its write was answered, or *)
(* the chip says that it was not, unless the page is left, a timer went    *)
(* off in vain (in a delete or an empty post), or the change was not       *)
(* marked, was drawn over, or was counted as saved by the answer to a      *)
(* write that did not have it.                                             *)
EditsAreSaved == []<>(
    \/ owed = {} /\ ~Writing /\ chip \in {"none", "saved"}
    \/ chip = "failed" \/ ~mounted \/ parked \/ dropped)

=============================================================================
