---------------------------- MODULE BackupPanel -----------------------------
(***************************************************************************)
(* The panel of backups (components/light/sections/BackupsSection.ts) in a *)
(* plugin's settings drawer: the list of archives with the one being       *)
(* written, polled while there is one, and the settings of the schedule,   *)
(* saved at every change.  The server writes one archive at a time: a      *)
(* request is answered before the work starts, and the oldest archives go  *)
(* once it is done.  The host may hold backups on (BACKUP_MANAGED).        *)
(*                                                                         *)
(* The panel also restores an archive and restarts the server, behind an   *)
(* overlay: the request to schedule, the request to restart, and the pings *)
(* until the server is back; then the page is loaded anew.  The server     *)
(* answers, and 300 ms later shuts down and executes itself again; a       *)
(* restore that is scheduled is applied on the way up.  Under the overlay  *)
(* nothing else of the panel matters: the two halves share no variable.    *)
(***************************************************************************)
EXTENDS Naturals, Sequences, FiniteSets, SequencesExt

CONSTANTS
    Archives,     \* bound: archives that there ever are
    Slots,        \* bound: list requests under way at once
    MaxPanelActs, \* bound: what the owner does, and requests that fail
    MaxServerRuns,   \* bound: how often the server runs
    MaxRestartActs   \* bound: restores, restarts, and what fails on their way

VARIABLES
    vault,        \* the server: its archives, those it has had, and its work
    scheduled,    \* the server's settings
    hosted,       \* BACKUP_MANAGED
    panelPhase,   \* "loading", "ready", or "left"
    board,        \* the component's state
    typedKeep,    \* the number in the field that no change event has told of
    polling,      \* _pollTimer is set
    awaiting,     \* _awaitingBackupStart: "no", "within" its 30 seconds, or "past" them
    creation,     \* the request to create: "none", "asked", "accepted", "refused" or "listing"
    removals,     \* requests to delete
    sending,      \* an archive is being uploaded
    fetched,      \* requests of the list under way
    stores,       \* requests to save the settings
    panelActs,
    (* history *)
    meantPlan,    \* the settings that the owner has chosen
    lags,         \* why the panel may differ from the server, or from the owner
    (* restore and restart *)
    serverUp,     \* "up", "ending" (it has promised to restart), or "down"
    serverRun,    \* which run of the server it is
    planned,      \* a restore is scheduled
    flow,         \* where _handleRestore and _restartAndReload stand
    overlaid,     \* _restartOverlay is there
    reply,        \* the server's answer to the request of the flow
    ping,         \* the ping under way
    sawDown,
    elapsed,      \* since the first ping: "soon", "after8s" or "after60s"
    verdict,      \* the last toast, or that the page was loaded anew
    restartActs,
    (* history *)
    askedIn,      \* the run of the server that the restart was asked of
    reasons       \* why the page may have it wrong

panelVars == <<vault, scheduled, hosted, panelPhase, board, typedKeep, polling, awaiting,
               creation, removals, sending, fetched, stores, panelActs, meantPlan, lags>>
restartVars == <<serverUp, serverRun, planned, flow, overlaid, reply, ping, sawDown,
                 elapsed, verdict, restartActs, askedIn, reasons>>

Archive == 1..Archives
Keep == 0..1     \* how many archives stay; 0 for all of them
Plan == [enable : BOOLEAN, keep : Keep]
Default == [enable |-> TRUE, keep |-> 1]
Listing == [files : SUBSET Archive, partial : BOOLEAN]
Empty == [files |-> {}, partial |-> FALSE]
(* What a request has read of the list and of the settings so far.         *)
NotYet == [files |-> {0}, partial |-> FALSE]
NoPlan == [enable |-> TRUE, keep |-> 2]

PanelTypeOK ==
    /\ vault \in [files : SUBSET Archive, had : 0..Archives,
                  work : {"none", "due", "writing", "written"}]
    /\ scheduled \in Plan /\ hosted \in BOOLEAN
    /\ panelPhase \in {"loading", "ready", "left"}
    /\ board.list \in Listing /\ board.plan \in Plan
    /\ {board.creating, board.uploading, board.managed} \subseteq BOOLEAN
    /\ typedKeep \in Keep \cup {2} /\ polling \in BOOLEAN /\ awaiting \in {"no", "within", "past"}
    /\ creation \in {"none", "asked", "accepted", "refused", "listing"}
    /\ removals \subseteq Archive /\ sending \in BOOLEAN
    /\ \A r \in ToSet(fetched) :
        /\ r.why \in {"load", "upload", "poll", "create"}
        /\ r.list \in Listing \cup {NotYet} /\ r.plan \in Plan \cup {NoPlan}
    /\ ToSet(stores) \subseteq Plan
    /\ panelActs \in 0..MaxPanelActs
    /\ meantPlan \in Plan
    /\ lags \subseteq {"leftBehind", "outrun", "elsewhere", "unread", "late", "rotated", "lost",
                       "refused", "overlaid", "crossed", "redrawn", "pinned",
                       "unloaded"}

Request(why) == [why |-> why, list |-> NotYet, plan |-> NoPlan]
Listed == [files |-> vault.files, partial |-> vault.work = "writing"]
PanelAct == panelActs < MaxPanelActs /\ panelActs' = panelActs + 1
Server == <<vault, scheduled, hosted>>
Timer == <<polling, awaiting>>
Form == <<board, typedKeep>>
History == <<meantPlan, lags>>

PanelInit ==
    /\ vault \in [files : {{1}}, had : {1}, work : {"none", "writing"}]
    /\ scheduled \in Plan /\ hosted \in BOOLEAN
    /\ panelPhase = "loading"
    /\ board = [list |-> Empty, plan |-> Default, managed |-> FALSE, creating |-> FALSE,
                 uploading |-> FALSE]
    /\ typedKeep = 2 /\ polling = FALSE /\ awaiting = "no"
    /\ creation = "none" /\ removals = {} /\ sending = FALSE
    /\ fetched = <<Request("load")>> /\ stores = <<>>
    /\ panelActs = 0
    /\ meantPlan = scheduled /\ lags = {}

-----------------------------------------------------------------------------
(* The server.                                                             *)

Elsewhere == <<hosted, panelPhase, Form, Timer, creation, removals, sending, fetched, stores>>

(* A backup that another tab or the schedule asks for.                     *)
OthersCreate ==
    /\ PanelAct /\ vault.work = "none" /\ vault.had < Archives
    /\ vault' = [vault EXCEPT !.work = "due"] /\ lags' = lags \cup {"elsewhere"}
    /\ UNCHANGED <<Elsewhere, scheduled, meantPlan>>

(* The work starts a moment after it was accepted, or not at all.          *)
WorkStarts(fits) ==
    /\ vault.work = "due"
    /\ vault' = [vault EXCEPT !.work = IF fits THEN "writing" ELSE "none"]
    /\ lags' = IF awaiting = "past" \/ ~fits THEN lags \cup {"late"} ELSE lags
    /\ UNCHANGED <<Elsewhere, scheduled, panelActs, meantPlan>>

WorkEnds(whole) ==
    /\ vault.work = "writing"
    /\ LET new == vault.had + 1
       IN  vault' = IF whole /\ new \in Archive
                    THEN [files |-> vault.files \cup {new}, had |-> new, work |-> "written"]
                    ELSE [vault EXCEPT !.work = "none"]
    /\ UNCHANGED <<Elsewhere, scheduled, panelActs, History>>

(* RotateBackups keeps the newest; a list read before still has the rest.  *)
Rotate ==
    /\ vault.work = "written"
    /\ LET stay == IF scheduled.keep = 0 THEN vault.files
                   ELSE {a \in vault.files : \A b \in vault.files : b <= a}
       IN  /\ vault' = [vault EXCEPT !.files = stay, !.work = "none"]
           /\ lags' = IF /\ stay # vault.files
                         /\ ~polling \/ \E r \in ToSet(fetched) : r.list # NotYet
                      THEN lags \cup {"rotated"} ELSE lags
    /\ UNCHANGED <<Elsewhere, scheduled, panelActs, meantPlan>>

(* CreateBackup: refused if one is being written; the job that is only due *)
(* does not count, and ends at once if there is another one.               *)
ServeCreate ==
    /\ creation = "asked"
    /\ \/ /\ vault.work \in {"writing", "written"} /\ creation' = "refused"
          /\ UNCHANGED <<vault, panelActs, lags>>
       \/ /\ vault.work \in {"none", "due"} /\ vault.had < Archives
          /\ creation' = "accepted" /\ vault' = [vault EXCEPT !.work = "due"]
          /\ UNCHANGED <<panelActs, lags>>
       \/ /\ PanelAct /\ creation' = "refused"
          /\ \/ UNCHANGED <<vault, lags>>
             \/ /\ vault.work = "none" /\ vault.had < Archives
                /\ vault' = [vault EXCEPT !.work = "due"] /\ lags' = lags \cup {"lost"}
    /\ UNCHANGED <<scheduled, hosted, panelPhase, Form, Timer, removals, sending, fetched,
                   stores, meantPlan>>

-----------------------------------------------------------------------------
(* The list and its polling.                                               *)

(* _syncPoll, with the list as setState left it.                           *)
SyncPoll(list, waits) ==
    LET active == list.partial
        should == active \/ (waits = "within")
    IN  /\ polling' = should
        /\ awaiting' = IF active \/ ~should THEN "no" ELSE waits

(* The interval's next turn.                                               *)
Tick ==
    /\ polling /\ Len(fetched) < Slots
    /\ fetched' = Append(fetched, Request("poll"))
    /\ UNCHANGED <<Server, panelPhase, Form, Timer, creation, removals, sending, stores,
                   panelActs, History>>

(* 30 seconds have passed since the click.                                 *)
GraceEnds ==
    /\ awaiting = "within" /\ awaiting' = "past"
    /\ lags' = IF vault.work # "none" \/ board.list # Listed THEN lags \cup {"late"} ELSE lags
    /\ UNCHANGED <<Server, panelPhase, Form, polling, creation, removals, sending, fetched,
                   stores, panelActs, meantPlan>>

(* The requests of one load are read at one moment.                        *)
Read(i) ==
    /\ fetched[i].list = NotYet
    /\ fetched' = [fetched EXCEPT ![i].list = Listed, ![i].plan = scheduled]
    /\ UNCHANGED <<Server, panelPhase, Form, Timer, creation, removals, sending, stores,
                   panelActs, History>>

(* A redraw rebuilds the fields from the state.                            *)
Redrawn(causes) ==
    /\ typedKeep' = 2
    /\ lags' = lags \cup causes \cup (IF typedKeep # 2 THEN {"redrawn"} ELSE {})

(* Another answer on its way tells of something else, and the later one    *)
(* stays; or this one tells of work that has ended, and not of what is due.*)
Crossing(i) ==
    IF \/ fetched[i].list.partial /\ vault.work = "due"
       \/ \E j \in DOMAIN fetched \ {i} :
            fetched[j].list \notin {NotYet, fetched[i].list}
    THEN {"outrun"} ELSE {}

(* Mutant: the polls stop at a list with nothing being written.            *)
ArrivedWaitless(list) == SyncPoll(list, "no")

Arrived(list) == SyncPoll(list, awaiting)

(* _refreshBackups; a request that failed leaves the list, and the timer   *)
(* looks at it again.                                                      *)
Refreshed(i) ==
    LET r == fetched[i]
        fails == r.list = NotYet
        shown == IF panelPhase = "left" \/ fails THEN board.list ELSE r.list
    IN  /\ r.why \in {"poll", "create"}
        /\ IF fails THEN PanelAct ELSE UNCHANGED panelActs
        /\ fetched' = RemoveAt(fetched, i)
        /\ board' = [board EXCEPT !.list = shown]
        /\ Arrived(shown)
        /\ IF panelPhase = "left" \/ fails
           THEN /\ lags' = lags \cup {IF panelPhase = "left" THEN "leftBehind" ELSE "unread"}
                /\ UNCHANGED typedKeep
           ELSE Redrawn(Crossing(i))
        /\ creation' = IF r.why = "create" THEN "none" ELSE creation
        /\ UNCHANGED <<Server, panelPhase, removals, sending, stores, meantPlan>>

(* _load: what could not be read counts as nothing, or as the defaults.    *)
Loaded(i, failing) ==
    LET r == fetched[i]
        list == IF "list" \in failing THEN Empty ELSE r.list
        plan == IF "plan" \in failing THEN Default ELSE r.plan
        managed == hosted /\ "host" \notin failing
        new == [board EXCEPT !.list = list, !.plan = plan, !.managed = managed,
                             !.uploading = @ /\ r.why # "upload"]
    IN  /\ r.why \in {"load", "upload"} /\ r.list # NotYet
        /\ IF failing # {} THEN PanelAct ELSE UNCHANGED panelActs
        /\ fetched' = RemoveAt(fetched, i)
        /\ IF panelPhase = "left"
           THEN /\ Arrived(board.list)
                /\ lags' = lags \cup {"leftBehind"}
                /\ UNCHANGED <<board, typedKeep, panelPhase>>
           ELSE /\ board' = new /\ panelPhase' = "ready"
                /\ Arrived(list)
                /\ Redrawn(Crossing(i) \cup (IF failing # {} THEN {"unread"} ELSE {})
                           \cup (IF plan # board.plan /\ (plan # scheduled \/ stores # <<>>)
                                 THEN {"overlaid"} ELSE {}))
        /\ UNCHANGED <<Server, creation, removals, sending, stores, meantPlan>>

-----------------------------------------------------------------------------
(* What the owner does.  The buttons and the fields are drawn and bound    *)
(* while the panel still loads, the fields with the defaults in them.      *)

Open == panelPhase # "left"
CanCreate == Open /\ ~board.creating /\ ~board.uploading /\ ~board.list.partial

Create ==
    /\ PanelAct /\ CanCreate /\ creation = "none"
    /\ board' = [board EXCEPT !.creating = TRUE] /\ Redrawn({})
    /\ creation' = "asked"
    /\ UNCHANGED <<Server, panelPhase, Timer, removals, sending, fetched, stores, meantPlan>>

(* The answer: polls go on until the archive appears, for 30 seconds.      *)
CreateAccepted ==
    /\ creation = "accepted" /\ Len(fetched) < Slots
    /\ creation' = "listing" /\ awaiting' = "within"
    /\ fetched' = Append(fetched, Request("create"))
    /\ UNCHANGED <<Server, panelPhase, Form, polling, removals, sending, stores, panelActs,
                   History>>

CreateRefused ==
    /\ creation = "refused" /\ creation' = "none"
    /\ UNCHANGED <<Server, panelPhase, Form, Timer, removals, sending, fetched, stores,
                   panelActs, History>>

(* The finally block, after the list or the refusal.                       *)
CreateEnds ==
    /\ creation = "none" /\ board.creating /\ panelPhase # "left"
    /\ board' = [board EXCEPT !.creating = FALSE] /\ Redrawn({})
    /\ UNCHANGED <<Server, panelPhase, Timer, creation, removals, sending, fetched, stores,
                   panelActs, meantPlan>>

Delete(a) ==
    /\ PanelAct /\ panelPhase = "ready" /\ a \in board.list.files \ removals
    /\ removals' = removals \cup {a}
    /\ UNCHANGED <<Server, panelPhase, Form, Timer, creation, sending, fetched, stores, History>>

(* The archive is deleted, and all of it is loaded again.                  *)
DeleteDone(a) ==
    /\ a \in removals /\ a \in vault.files /\ Len(fetched) < Slots
    /\ removals' = removals \ {a} /\ vault' = [vault EXCEPT !.files = @ \ {a}]
    /\ fetched' = Append(fetched, Request("load"))
    /\ UNCHANGED <<scheduled, hosted, panelPhase, Form, Timer, creation, sending, stores,
                   panelActs, History>>

(* Or the request fails, or its answer is lost: nothing is loaded.         *)
DeleteFails(a) ==
    /\ a \in removals /\ removals' = removals \ {a}
    /\ IF a \in vault.files THEN PanelAct ELSE UNCHANGED panelActs
    /\ \/ UNCHANGED <<vault, lags>>
       \/ /\ a \in vault.files /\ vault' = [vault EXCEPT !.files = @ \ {a}]
          /\ lags' = lags \cup {"lost"}
    /\ UNCHANGED <<scheduled, hosted, panelPhase, Form, Timer, creation, sending, fetched, stores,
                   meantPlan>>

(* The dialog was confirmed: the file goes up, and the list is loaded.     *)
Upload ==
    /\ PanelAct /\ CanCreate
    /\ board' = [board EXCEPT !.uploading = TRUE] /\ Redrawn({}) /\ sending' = TRUE
    /\ UNCHANGED <<Server, panelPhase, Timer, creation, removals, fetched, stores, meantPlan>>

UploadDone ==
    /\ sending /\ sending' = FALSE /\ vault.had < Archives /\ Len(fetched) < Slots
    /\ vault' = [vault EXCEPT !.files = @ \cup {vault.had + 1}, !.had = @ + 1]
    /\ fetched' = Append(fetched, Request("upload"))
    /\ UNCHANGED <<scheduled, hosted, panelPhase, Form, Timer, creation, removals, stores,
                   panelActs, History>>

UploadFails ==
    /\ sending /\ sending' = FALSE /\ PanelAct
    /\ \E stored \in BOOLEAN :
        /\ IF stored
           THEN /\ vault.had < Archives
                /\ vault' = [vault EXCEPT !.files = @ \cup {vault.had + 1}, !.had = @ + 1]
           ELSE UNCHANGED vault
        /\ LET lost == IF stored THEN {"lost"} ELSE {}
           IN  IF panelPhase = "left" THEN lags' = lags \cup lost /\ UNCHANGED Form
               ELSE board' = [board EXCEPT !.uploading = FALSE] /\ Redrawn(lost)
    /\ UNCHANGED <<scheduled, hosted, panelPhase, Timer, creation, removals, fetched, stores, meantPlan>>

(* Digits typed into the field: its change event comes when it is left.    *)
Type(k) ==
    /\ PanelAct /\ Open /\ k # board.plan.keep /\ typedKeep' = k
    /\ UNCHANGED <<Server, panelPhase, board, Timer, creation, removals, sending, fetched,
                   stores, History>>

(* Mutant: the state is not told of what is saved.                         *)
ChosenUntold(plan) == board

Chosen(plan) == [board EXCEPT !.plan = plan]

(* _saveSettings reads every field; a managed host's panel has no box.     *)
Change(enable) ==
    LET keep == IF typedKeep = 2 THEN board.plan.keep ELSE typedKeep
        plan == [enable |-> board.managed \/ enable, keep |-> keep]
    IN  /\ Open /\ Len(stores) < Slots
        /\ (board.managed => enable = board.plan.enable)
        /\ \/ /\ enable # board.plan.enable /\ typedKeep = 2 /\ PanelAct
              /\ meantPlan' = [meantPlan EXCEPT !.enable = enable]
           \/ /\ enable = board.plan.enable /\ typedKeep # 2 /\ UNCHANGED panelActs
              /\ meantPlan' = [meantPlan EXCEPT !.keep = keep]
        /\ board' = Chosen(plan) /\ typedKeep' = 2
        /\ stores' = Append(stores, plan)
        /\ lags' = lags \cup (IF board.managed /\ ~enable THEN {"pinned"} ELSE {})
                        \cup (IF panelPhase = "loading" /\ plan # meantPlan'
                              THEN {"unloaded"} ELSE {})
        /\ UNCHANGED <<Server, panelPhase, Timer, creation, removals, sending, fetched>>

Store(i) ==
    /\ stores' = RemoveAt(stores, i)
    /\ \/ /\ scheduled' = stores[i] /\ UNCHANGED panelActs
          /\ lags' = IF i > 1 THEN lags \cup {"crossed"} ELSE lags
       \/ PanelAct /\ UNCHANGED scheduled /\ lags' = lags \cup {"refused"}
    /\ UNCHANGED <<vault, hosted, panelPhase, Form, Timer, creation, removals, sending, fetched,
                   meantPlan>>

(* The drawer is closed.                                                   *)
Leave ==
    /\ PanelAct /\ panelPhase # "left" /\ panelPhase' = "left"
    /\ polling' = FALSE
    /\ UNCHANGED <<Server, Form, awaiting, creation, removals, sending, fetched, stores,
                   History>>

PanelNext ==
    \/ OthersCreate \/ (\E ok \in BOOLEAN : WorkStarts(ok) \/ WorkEnds(ok)) \/ Rotate
    \/ ServeCreate
    \/ Tick \/ GraceEnds
    \/ \E i \in DOMAIN fetched : Read(i) \/ Refreshed(i)
    \/ \E i \in DOMAIN fetched, failing \in SUBSET {"list", "plan", "host"} : Loaded(i, failing)
    \/ Create \/ CreateAccepted \/ CreateRefused \/ CreateEnds
    \/ \E a \in Archive : Delete(a) \/ DeleteDone(a) \/ DeleteFails(a)
    \/ Upload \/ UploadDone \/ UploadFails
    \/ \E k \in Keep : Type(k)
    \/ \E on \in BOOLEAN : Change(on)
    \/ \E i \in DOMAIN stores : Store(i)
    \/ Leave

-----------------------------------------------------------------------------
(* Restore and restart.                                                    *)

RestartTypeOK ==
    /\ serverUp \in {"up", "ending", "down"} /\ serverRun \in 1..MaxServerRuns
    /\ {planned, overlaid, sawDown} \subseteq BOOLEAN
    /\ flow \in {"none", "schedule", "restart", "wait", "reload"}
    /\ reply \in {"none", "ok", "error"}
    /\ ping \in {"none", "sent", "true", "false"}
    /\ elapsed \in {"soon", "after8s", "after60s"}
    /\ verdict \in {"none", "failed", "reloaded"}
    /\ restartActs \in 0..MaxRestartActs
    /\ askedIn \in 0..MaxServerRuns
    /\ reasons \subseteq {"lost", "pending", "capped", "gone"}

RestartAct == restartActs < MaxRestartActs /\ restartActs' = restartActs + 1
Up == serverUp # "down"
Host == <<serverUp, serverRun, planned>>
Waits == <<ping, sawDown, elapsed>>

RestartInit ==
    /\ serverUp = "up" /\ serverRun = 1 /\ planned = FALSE
    /\ flow = "none" /\ overlaid = FALSE /\ reply = "none"
    /\ ping = "none" /\ sawDown = FALSE /\ elapsed = "soon"
    /\ verdict = "none" /\ restartActs = 0 /\ askedIn = 0 /\ reasons = {}

-----------------------------------------------------------------------------
(* The server.                                                             *)

(* The promised restart, 300 ms after the answer; or the host stops it.    *)
GoesDown ==
    /\ \/ serverUp = "ending" /\ UNCHANGED <<restartActs, reasons>>
       \/ /\ serverUp = "up" /\ RestartAct
          /\ reasons' = IF verdict = "reloaded" THEN reasons ELSE reasons \cup {"gone"}
    /\ serverRun < MaxServerRuns
    /\ serverUp' = "down"
    /\ UNCHANGED <<serverRun, planned, flow, overlaid, reply, Waits, verdict, askedIn>>

(* What is scheduled is applied before the database is opened.             *)
ComesUp ==
    /\ serverUp = "down"
    /\ serverUp' = "up" /\ serverRun' = serverRun + 1
    /\ planned' = FALSE
    /\ UNCHANGED <<flow, overlaid, reply, Waits, verdict, restartActs, askedIn, reasons>>

(* ScheduleRestore; the password may be wrong, or the archive be no good.  *)
ServeSchedule(good) ==
    /\ flow = "schedule" /\ reply = "none" /\ Up
    /\ planned' = (planned \/ good) /\ reply' = IF good THEN "ok" ELSE "error"
    /\ UNCHANGED <<serverUp, serverRun, flow, overlaid, Waits, verdict, restartActs,
                   askedIn, reasons>>

(* RestartServer answers first.                                            *)
ServeRestart ==
    /\ flow = "restart" /\ reply = "none" /\ Up
    /\ serverUp' = "ending" /\ reply' = "ok"
    /\ UNCHANGED <<serverRun, planned, flow, overlaid, Waits, verdict, restartActs,
                   askedIn, reasons>>

(* A request fails, or its answer is lost.                                 *)
Fails ==
    /\ flow \in {"schedule", "restart"} /\ reply \in {"none", "ok"} /\ reply' = "error"
    /\ IF Up THEN RestartAct ELSE UNCHANGED restartActs
    /\ reasons' = IF reply = "ok" THEN reasons \cup {"lost"} ELSE reasons
    /\ UNCHANGED <<Host, flow, overlaid, Waits, verdict, askedIn>>

-----------------------------------------------------------------------------
(* The page.                                                               *)

(* The overlay covers the page: there is no second flow beside one.        *)
HandleRestore ==
    /\ RestartAct /\ flow = "none"
    /\ flow' = "schedule" /\ overlaid' = TRUE /\ verdict' = "none"
    /\ UNCHANGED <<Host, reply, Waits, askedIn, reasons>>

HandleRestart ==
    /\ RestartAct /\ flow = "none"
    /\ flow' = "restart" /\ overlaid' = TRUE /\ verdict' = "none" /\ askedIn' = serverRun
    /\ UNCHANGED <<Host, reply, Waits, reasons>>

Scheduled ==
    /\ flow = "schedule" /\ reply = "ok"
    /\ flow' = "restart" /\ reply' = "none" /\ askedIn' = serverRun
    /\ UNCHANGED <<Host, overlaid, Waits, verdict, restartActs, reasons>>

(* The overlay goes and a toast tells; what is scheduled stays so.         *)
Told ==
    /\ flow \in {"schedule", "restart"} /\ reply = "error"
    /\ flow' = "none" /\ reply' = "none" /\ overlaid' = FALSE /\ verdict' = "failed"
    /\ reasons' = IF flow = "restart" /\ planned THEN reasons \cup {"pending"} ELSE reasons
    /\ UNCHANGED <<Host, Waits, restartActs, askedIn>>

Restarting ==
    /\ flow = "restart" /\ reply = "ok"
    /\ flow' = "wait" /\ reply' = "none" /\ ping' = "sent" /\ sawDown' = FALSE /\ elapsed' = "soon"
    /\ UNCHANGED <<Host, overlaid, verdict, restartActs, askedIn, reasons>>

Ping ==
    /\ flow = "wait" /\ ping = "sent"
    /\ ping' = IF Up THEN "true" ELSE "false"
    /\ UNCHANGED <<Host, flow, overlaid, reply, sawDown, elapsed, verdict, restartActs, askedIn,
                   reasons>>

(* A ping fails although the server is there.                              *)
PingFails ==
    /\ flow = "wait" /\ ping = "sent" /\ Up /\ RestartAct
    /\ ping' = "false" /\ reasons' = reasons \cup {"lost"}
    /\ UNCHANGED <<Host, flow, overlaid, reply, sawDown, elapsed, verdict, askedIn>>

(* The promise takes effect long before the first eight seconds are over,  *)
(* and an answer that was given is read.                                   *)
TimePasses ==
    /\ flow = "wait" /\ ping # "true"
    /\ \/ elapsed = "soon" /\ serverUp # "ending" /\ elapsed' = "after8s"
       \/ elapsed = "after8s" /\ elapsed' = "after60s"
    /\ UNCHANGED <<Host, flow, overlaid, reply, ping, sawDown, verdict, restartActs, askedIn,
                   reasons>>

(* Mutant: the first answer will do.                                       *)
BackAtOnce(up, down) == up \/ elapsed = "after60s"

(* It has cycled, or it is up and was never seen down, or time is up.      *)
Back(up, down) ==
    \/ down /\ up
    \/ up /\ elapsed # "soon"
    \/ elapsed = "after60s"

(* _awaitServerBack's tick, after the ping.                                *)
Answered ==
    /\ flow = "wait" /\ ping \in {"true", "false"}
    /\ LET up == ping = "true"
           down == sawDown \/ ~up
       IN  /\ sawDown' = down
           /\ IF Back(up, down)
              THEN /\ flow' = "reload" /\ ping' = "none"
                   /\ reasons' = IF up THEN reasons ELSE reasons \cup {"capped"}
              ELSE flow' = flow /\ ping' = "sent" /\ reasons' = reasons
    /\ UNCHANGED <<Host, overlaid, reply, elapsed, verdict, restartActs, askedIn>>

(* location.reload(): the page starts anew, if the server serves it.       *)
Reload ==
    /\ flow = "reload"
    /\ flow' = "none" /\ overlaid' = FALSE /\ verdict' = "reloaded"
    /\ UNCHANGED <<Host, reply, Waits, restartActs, askedIn, reasons>>

RestartNext ==
    \/ GoesDown \/ ComesUp
    \/ (\E good \in BOOLEAN : ServeSchedule(good)) \/ ServeRestart \/ Fails
    \/ HandleRestore \/ HandleRestart \/ Scheduled \/ Told \/ Restarting
    \/ Ping \/ PingFails \/ TimePasses \/ Answered \/ Reload

-----------------------------------------------------------------------------
(* A step of one half leaves the other as it is.                           *)

Init == PanelInit /\ RestartInit

Next ==
    \/ PanelNext /\ UNCHANGED restartVars
    \/ RestartNext /\ UNCHANGED panelVars

Spec == Init /\ [][Next]_<<panelVars, restartVars>>

TypeOK == PanelTypeOK /\ RestartTypeOK

-----------------------------------------------------------------------------
(* Properties.                                                             *)

(* Nothing of the panel is under way.                                      *)
AtRest ==
    /\ fetched = <<>> /\ creation = "none" /\ removals = {} /\ ~sending /\ stores = <<>>
    /\ panelPhase = "left" \/ ~board.creating

(* The panel polls for an archive that is being written or waited for, and *)
(* no longer.  A panel that was left polls no more (beforeUnmount stops the interval), *)
(* unless a request that was under way then has set it again.              *)
PollEnds ==
    /\ panelPhase = "ready" /\ polling => board.list.partial \/ awaiting # "no"
    /\ panelPhase = "left" /\ polling => "leftBehind" \in lags

(* Once it polls no more, the list on the screen is the server's: the      *)
(* grace after the click and the row in progress keep the interval going   *)
(* until the archive is there.  But for a backup asked for elsewhere, work *)
(* that starts late, the rotation after it, an older answer, or one that   *)
(* failed.                                                                 *)
ListIsServers ==
    (AtRest /\ panelPhase = "ready" /\ ~polling)
    => \/ board.list = Listed
       \/ lags \cap {"elsewhere", "late", "rotated", "outrun", "unread", "lost"} # {}

(* What the owner chose is what the server has and what the fields show,   *)
(* but for a save that was refused, one that crossed another, reads that   *)
(* failed or came with older settings after a change, and a change made    *)
(* before the settings had come: it sends the defaults for the others.     *)
PlanIsMeant ==
    AtRest /\ panelPhase # "loading"
    => \/ scheduled = meantPlan /\ (panelPhase = "ready" => board.plan = meantPlan)
       \/ lags \cap {"refused", "crossed", "unread", "overlaid", "pinned", "unloaded"} # {}

(* The page is loaded from a run of the server that started after the      *)
(* restart was asked for, and finds it up, with the restore applied: the   *)
(* operator never meets a refused connection, and never the server as it   *)
(* was before.  But for a restart of more than sixty seconds, a ping that  *)
(* failed by itself, and a host that stops the server.                     *)
LoadsNewServer ==
    flow = "reload" =>
        \/ serverRun > askedIn /\ Up /\ ~planned
        \/ reasons \cap {"capped", "lost", "gone"} # {}

(* A restore that the operator was told had failed is not scheduled, but   *)
(* for one whose answer was lost, and one whose restart was refused: it    *)
(* stays on the server, and the next restart for whatever reason applies   *)
(* it.  One from before waits for a server that was not back in time.      *)
FailedIsUndone ==
    flow = "none" /\ verdict = "failed" /\ planned
    => reasons \cap {"lost", "pending", "capped"} # {}

=============================================================================
