------------------------------- MODULE MCDesk -------------------------------
(***************************************************************************)
(* For TLC: the administrator's desk.  Publishing to Instagram, on the     *)
(* server, and the desk's other pages in the browser: plugins, their       *)
(* settings, the menu, the comments with the rows one can swipe, backups   *)
(* and the jobs; and, of the public pages, the strip of years.  They share *)
(* no variable, so each is checked as if it were alone: focus says which   *)
(* one a behaviour is about.                                               *)
(***************************************************************************)
EXTENDS CrossPost, Sequences, FiniteSets

VARIABLES
    focus,
    (* PluginDesk *)
    rule, peers, onServer, presetHas, presetOn, desk, rows, active, ticks, editing, waits,
    manifest, calls, replies, deskActs, ticked, mishaps,
    (* SettingsDrawer *)
    onPage, cardsUp, setting, merged, sheets, drawer, cached, openings, puts, bells, formActs,
    slack,
    (* MenuEditor *)
    menuPhase, menuMode, format, items, inputs, preview, grip, saves, served, settings,
    editActs, menuMeant, lapses,
    (* SwipeReveal *)
    surface, reveal, swipe, tips, strays, landings, released, crowd,
    (* CommentDesk *)
    commentPhase, shelf, thread, banned, choosing, chosenRows, question, deeds, readings,
    received, barred, modActs, intended, wished, gone, blots,
    (* BackupPanel *)
    vault, scheduled, hosted, panelPhase, board, typedKeep, polling, awaiting, creation,
    removals, sending, fetched, stores, panelActs, meantPlan, lags,
    serverUp, serverRun, planned, flow, overlaid, reply, ping, sawDown, elapsed, verdict,
    restartActs, askedIn, reasons,
    (* SystemDesk *)
    jobQueue, systemPhase, jobList, jobReads, orders, clearing, longRuns, results, systemActs,
    spared, drifts,
    (* YearStrip *)
    archive, strip, grab, wheeling, tap, freshPanel, lastFocused, host, stripActs, meantYears,
    muddles

deskVars == <<rule, peers, onServer, presetHas, presetOn, desk, rows, active, ticks, editing,
              waits, manifest, calls, replies, deskActs, ticked, mishaps>>
formVars == <<onPage, cardsUp, setting, merged, sheets, drawer, cached, openings, puts, bells,
              formActs, slack>>
menuVars == <<menuPhase, menuMode, format, items, inputs, preview, grip, saves, served,
              settings, editActs, menuMeant, lapses>>
swipeVars == <<surface, reveal, swipe, tips, strays, landings, released, crowd>>
commentVars == <<commentPhase, shelf, thread, banned, choosing, chosenRows, question, deeds,
                 readings, received, barred, modActs, intended, wished, gone, blots>>
panelVars == <<vault, scheduled, hosted, panelPhase, board, typedKeep, polling, awaiting,
               creation, removals, sending, fetched, stores, panelActs, meantPlan, lags>>
restartVars == <<serverUp, serverRun, planned, flow, overlaid, reply, ping, sawDown, elapsed,
                 verdict, restartActs, askedIn, reasons>>
systemVars == <<jobQueue, systemPhase, jobList, jobReads, orders, clearing, longRuns, results,
                systemActs, spared, drifts>>
stripVars == <<archive, strip, grab, wheeling, tap, freshPanel, lastFocused, host, stripActs,
               meantYears, muddles>>
allVars == <<focus, vars, deskVars, formVars, menuVars, swipeVars, commentVars, panelVars,
             restartVars, systemVars, stripVars>>

Desk == INSTANCE PluginDesk WITH Plugins <- 2, MaxActs <- 3

Drawer == INSTANCE SettingsDrawer WITH Values <- 2, MaxActs <- 4

Menu == INSTANCE MenuEditor WITH MaxRows <- 2, MaxDepth <- 1, MaxEdits <- 4

Reveal == INSTANCE SwipeReveal WITH outcome <- released, Lines <- {1, 2}, Wide <- 3, MaxSwipes <- 2

Comments == INSTANCE CommentDesk WITH posted <- received, MaxComments <- 3, MaxMods <- 3

Backups == INSTANCE BackupPanel WITH Archives <- 2, Slots <- 2, MaxPanelActs <- 2,
    MaxServerRuns <- 4, MaxRestartActs <- 4

System == INSTANCE SystemDesk WITH queue <- jobQueue, Jobs <- {1, 2}, MaxSystemActs <- 3

Strip == INSTANCE YearStrip WITH Archives <- {{1, 2, 3}, {2}},
    Filters <- {[from |-> 1, to |-> 2]}, MaxStripActs <- 3

(* The parts that are not looked at start in one state only.               *)
DeskInit ==
    /\ focus \in {"cross-posts", "desk", "drawer", "menu", "swipe", "comments", "backups",
                  "restart", "system", "strip"}
    /\ Init /\ (focus # "cross-posts" => share)
    /\ Desk!Init
    /\ focus # "desk" => rule = "0+" /\ peers = {1} /\ onServer = {} /\ presetHas = {}
    /\ Drawer!Init /\ (focus # "drawer" => ~onPage /\ setting = 1)
    /\ Menu!Init /\ (focus # "menu" => served = [mode |-> "tags", rows |-> <<>>])
    /\ Reveal!Init /\ (focus # "swipe" => surface = "posts")
    /\ Comments!Init /\ (focus # "comments" => received = <<1>>)
    /\ Backups!Init /\ scheduled.enable
    /\ focus # "backups" => scheduled.keep = 1 /\ ~hosted /\ vault.work = "none"
    /\ System!Init /\ (focus # "system" => jobQueue = <<"failed", "failed">>)
    /\ Strip!Init
    /\ focus # "strip" =>
        archive = {1, 2, 3} /\ host.kind = "feed" /\ host.url.from = 0 /\ ~strip.short

(* A step of the part that is looked at changes no other one.              *)
Only(name) ==
    /\ focus = name
    /\ UNCHANGED focus
    /\ IF name = "cross-posts" THEN TRUE ELSE UNCHANGED vars
    /\ IF name = "desk" THEN TRUE ELSE UNCHANGED deskVars
    /\ IF name = "drawer" THEN TRUE ELSE UNCHANGED formVars
    /\ IF name = "menu" THEN TRUE ELSE UNCHANGED menuVars
    /\ IF name = "swipe" THEN TRUE ELSE UNCHANGED swipeVars
    /\ IF name = "comments" THEN TRUE ELSE UNCHANGED commentVars
    /\ IF name = "backups" THEN TRUE ELSE UNCHANGED panelVars
    /\ IF name = "restart" THEN TRUE ELSE UNCHANGED restartVars
    /\ IF name = "system" THEN TRUE ELSE UNCHANGED systemVars
    /\ IF name = "strip" THEN TRUE ELSE UNCHANGED stripVars

DeskNext ==
    \/ Only("cross-posts") /\ Next
    \/ Only("desk") /\ Desk!Next
    \/ Only("drawer") /\ Drawer!Next
    \/ Only("menu") /\ Menu!Next
    \/ Only("swipe") /\ Reveal!Next
    \/ Only("comments") /\ Comments!Next
    \/ Only("backups") /\ Backups!PanelNext
    \/ Only("restart") /\ Backups!RestartNext
    \/ Only("system") /\ System!Next
    \/ Only("strip") /\ Strip!Next

DeskSpec == DeskInit /\ [][DeskNext]_allVars

(* The desk's pages, and the strip of years: each part's type invariant    *)
(* and what it keeps.  A part that is not looked at stays in a state in    *)
(* which it starts.                                                        *)
AdminKept ==
    /\ focus = "desk" =>
        /\ Desk!TypeOK
        /\ Desk!RowsAreServers
        /\ Desk!TicksAreKept
        /\ Desk!LockedWhileUnderway
        /\ Desk!MenusFollow
    /\ focus = "drawer" =>
        /\ Drawer!TypeOK
        /\ Drawer!NoDrawerIsLost
        /\ Drawer!GoesWhenAsked
        /\ Drawer!CopyIsStored
        /\ Drawer!StoreFollows
        /\ Drawer!TypedIsKept
    /\ focus = "menu" =>
        /\ Menu!TypeOK
        /\ Menu!EditsKept
        /\ Menu!PreviewIsMenu
        /\ Menu!StoreIsServers
    /\ focus = "swipe" =>
        /\ Reveal!TypeOK
        /\ Reveal!OneRowOpen
        /\ Reveal!SwipesAreMade
    /\ focus = "comments" =>
        /\ Comments!TypeOK
        /\ Comments!TicksAreTheirs
        /\ Comments!OnlyMeantIsGone
        /\ Comments!ListsAreEngines
    /\ focus = "backups" =>
        /\ Backups!PanelTypeOK
        /\ Backups!PollEnds
        /\ Backups!ListIsServers
        /\ Backups!PlanIsMeant
    /\ focus = "restart" =>
        /\ Backups!RestartTypeOK
        /\ Backups!LoadsNewServer
        /\ Backups!FailedIsUndone
    /\ focus = "system" =>
        /\ System!TypeOK
        /\ System!ListIsQueue
        /\ System!ClearsTheCounted
    /\ focus = "strip" =>
        /\ Strip!TypeOK
        /\ Strip!StripAgrees
        /\ Strip!LastChoiceHolds
        /\ Strip!PreviewHeld

=============================================================================
