------------------------------ MODULE MCFront ------------------------------
(***************************************************************************)
(* For TLC: what the front end stands on, and the parts of it that have to *)
(* come to an end: the router, components, the feeds, the service worker,  *)
(* and the editor with its autosave.  They share no variable here, so each *)
(* is checked as if it were alone: focus says which one a behaviour is     *)
(* about.                                                                  *)
(***************************************************************************)
EXTENDS Components, Router, Feeds, ServiceWorker, PostEditor

VARIABLE focus

allVars == <<focus, routerVars, compVars, feedVars, swVars, editorVars>>

(* The window fits five posts around a paginator of pages of two, and two  *)
(* around the longer one of pages of five; the other one fits two.         *)
Windows == <<[n \in Sizes |-> IF n = 2 THEN 5 ELSE 2], [n \in Sizes |-> 2]>>

(* Each component's state is of its types, also while another one moves.   *)
FrontTypeOK == RouterTypeOK /\ CompTypeOK /\ FeedTypeOK /\ WorkerTypeOK /\ EditorTypeOK

(* The components that are not looked at start in one state only, and so   *)
(* does a feed's window, which fitted two, with the chunk still to load.   *)
(* The home page gets the settings with its answers.                       *)
FrontInit ==
    /\ focus \in {"router", "components", "feeds", "worker", "editor"}
    /\ RouterInit /\ (focus # "router" => location = "home" /\ ~cookie /\ installed /\ claimed)
    /\ CompInit
    /\ WorkerInit
    /\ FeedInit /\ chunk = "absent" /\ viewport = 1 /\ lastFit = 2 /\ address.per \in {0, 2}
    /\ (feed = "home" => minimum = 2)
    /\ (focus # "feeds" => feed = "home" /\ address.per = 2)
    /\ EditorInit /\ (focus # "editor" => isNew)

(* A step of the component that is looked at changes no other one.         *)
Only(name) ==
    /\ focus = name
    /\ UNCHANGED focus
    /\ IF name = "router" THEN TRUE ELSE UNCHANGED routerVars
    /\ IF name = "components" THEN TRUE ELSE UNCHANGED compVars
    /\ IF name = "feeds" THEN TRUE ELSE UNCHANGED feedVars
    /\ IF name = "worker" THEN TRUE ELSE UNCHANGED swVars
    /\ IF name = "editor" THEN TRUE ELSE UNCHANGED editorVars

FrontNext ==
    \/ Only("router") /\ RouterNext
    \/ Only("components") /\ CompNext
    \/ Only("feeds") /\ FeedNext
    \/ Only("worker") /\ WorkerNext
    \/ Only("editor") /\ EditorNext

(* Promises, frames and timers go on; nobody has to do anything.  What     *)
(* people and faults do is bounded, so that this is all a page needs.      *)
FrontProgress ==
    /\ WF_routerVars(focus = "router" /\ RouterProgress)
    /\ WF_compVars(focus = "components" /\ CompProgress)
    /\ WF_feedVars(focus = "feeds" /\ FeedProgress)
    /\ WF_swVars(focus = "worker" /\ WorkerProgress)
    /\ WF_editorVars(focus = "editor" /\ EditorProgress)

FrontSpec == FrontInit /\ [][FrontNext]_allVars /\ FrontProgress

(* Every page comes to rest: navigations and dispatches end, and feeds     *)
(* settle on a per_page.                                                   *)
FrontSettles == []<>(
    \/ focus = "editor"
    \/ focus = "router" /\ RouterSettled
    \/ focus = "components" /\ CompSettled
    \/ focus = "feeds" /\ FeedSettled
    \/ focus = "worker" /\ WorkerSettled)

=============================================================================
