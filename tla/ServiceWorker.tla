---------------------------- MODULE ServiceWorker ----------------------------
(***************************************************************************)
(* The service worker (sw.ts) and what the page keeps for it: the caches   *)
(* of the shell, one for each build, the snapshot and the pictures that    *)
(* "Update Offline Data" stores (OfflineDataSection.ts, imageCache.ts,     *)
(* offlineStore.ts), and the queue of shares that the editor empties.      *)
(*                                                                         *)
(* One tab, which shows one page at a time; a build is served with its own *)
(* worker, shell and script.  The pictures are one image with a small and  *)
(* a large rung and its original.  A share is a file.                      *)
(***************************************************************************)
EXTENDS Naturals, FiniteSets

CONSTANTS
    Builds,   \* bound: builds that are deployed, one after another
    Shares,   \* what other applications share, numbered as it comes
    MaxDeeds  \* bound: what users, operators and the network do

ASSUME WorkerAssumption == Builds \in Nat \ {0} /\ MaxDeeds \in Nat /\ Shares \subseteq Nat

VARIABLES
    build,     \* the build that the server runs
    gen,       \* the generation of its thumbnails
    link,      \* "up"; "deaf": navigator.onLine and no answer; "down"
    (* the workers, by build *)
    worker,    \* how far each is
    toAdd,     \* the shell's URLs that its install has not dealt with
    shell,     \* entries of the caches point-<build>
    orphan,    \* installing into a cache that was deleted under it
    patchy,    \* the shell was not added, or was deleted by another worker
    refresh,   \* revalidations under way
    (* the tab *)
    tab,
    raced,     \* a deploy or a lost network since its document was asked for
    (* offline data *)
    snapshot,  \* the posts and tags stored: of which fetch
    lastSync,
    images,    \* entries of the two caches of pictures
    download,  \* "Update Offline Data"
    frayed,    \* some picture was not added since the caches were cleared
    answer,    \* serveFromOfflineStore at work
    (* shares *)
    shared,    \* shares that were received
    inbox,     \* the queue of point-share
    editors,   \* each editor that was opened for a share
    kept,      \* shares that reached an open editor or a draft
    trampled,  \* shares whose upload failed, whose editor was left before it was
               \* uploaded, or that came while another one was worked off
    deeds

swVars == <<build, gen, link, worker, toAdd, shell, orphan, patchy, refresh, tab, raced, snapshot,
            lastSync, images, download, frayed, answer, shared, inbox,
            editors, kept, trampled, deeds>>
world == <<build, gen, link>>
workers == <<worker, toAdd, shell, orphan, patchy, refresh>>
offline == <<snapshot, lastSync, images, download, frayed, answer>>
shares == <<shared, inbox, editors, kept, trampled>>

Build == 1..Builds
Url == {"page", "script"}
Entry == [in : Build, url : Url, key : 0..Builds, holds : Build]
Rung == {"small", "large", "original"}
Picture == [cache : {"thumbs", "full"}, rung : Rung, gen : 0..1]
NoTab == [phase |-> "closed", via |-> 0, html |-> 0, app |-> 0, gen |-> 0]
NoAnswer == [step |-> "none", tags |-> 0, posts |-> 0, over |-> FALSE, torn |-> FALSE]
Editor == 1..2
NoEditor == [step |-> "none", entries |-> {}, open |-> FALSE]
EditorState == [step : {"none", "insert", "drafts", "clear"}, entries : SUBSET Shares,
                open : BOOLEAN]

WorkerTypeOK ==
    /\ build \in Build /\ gen \in 0..1 /\ link \in {"up", "deaf", "down"}
    /\ worker \in [Build -> {"none", "installing", "waiting", "activating", "active"}]
    /\ toAdd \in [Build -> SUBSET Url]
    /\ shell \subseteq Entry /\ refresh \subseteq Build \X Build
    /\ orphan \subseteq Build /\ patchy \subseteq Build
    /\ tab \in [phase : {"closed", "page", "script", "ready"}, via : 0..Builds, html : 0..Builds,
                app : 0..Builds, gen : 0..1]
    /\ raced \in BOOLEAN
    /\ snapshot \in 0..MaxDeeds /\ lastSync \in BOOLEAN /\ frayed \in BOOLEAN
    /\ images \subseteq Picture
    /\ download \in [step : {"none", "fetch", "save", "clear", "thumbs", "originals", "stamp"},
                     left : SUBSET Picture]
    /\ answer \in [step : {"none", "tags", "posts", "done"}, tags : 0..MaxDeeds,
                   posts : 0..MaxDeeds, over : BOOLEAN, torn : BOOLEAN]
    /\ shared \subseteq Shares /\ inbox \subseteq shared
    /\ kept \subseteq Shares /\ trampled \subseteq Shares
    /\ editors \in [Editor -> EditorState]
    /\ deeds \in 0..MaxDeeds

WorkerInit ==
    /\ build = 1 /\ gen = 0 /\ link = "up"
    /\ worker = [v \in Build |-> "none"]
    /\ toAdd = [v \in Build |-> {}]
    /\ shell = {} /\ orphan = {} /\ patchy = {} /\ refresh = {}
    /\ tab = NoTab /\ raced = FALSE
    /\ snapshot = 0 /\ lastSync = FALSE /\ images = {} /\ frayed = FALSE
    /\ download = [step |-> "none", left |-> {}]
    /\ answer = NoAnswer
    /\ shared = {} /\ inbox = {} /\ kept = {} /\ trampled = {}
    /\ editors = [e \in Editor |-> NoEditor]
    /\ deeds = 0

Deed == deeds < MaxDeeds /\ deeds' = deeds + 1
Loading == tab.phase \in {"page", "script"}

-----------------------------------------------------------------------------
(* The world.                                                              *)

Deploy ==
    /\ Deed /\ build < Builds
    /\ build' = build + 1
    /\ raced' = (raced \/ Loading)
    /\ UNCHANGED <<gen, link, workers, tab, offline, shares>>

RebuildThumbnails ==
    /\ Deed /\ gen = 0
    /\ gen' = 1
    /\ UNCHANGED <<build, link, workers, tab, raced, offline, shares>>

LinkBecomes(state) ==
    /\ Deed /\ link # state
    /\ link' = state
    /\ raced' = (raced \/ Loading)
    /\ UNCHANGED <<build, gen, workers, tab, offline, shares>>

-----------------------------------------------------------------------------
(* The life of a worker.                                                   *)

(* register: the browser fetches /sw.js, which carries the build, and      *)
(* installs a worker that it has not seen; one at a time.                  *)
Register ==
    /\ tab.phase = "ready" /\ link = "up"
    /\ worker[build] = "none"
    /\ \A v \in Build : worker[v] # "installing"
    /\ worker' = [v \in Build |-> IF v = build THEN "installing"
                                  ELSE IF worker[v] = "waiting" THEN "none" ELSE worker[v]]
    /\ toAdd' = [toAdd EXCEPT ![build] = Url]
    /\ UNCHANGED <<world, shell, orphan, patchy, refresh, tab, raced, offline, shares, deeds>>

Put(entries, new) ==
    {e \in entries : <<e.in, e.url, e.key>> # <<new.in, new.url, new.key>>} \cup {new}

(* install: one cache.add; a failure is only logged.                       *)
Add(v, url) ==
    /\ worker[v] = "installing" /\ url \in toAdd[v]
    /\ toAdd' = [toAdd EXCEPT ![v] = @ \ {url}]
    /\ shell' = IF link = "up" /\ v \notin orphan
                THEN Put(shell, [in |-> v, url |-> url, key |-> 0, holds |-> build]) ELSE shell
    /\ patchy' = IF (link = "up" /\ v \notin orphan) \/ url # "page" THEN patchy
                 ELSE patchy \cup {v}
    /\ UNCHANGED <<world, worker, orphan, refresh, tab, raced, offline, shares, deeds>>

(* Every URL was tried: skipWaiting.                                       *)
Installed(v) ==
    /\ worker[v] = "installing" /\ toAdd[v] = {}
    /\ worker' = [worker EXCEPT ![v] = "waiting"]
    /\ orphan' = orphan \ {v}
    /\ UNCHANGED <<world, toAdd, shell, patchy, refresh, tab, raced, offline, shares, deeds>>

(* The browser replaces the active worker once no event of it is pending;  *)
(* what it does in the background ends with it.                            *)
Replace(v) ==
    /\ worker[v] = "waiting"
    /\ \A w \in Build : worker[w] # "activating"
    /\ ~(Loading /\ tab.via # 0) /\ answer.step \in {"none", "done"}
    /\ worker' = [w \in Build |-> IF w = v THEN "activating"
                                  ELSE IF worker[w] = "active" THEN "none" ELSE worker[w]]
    /\ refresh' = {r \in refresh : worker[r[1]] # "active"}
    /\ UNCHANGED <<world, toAdd, shell, orphan, patchy, tab, raced, offline, shares, deeds>>

(* activate: every shell cache but its own is deleted, that of a younger   *)
(* worker too, which goes on adding to what nobody can open any more.      *)
Activate(v) ==
    /\ worker[v] = "activating"
    /\ worker' = [worker EXCEPT ![v] = "active"]
    /\ shell' = {e \in shell : e.in = v}
    /\ LET others == {w \in Build : worker[w] \in {"installing", "waiting"}}
       IN  /\ patchy' = patchy \cup others
           /\ orphan' = orphan \cup {w \in others : worker[w] = "installing"}
    /\ UNCHANGED <<world, toAdd, refresh, tab, raced, offline, shares, deeds>>

-----------------------------------------------------------------------------
(* A document and its script.                                              *)

Stable == \A v \in Build : worker[v] # "activating"
Active == {v \in Build : worker[v] = "active"}
Via == IF Active = {} THEN 0 ELSE CHOOSE v \in Active : TRUE

Found(v, url, key) == {e \in shell : e.in = v /\ e.url = url /\ e.key = key}

(* What the page of the tab was doing ends with it.                        *)
Cut ==
    /\ download' = [step |-> "none", left |-> {}]
    /\ frayed' = (frayed \/ download.step \notin {"none", "fetch", "save", "clear"})
    /\ editors' = [e \in Editor |-> NoEditor]
    /\ UNCHANGED <<world, workers, snapshot, lastSync, images, answer, shared, inbox, kept,
                   trampled>>

Open ==
    /\ Deed /\ Stable
    /\ tab' = [NoTab EXCEPT !.phase = "page", !.via = Via]
    /\ raced' = (link # "up")
    /\ Cut

Close ==
    /\ Deed /\ tab.phase # "closed"
    /\ tab' = NoTab
    /\ UNCHANGED raced
    /\ Cut

(* The document: network first, and the cached shell when that fails.      *)
DocumentAnswered ==
    /\ tab.phase = "page"
    /\ LET v == tab.via
           cached == IF v = 0 THEN {} ELSE Found(v, "page", 0)
           Loads(h) == [tab EXCEPT !.phase = "script", !.html = h, !.gen = gen, !.via = Via]
       IN  IF link = "up"
           THEN /\ tab' = Loads(build)
                /\ shell' = IF v = 0 THEN shell
                            ELSE Put(shell, [in |-> v, url |-> "page", key |-> 0, holds |-> build])
           ELSE /\ tab' = IF cached = {} THEN NoTab
                          ELSE Loads((CHOOSE e \in cached : TRUE).holds)
                /\ UNCHANGED shell
    /\ UNCHANGED <<world, worker, toAdd, orphan, patchy, refresh, raced, offline, shares, deeds>>

(* Mutant: any copy will do, as if the query did not count.                *)
ScriptAnsweredByAny ==
    /\ tab.phase = "script" /\ Stable
    /\ LET v == tab.via
           any == IF v = 0 THEN {} ELSE {e \in shell : e.in = v /\ e.url = "script"}
           Runs(a) == [tab EXCEPT !.phase = "ready", !.app = a, !.via = 0]
       IN  IF any # {}
           THEN /\ \E e \in any : tab' = Runs(e.holds)
                /\ refresh' = refresh \cup {<<v, tab.html>>}
                /\ UNCHANGED shell
           ELSE /\ tab' = IF link = "up" THEN Runs(build) ELSE NoTab
                /\ shell' = IF v = 0 \/ link # "up" THEN shell
                            ELSE Put(shell, [in |-> v, url |-> "script", key |-> tab.html,
                                             holds |-> build])
                /\ UNCHANGED refresh
    /\ UNCHANGED <<world, worker, toAdd, orphan, patchy, raced, offline, shares, deeds>>

(* staleWhileRevalidate: the script of that document, by its full URL; any *)
(* copy of it when there is no network.                                    *)
ScriptAnswered ==
    /\ tab.phase = "script" /\ Stable
    /\ LET v == tab.via
           exact == IF v = 0 THEN {} ELSE Found(v, "script", tab.html)
           any == IF v = 0 THEN {} ELSE {e \in shell : e.in = v /\ e.url = "script"}
           Runs(a) == [tab EXCEPT !.phase = "ready", !.app = a, !.via = 0]
       IN  IF exact # {}
           THEN /\ tab' = Runs((CHOOSE e \in exact : TRUE).holds)
                /\ refresh' = refresh \cup {<<v, tab.html>>}
                /\ UNCHANGED shell
           ELSE /\ UNCHANGED refresh
                /\ IF link = "up"
                   THEN /\ tab' = Runs(build)
                        /\ shell' = IF v = 0 THEN shell
                                    ELSE Put(shell, [in |-> v, url |-> "script", key |-> tab.html,
                                                     holds |-> build])
                   ELSE /\ \/ any = {} /\ tab' = NoTab
                           \/ \E e \in any : tab' = Runs(e.holds)
                        /\ UNCHANGED shell
    /\ UNCHANGED <<world, worker, toAdd, orphan, patchy, raced, offline, shares, deeds>>

(* The fetch behind a script that came from the cache.                     *)
Revalidated(r) ==
    /\ r \in refresh
    /\ refresh' = refresh \ {r}
    /\ shell' = IF link = "up"
                THEN Put(shell, [in |-> r[1], url |-> "script", key |-> r[2], holds |-> build])
                ELSE shell
    /\ UNCHANGED <<world, worker, toAdd, orphan, patchy, tab, raced, offline, shares, deeds>>

-----------------------------------------------------------------------------
(* "Update Offline Data" and what is served from it.                       *)

(* _imageUrls: the small rung under the document's generation, and the     *)
(* original, which carries none.                                           *)
Wanted(cache) ==
    IF cache = "thumbs" THEN {[cache |-> "thumbs", rung |-> "small", gen |-> tab.gen]}
    ELSE {[cache |-> "full", rung |-> "original", gen |-> 0]}

Update ==
    /\ Deed /\ tab.phase = "ready" /\ download.step = "none"
    /\ download' = [step |-> "fetch", left |-> {}]
    /\ UNCHANGED <<world, workers, tab, raced, snapshot, lastSync, images, frayed, answer,
                   shares>>

(* The snapshot arrives and is stored in one transaction, or the update    *)
(* fails; a read under way sees the rest of it.                            *)
SaveSnapshot ==
    \/ /\ download.step = "fetch"
       /\ download' = [download EXCEPT !.step = IF link = "up" THEN "save" ELSE "none"]
       /\ UNCHANGED <<world, workers, tab, raced, snapshot, lastSync, images, frayed, answer,
                      shares, deeds>>
    \/ /\ download.step = "save"
       /\ snapshot' = deeds
       /\ answer' = [answer EXCEPT !.over = @ \/ answer.step = "posts"]
       /\ download' = [download EXCEPT !.step = "clear"]
       /\ UNCHANGED <<world, workers, tab, raced, lastSync, images, frayed, shares, deeds>>

(* clearImageCache("all").                                                 *)
ClearImages ==
    /\ download.step = "clear"
    /\ images' = {} /\ frayed' = FALSE
    /\ download' = [step |-> "thumbs", left |-> Wanted("thumbs")]
    /\ UNCHANGED <<world, workers, tab, raced, snapshot, lastSync, answer, shares, deeds>>

(* preCacheImages, thumbnails and then originals: a failure is only logged.*)
CacheImage ==
    /\ download.step \in {"thumbs", "originals"}
    /\ \E p \in download.left :
        /\ images' = IF link = "up" THEN images \cup {p} ELSE images
        /\ frayed' = (frayed \/ link # "up")
        /\ download' =
            IF download.left # {p} THEN [download EXCEPT !.left = @ \ {p}]
            ELSE IF download.step = "thumbs" THEN [step |-> "originals", left |-> Wanted("full")]
            ELSE [step |-> "stamp", left |-> {}]
    /\ UNCHANGED <<world, workers, tab, raced, snapshot, lastSync, answer, shares, deeds>>

StampUpdate ==
    /\ download.step = "stamp"
    /\ lastSync' = TRUE
    /\ download' = [step |-> "none", left |-> {}]
    /\ UNCHANGED <<world, workers, tab, raced, snapshot, images, frayed, answer, shares, deeds>>

(* serveMedia without a network: the exact URL, then any variant of it,    *)
(* the original before a thumbnail.                                        *)
Served(rung, token) ==
    LET exact == {p \in images : p.rung = rung /\ (rung = "original" \/ p.gen = token)}
    IN  IF exact # {} THEN exact
        ELSE IF \E p \in images : p.cache = "full" THEN {p \in images : p.cache = "full"}
             ELSE images

(* serveFromOfflineStore: the tags and the posts are read one after the    *)
(* other; a home page without last_sync is refused.                        *)
AskStore ==
    /\ Deed /\ answer.step \in {"none", "done"} /\ link # "up" /\ Active # {} /\ Stable
    /\ answer' = [NoAnswer EXCEPT !.step = "tags"]
    /\ UNCHANGED <<world, workers, tab, raced, snapshot, lastSync, images, download, frayed,
                   shares>>

ReadStore ==
    /\ \/ /\ answer.step = "tags"
          /\ answer' = [answer EXCEPT !.step = IF lastSync THEN "posts" ELSE "done",
                                      !.tags = snapshot, !.over = FALSE]
       \/ /\ answer.step = "posts"
          /\ answer' = [answer EXCEPT !.step = "done", !.posts = snapshot,
                                      !.torn = answer.tags # snapshot]
    /\ UNCHANGED <<world, workers, tab, raced, snapshot, lastSync, images, download, frayed,
                   shares, deeds>>

-----------------------------------------------------------------------------
(* Shares.                                                                 *)

Busy == {e \in Editor : editors[e].step # "none"}

(* handleShareTarget stores the share and opens an editor, which reads     *)
(* every entry there is.                                                   *)
Receive(s) ==
    /\ Deed /\ Active # {} /\ \A t \in shared : t < s
    /\ shared' = shared \cup {s}
    /\ inbox' = inbox \cup {s}
    /\ trampled' = IF Busy = {} THEN trampled ELSE trampled \cup {s}
    /\ UNCHANGED <<world, workers, tab, raced, offline, editors, kept>>

(* The editor e takes the place of the one that was open.                  *)
Opens(e) ==
    editors' = [d \in Editor |-> IF d = e THEN [step |-> "insert", entries |-> inbox, open |-> TRUE]
                                 ELSE [editors[d] EXCEPT !.open = FALSE]]

(* Mutant: the queue is emptied when it is read.                           *)
ReadSharesOff(e) ==
    /\ Deed /\ tab.phase = "ready" /\ editors[e].step = "none" /\ inbox # {}
    /\ Opens(e)
    /\ inbox' = {}
    /\ UNCHANGED <<world, workers, tab, raced, offline, shared, kept, trampled>>

ReadShares(e) ==
    /\ Deed /\ tab.phase = "ready" /\ editors[e].step = "none" /\ inbox # {}
    /\ Opens(e)
    /\ UNCHANGED <<world, workers, tab, raced, offline, shared, inbox, kept, trampled>>

(* The user goes to another page: nothing of this stops.                   *)
LeaveShares(e) ==
    /\ Deed /\ editors[e].open
    /\ editors' = [editors EXCEPT ![e].open = FALSE]
    /\ UNCHANGED <<world, workers, tab, raced, offline, shared, inbox, kept, trampled>>

(* _processShareQueue, oldest first: the first entry is uploaded and put   *)
(* into the editor, if that is still there, and each of the others is made *)
(* a draft; a failure is told and passed over.                             *)
Upload(e, s) ==
    LET d == editors[e]
        reaches == link = "up" /\ (d.step = "drafts" \/ d.open) IN
    /\ d.step \in {"insert", "drafts"}
    /\ s \in d.entries /\ \A t \in d.entries : s <= t
    /\ kept' = IF reaches THEN kept \cup {s} ELSE kept
    /\ trampled' = IF reaches THEN trampled ELSE trampled \cup {s}
    /\ editors' = [editors EXCEPT ![e].step = IF d.entries = {s} THEN "clear" ELSE "drafts",
                                  ![e].entries = @ \ {s}]
    /\ UNCHANGED <<world, workers, tab, raced, offline, shared, inbox, deeds>>

(* clearShareEntries: everything, whatever was read and wherever it went.  *)
ClearShares(e) ==
    /\ editors[e].step = "clear"
    /\ inbox' = {}
    /\ editors' = [editors EXCEPT ![e] = NoEditor]
    /\ UNCHANGED <<world, workers, tab, raced, offline, shared, kept, trampled, deeds>>

(* What goes on by itself.                                                 *)
WorkerProgress ==
    \/ \E v \in Build : Installed(v) \/ Replace(v) \/ Activate(v) \/ \E url \in Url : Add(v, url)
    \/ DocumentAnswered \/ ScriptAnswered \/ \E r \in Build \X Build : Revalidated(r)
    \/ SaveSnapshot \/ ClearImages \/ CacheImage \/ StampUpdate \/ ReadStore
    \/ \E e \in Editor : ClearShares(e) \/ \E s \in Shares : Upload(e, s)

WorkerNext ==
    \/ WorkerProgress \/ Deploy \/ RebuildThumbnails \/ Register \/ Open \/ Close \/ Update \/ AskStore
    \/ \E state \in {"up", "deaf", "down"} : LinkBecomes(state)
    \/ \E s \in Shares : Receive(s)
    \/ \E e \in Editor : ReadShares(e) \/ LeaveShares(e)

WorkerSpec == WorkerInit /\ [][WorkerNext]_swVars

(***************************************************************************)
(* Properties.                                                             *)
(***************************************************************************)

(* A document never runs the script of another build, unless a deploy or a *)
(* lost network came in between.                                           *)
ScriptFits == tab.phase = "ready" /\ ~raced => tab.html = tab.app

(* An active worker has a shell to answer with, unless its install could   *)
(* not fetch it or an older worker deleted it.                             *)
ShellStays == \A v \in Active \ patchy : Found(v, "page", 0) # {}

(* After an update every picture is answered without a network, and what   *)
(* it fetched is found exactly, unless an image failed or the page was     *)
(* closed on the way.                                                      *)
PicturesStay ==
    lastSync /\ download.step = "none" /\ ~frayed =>
        /\ \A r \in Rung, t \in 0..1 : Served(r, t) # {}
        /\ \A p, q \in images : p.cache = "thumbs" /\ q.cache = "thumbs" => p.gen = q.gen

(* An answer of the store is of one snapshot unless one was stored while   *)
(* it was being read.                                                      *)
AnswersAreWhole == answer.torn => answer.over

(* A share that was received is queued, in a draft or in an editor that    *)
(* was open, unless its upload failed, the editor that would show it was   *)
(* left before, or it came while another was being worked off.             *)
SharesAreKept == shared \ trampled \subseteq inbox \cup kept

(* What is promised of documents and their scripts, and of offline data    *)
(* and shares.                                                             *)
ShellKept == ScriptFits /\ ShellStays
OfflineKept == PicturesStay /\ AnswersAreWhole /\ SharesAreKept

(* Nothing is under way: documents are answered, an update has ended, and  *)
(* the youngest worker that was installed is in charge.                    *)
WorkerSettled ==
    /\ ~Loading /\ download.step = "none" /\ answer.step \in {"none", "done"}
    /\ Busy = {} /\ refresh = {}
    /\ \A v \in Build : worker[v] \in {"none", "active"}

=============================================================================
