------------------------------- MODULE Feeds -------------------------------
(***************************************************************************)
(* The three pages that show a feed of posts (frontend/src/pages/public:   *)
(* HomePage.ts, TagPage.ts, SearchPage.ts), from mount to unmount, with    *)
(* the fit of per_page to the viewport (utils/gridFit.ts) that rewrites    *)
(* the address under them (utils/viewContext.ts).                          *)
(*                                                                         *)
(* A change of the address either loads the page anew or refreshes the     *)
(* grid in place; both await a fetch, and a mounted grid may await the     *)
(* plugin's chunk.  Only TagPage numbers its loads, and nobody numbers the *)
(* refreshes.                                                              *)
(*                                                                         *)
(* Posts are numbered along the feed: 0 .. Total - 1 are published and     *)
(* -1, -2, ... are the owner's queue, shown by page 0 and below.           *)
(***************************************************************************)
EXTENDS Integers, Sequences, SequencesExt

CONSTANTS
    Total,        \* published posts of every list
    Queue,        \* scheduled posts of every list, of home and tag pages
    Sizes,        \* values of per_page that some viewport fits
    Viewports,    \* sizes of the window
    FitOf,        \* FitOf[v][n]: what v fits around the paginator of pages of n
    MaxRequests,  \* bound: requests at a time
    MaxSteps      \* bound: what the reader does

(* Whatever fits, fits at least one post; the window has a fit for the     *)
(* paginator of each of those sizes.                                       *)
ASSUME FeedAssumption ==
    /\ {Total, Queue, MaxSteps} \subseteq Nat
    /\ MaxRequests \in Nat \ {0}
    /\ Sizes \subseteq Nat \ {0}
    /\ FitOf \in [Viewports -> [Sizes -> Sizes]]

(* A value for FitOf: one window, which fits two posts.                    *)
OneFit == <<[n \in Sizes |-> 2]>>

VARIABLES
    feed,       \* the class of the page
    address,    \* the filter, the page and per_page (0: not there) of the URL
    viewport,
    lastFit,    \* gridFit's last result
    minimum,    \* posts_per_page in the settings
    wanted,     \* _loadedVc
    perAsked,   \* _loadedPerPage, written when a request is built
    dom,        \* what render() last drew
    shown,      \* state.data: what the posts at hand answer
    parts,      \* _postChildren
    onScreen,   \* the posts in #grid-mount
    requests,   \* what awaits an answer or a chunk, in the order of its beginning
    latch,      \* _fitLatch
    due,        \* the frame and the timers that will measure the grid
    owned,      \* _fitOwned
    chunk,      \* whether the grid's chunk is loaded, is not, or cannot be
    null,       \* whether _children has a null in it
    blocked,    \* an unmount has run into that null
    steps,
    disorder,   \* history: an answer was applied after a later request's
    crowded,    \* history: a grid was mounted while another one's was awaited
    jumped,     \* history: a refit lost the first post of the page
    misled,     \* history: since the last request, perAsked was changed by a preload
    unfitted        \* history: past a closed latch, another number of posts was asked for

feedVars == <<feed, address, viewport, lastFit, minimum, wanted, perAsked, dom, shown, parts,
              onScreen, requests, latch, due, owned, chunk, null, blocked, steps, disorder, crowded,
              jumped, misled, unfitted>>

Filters == {"all", "one"}
Nothing == [filter |-> "none", page |-> 0, per |-> 0]
EmptyLatch == [applied |-> {}, latched |-> FALSE]

Address == [filter : Filters, page : Int, per : Sizes \cup {0}]
List == [filter : Filters, page : Int, per : Sizes]

Latch == [applied : SUBSET Sizes, latched : BOOLEAN]

FetchRequest ==
    [at : {"fetch"}, kind : {"load", "refresh"}, vc : Address, list : List, refit : BOOLEAN,
     late : BOOLEAN, passed : BOOLEAN]
MountRequest == [at : {"mount"}, list : List, lost : BOOLEAN]
Request == FetchRequest \cup MountRequest

FeedTypeOK ==
    /\ feed \in {"home", "tag", "search"}
    /\ address \in Address
    /\ viewport \in Viewports
    /\ {lastFit, minimum, perAsked} \subseteq Sizes
    /\ wanted \in Address
    /\ dom \in {"loading", "error", "grid", "gone"}
    /\ {shown, onScreen} \subseteq List \cup {Nothing}
    /\ parts \in Seq({"grid", "null", "paginator"})
    /\ requests \in Seq(Request) /\ Len(requests) <= MaxRequests
    /\ latch \in Latch
    /\ due \subseteq {"frame", "settle", "resize"}
    /\ chunk \in {"there", "absent", "broken"}
    /\ {owned, null, blocked, disorder, crowded, jumped, misled, unfitted} \subseteq BOOLEAN
    /\ steps \in 0..MaxSteps

(***************************************************************************)
(* What a page of the list holds (refitPage's two halves).                 *)
(***************************************************************************)
FirstPost(p, n) == IF p < 1 THEN p * n - 1 ELSE (p - 1) * n

Window(p, n) ==
    IF p < 1 THEN {FirstPost(p, n) - k : k \in 0..(n - 1)} ELSE {FirstPost(p, n) + k : k \in 0..(n - 1)}

Posts(l) == Window(l.page, l.per) \cap ((-Queue)..(Total - 1))

(* -Math.floor((-page * current) / next), or the same from page 1 on.      *)
RefitPage(p, current, next) ==
    IF p < 1 THEN -(((-p) * current) \div next) ELSE (((p - 1) * current) \div next) + 1

(* computePerPage, on a grid with the paginator of pages of n.             *)
Fit(v, n) == FitOf[v][n]

(* _syncPagination's test: more than one page, the queue's included.       *)
MultiPage(l) == Total > l.per \/ (feed # "search" /\ Queue > 0)

(***************************************************************************)
(* Requests.                                                               *)
(***************************************************************************)
Flying == {c \in DOMAIN requests : requests[c].at = "fetch"}
Mounting == {c \in DOMAIN requests : requests[c].at = "mount"}
Room == Len(requests) < MaxRequests

(* _canPartialUpdate.  On the home page the years are no other chrome.     *)
Partial(prev, next) ==
    /\ shown # Nothing
    /\ feed = "home" \/ prev.filter = next.filter

(* cachedPerPage: the last fit, never below the floor.                     *)
Cached == IF minimum > lastFit THEN minimum ELSE lastFit

(* _buildParams.                                                           *)
PerPage(vc) == IF vc.per # 0 THEN vc.per ELSE Cached

(* A request is built; _loadSeq: a load makes the earlier ones late.       *)
Ask(kind, refit) ==
    LET list == [address EXCEPT !.per = PerPage(address)]'
        older == [c \in DOMAIN requests |->
                    IF c \in Flying /\ kind = "load" THEN [requests[c] EXCEPT !.late = TRUE]
                    ELSE requests[c]]
    IN /\ requests' = Append(older, [at |-> "fetch", kind |-> kind, vc |-> address', list |-> list,
                                     refit |-> refit, late |-> FALSE, passed |-> FALSE])
       /\ perAsked' = list.per
       /\ misled' = FALSE

(* GridPager.arm: the pages beside the one of l are fetched for a swipe,   *)
(* under the address of now, and _buildParams counts in their number.      *)
Preload(l) ==
    /\ perAsked' = IF dom' = "grid" /\ MultiPage(l) THEN PerPage(address)' ELSE perAsked
    /\ misled' = (misled \/ perAsked' # perAsked)

(* onRouteUpdate.                                                          *)
RouteUpdate(refit) ==
    IF Partial(wanted, address')
    THEN Ask("refresh", refit) /\ UNCHANGED wanted
    ELSE Ask("load", FALSE) /\ wanted' = address'

(* The requests without c, which was answered before older ones.  TagPage  *)
(* will not apply what a load has made late.                               *)
Remaining(c) ==
    LET left == [d \in DOMAIN requests |->
            IF d \in Flying /\ d < c /\ ~(feed = "tag" /\ requests[d].late)
            THEN [requests[d] EXCEPT !.passed = TRUE] ELSE requests[d]]
    IN RemoveAt(left, c)

(* A response is applied only if no _load started after its request.       *)
(* Mutant: it is applied anyway.                                           *)
DroppedNever(r) == FALSE

Dropped(r) == feed = "tag" /\ r.late

(***************************************************************************)
(* Pieces of an answer.                                                    *)
(***************************************************************************)

(* The mount points of the grids that are awaited leave the document.      *)
Lose(s) == [c \in DOMAIN s |-> IF s[c].at = "mount" THEN [s[c] EXCEPT !.lost = TRUE] ELSE s[c]]

(* _syncPagination: the paginator is whatever comes second.                *)
Synced(p, l) ==
    LET existing == Len(p) >= 2 /\ p[2] # "null" IN
    CASE MultiPage(l) /\ existing -> p
      [] MultiPage(l) /\ ~existing -> <<p[1], "paginator">>
      [] ~MultiPage(l) /\ existing -> <<p[1]>>
      [] OTHER -> p

(* The grid of l, or the null that stands for it, comes after p; under is  *)
(* what the reader sees if it comes to nothing.                            *)
Grid(l, p, visible, under) ==
    LET what == IF chunk' = "broken" \/ dom' # "grid" THEN "null" ELSE "grid"
        all == Append(p, what)
    IN /\ parts' = Synced(all, l)
       /\ null' = (null \/ what = "null")
       /\ onScreen' = IF what = "null" \/ ~visible THEN under
                      ELSE IF Len(all) >= 2 /\ all[2] = "grid" /\ ~MultiPage(l) THEN Nothing
                      ELSE l
       /\ due' = due \cup {"frame", "settle"}
       /\ Preload(l)

(* _mountPostContent, up to its await and, if the chunk is there, past it. *)
MountGrid(l, rest) ==
    \/ /\ chunk = "absent"
       /\ requests' = Append(rest, [at |-> "mount", list |-> l, lost |-> FALSE])
       /\ parts' = <<>>
       /\ onScreen' = Nothing
       /\ crowded' = (crowded \/ Mounting # {})
       /\ UNCHANGED <<due, null, perAsked, misled>>
    \/ /\ chunk # "absent"
       /\ requests' = rest
       /\ Grid(l, <<>>, TRUE, Nothing)
       /\ UNCHANGED crowded

(* Children are unmounted one after the other; a null among them is no     *)
(* component, and nothing gets past it.                                    *)
Stuck ==
    /\ null
    /\ blocked' = TRUE
    /\ UNCHANGED <<dom, parts, onScreen, due, null, crowded, perAsked, misled>>

(* setState with an error.                                                 *)
ErrorPage(c) ==
    /\ shown' = Nothing
    /\ requests' = Lose(Remaining(c))
    /\ \/ Stuck
       \/ /\ ~null
          /\ dom' = "error"
          /\ onScreen' = Nothing
          /\ UNCHANGED <<parts, due, null, crowded, blocked, perAsked, misled>>

(* _applyRefit: the grid takes the list if it shares a post with its own.  *)
Reconciles(l) ==
    /\ onScreen # Nothing
    /\ parts # <<>> /\ parts[1] = "grid"
    /\ Posts(l) \cap Posts(onScreen) # {}

Running == dom # "gone" /\ ~blocked

(***************************************************************************)
(* Steps.                                                                  *)
(***************************************************************************)

(* mount() has measured the window and sent the first load.                *)
FeedInit ==
    /\ feed \in {"home", "tag", "search"}
    /\ address \in [filter : {"all"}, page : {1}, per : Sizes \cup {0}]
    /\ viewport \in Viewports
    /\ lastFit \in Sizes /\ minimum \in Sizes
    /\ wanted = address
    /\ perAsked = PerPage(address)
    /\ dom = "loading"
    /\ shown = Nothing
    /\ parts = <<>>
    /\ onScreen = Nothing
    /\ requests = <<[at |-> "fetch", kind |-> "load", vc |-> address,
                     list |-> [address EXCEPT !.per = perAsked],
                     refit |-> FALSE, late |-> FALSE, passed |-> FALSE]>>
    /\ latch = EmptyLatch
    /\ due = {}
    /\ owned = FALSE
    /\ chunk \in {"absent", "there"}
    /\ null = FALSE
    /\ blocked = FALSE
    /\ steps = 0
    /\ disorder = FALSE
    /\ crowded = FALSE
    /\ jumped = FALSE
    /\ misled = FALSE
    /\ unfitted = FALSE

gridVars == <<dom, parts, onScreen, null, blocked, crowded>>

Step == Running /\ steps < MaxSteps /\ steps' = steps + 1

(* A page, another filter, or a link or an entry of the history, which may *)
(* have any per_page.                                                      *)
ChangeAddress(filter, page, per) ==
    /\ Step /\ Room
    /\ filter # address.filter => page = 1
    /\ feed = "search" => page >= 1
    /\ address' = [filter |-> filter, page |-> page, per |-> per]
    /\ address' # address
    /\ UNCHANGED <<lastFit, minimum>>
    /\ RouteUpdate(FALSE)
    /\ unfitted' = (unfitted \/ (latch.latched /\ (misled \/ perAsked' # perAsked)))
    /\ UNCHANGED <<feed, viewport, shown, gridVars, latch, due, owned, chunk, disorder, jumped>>

(* createFitLatch.accept: a value that comes back a second time is a       *)
(* cycle; the smaller of the two ends it.                                  *)
(* Mutant: whatever fits is applied.                                       *)
AcceptAll(l, current, fit) ==
    IF fit = current THEN [latch |-> l, per |-> 0]
    ELSE [latch |-> [l EXCEPT !.applied = @ \cup {fit}], per |-> fit]

(* Mutant: growing ends it too.                                            *)
AcceptGrowing(l, current, fit) ==
    IF l.latched \/ fit = current THEN [latch |-> l, per |-> 0]
    ELSE IF fit \in l.applied THEN [latch |-> [l EXCEPT !.latched = TRUE], per |-> fit]
    ELSE [latch |-> [l EXCEPT !.applied = @ \cup {fit}], per |-> fit]

Accept(l, current, fit) ==
    IF l.latched \/ fit = current THEN [latch |-> l, per |-> 0]
    ELSE IF fit \in l.applied
    THEN [latch |-> [l EXCEPT !.latched = TRUE], per |-> IF fit < current THEN fit ELSE 0]
    ELSE [latch |-> [l EXCEPT !.applied = @ \cup {fit}], per |-> fit]

(* A fit that explains an address of its own: per_page in the URL is       *)
(* reproduced, but for a resize, or while this mount computed it.          *)
MayFit(why) == address.per = 0 \/ why = "resize" \/ (why = "settle" /\ owned)

(* _reconcilePerPage, from the latch l on.                                 *)
Reconcile(why, l) ==
    LET fit == Fit(viewport', onScreen.per)
        next == Accept(l, perAsked, fit)
        page == RefitPage(address.page, perAsked, next.per)
    IN IF onScreen = Nothing \/ ~MayFit(why)
       THEN latch' = l /\ UNCHANGED <<lastFit, address, owned, requests, perAsked, wanted, jumped,
                                      misled>>
       ELSE /\ lastFit' = fit
            /\ latch' = next.latch
            /\ IF next.per = 0
               THEN UNCHANGED <<address, owned, requests, perAsked, wanted, jumped, misled>>
               ELSE /\ address' = [address EXCEPT !.page = page, !.per = next.per]
                    /\ owned' = TRUE
                    /\ RouteUpdate(TRUE)
                    /\ jumped' = (jumped \/ (/\ requests = <<>> /\ ~disorder /\ ~crowded /\ ~misled
                                             /\ FirstPost(onScreen.page, onScreen.per)
                                                    \notin Window(page, next.per)))

(* The frame after the grid, the chrome's observer and the resize timer.   *)
Measure(why) ==
    /\ Running /\ Room
    /\ why \in due
    /\ due' = due \ {why}
    /\ UNCHANGED <<viewport, minimum>>
    /\ Reconcile(why, latch)
    /\ UNCHANGED <<feed, shown, gridVars, chunk, steps, disorder, unfitted>>

(* _onResize past the gate, and a change of the atlas layer.               *)
Resize(v) ==
    /\ Step
    /\ v # viewport
    /\ viewport' = v
    /\ latch' = EmptyLatch
    /\ due' = due \cup {"resize"}
    /\ unfitted' = FALSE
    /\ UNCHANGED <<feed, address, lastFit, minimum, wanted, perAsked, shown, gridVars, requests,
                   owned, chunk, disorder, jumped, misled>>

(* onZoomCommit.                                                           *)
Zoom(v) ==
    /\ Step /\ Room
    /\ v # viewport
    /\ onScreen # Nothing
    /\ viewport' = v
    /\ UNCHANGED minimum
    /\ Reconcile("resize", EmptyLatch)
    /\ unfitted' = FALSE
    /\ UNCHANGED <<feed, shown, gridVars, due, chunk, disorder>>

(* An answer that is not applied.                                          *)
Ignore(c) ==
    /\ Running
    /\ c \in Flying /\ Dropped(requests[c])
    /\ requests' = Remaining(c)
    /\ UNCHANGED <<feed, address, viewport, lastFit, minimum, wanted, perAsked, shown, gridVars,
                   latch, due, owned, chunk, steps, disorder, jumped, misled, unfitted>>

Applied(c) ==
    /\ Running
    /\ c \in Flying /\ ~Dropped(requests[c])
    /\ disorder' = (disorder \/ requests[c].passed)
    /\ UNCHANGED <<feed, address, viewport, lastFit, latch, owned, chunk, jumped, unfitted>>

(* The home page's answers bring the settings, which may have changed.     *)
Settings == minimum' \in Sizes /\ (feed # "home" => minimum' = minimum)

(* The request fails: the error replaces the page.                         *)
Fails(c) ==
    /\ steps < MaxSteps /\ steps' = steps + 1
    /\ Applied(c)
    /\ ErrorPage(c)
    /\ UNCHANGED <<wanted, due, minimum>>

(* _load: setState renders the page anew.                                  *)
Loaded(c) ==
    LET r == requests[c] IN
    /\ Applied(c)
    /\ r.kind = "load"
    /\ Settings
    /\ shown' = r.list
    /\ \/ Stuck /\ requests' = Remaining(c)
       \/ /\ ~null
          /\ dom' = "grid"
          /\ MountGrid(r.list, Lose(Remaining(c)))
          /\ UNCHANGED blocked
    /\ UNCHANGED <<wanted, steps>>

(* _refreshPostContent, once the fade is over.                             *)
Refreshed(c) ==
    LET r == requests[c] IN
    /\ Applied(c)
    /\ r.kind = "refresh"
    /\ Settings
    /\ shown' = r.list
    /\ wanted' = r.vc
    /\ UNCHANGED dom
    /\ \/ /\ r.refit /\ Reconciles(r.list)
          /\ requests' = Remaining(c)
          /\ parts' = Synced(parts, r.list)
          /\ onScreen' = r.list
          /\ due' = due \cup {"settle"}
          /\ Preload(r.list)
          /\ UNCHANGED <<null, blocked, crowded>>
       \/ /\ ~(r.refit /\ Reconciles(r.list))
          /\ \/ Stuck /\ requests' = Remaining(c)
             \/ /\ ~null
                /\ MountGrid(r.list, Remaining(c))
                /\ UNCHANGED blocked
    /\ UNCHANGED steps

(* The chunk arrives, or never will: pluginHost keeps the failure.  The    *)
(* grids that await it are mounted in their order.                         *)
Chunk(c, result) ==
    /\ Running
    /\ c \in Mounting /\ \A d \in Mounting : c <= d
    /\ IF chunk = "absent" THEN chunk' = result ELSE result = chunk /\ UNCHANGED chunk
    /\ UNCHANGED <<dom, address, lastFit, minimum>>
    /\ Grid(requests[c].list, parts, ~requests[c].lost, onScreen)
    /\ requests' = RemoveAt(requests, c)
    /\ UNCHANGED <<feed, viewport, wanted, shown, blocked, latch, owned, steps, disorder, crowded,
                   jumped, unfitted>>

(* The router leaves the page.                                             *)
LeaveFeed ==
    /\ Step
    /\ IF null THEN blocked' = TRUE /\ UNCHANGED dom ELSE dom' = "gone" /\ UNCHANGED blocked
    /\ UNCHANGED <<feed, address, viewport, lastFit, minimum, wanted, perAsked, shown, parts,
                   onScreen, null, crowded, requests, latch, due, owned, chunk, disorder, jumped,
                   misled, unfitted>>

FeedNext ==
    \/ \E f \in Filters, p \in {-1, 1, 2}, n \in Sizes \cup {0} : ChangeAddress(f, p, n)
    \/ \E why \in {"frame", "settle", "resize"} : Measure(why)
    \/ \E v \in Viewports : Resize(v) \/ Zoom(v)
    \/ \E c \in DOMAIN requests :
        \/ Ignore(c) \/ Fails(c) \/ Loaded(c) \/ Refreshed(c)
        \/ \E result \in {"there", "broken"} : Chunk(c, result)
    \/ LeaveFeed

FeedSpec == FeedInit /\ [][FeedNext]_feedVars

(* Answers come, timers fire, and a chunk loads or fails.                  *)
FeedProgress ==
    \/ \E why \in {"frame", "settle", "resize"} : Measure(why)
    \/ \E c \in DOMAIN requests :
        \/ Ignore(c) \/ Loaded(c) \/ Refreshed(c)
        \/ \E result \in {"there", "broken"} : Chunk(c, result)

(***************************************************************************)
(* Properties.                                                             *)
(***************************************************************************)
Rests == Running /\ requests = <<>> /\ due = {}

Undisturbed == ~disorder /\ ~crowded /\ ~null

(* When all is answered and measured, the reader sees the list that the    *)
(* address asks for, in one grid, with a paginator if it has more pages,   *)
(* or the error.  On the tag page this survives loads answered out of      *)
(* order; refreshes, and the loads of the other pages, have to be answered *)
(* in order.                                                               *)
ShownIsAsked ==
    Rests /\ Undisturbed /\ dom # "error" =>
        /\ onScreen = shown
        /\ shown = [address EXCEPT !.per = IF @ = 0 THEN shown.per ELSE @]
        /\ parts = IF MultiPage(shown) THEN <<"grid", "paginator">> ELSE <<"grid">>

(* gridFit.ts:337-339: once a page that fits itself has settled, paginator *)
(* and footer are on the screen, even if the fit chased its own chrome.    *)
(* The cycles it chases have two sizes here: one of three sizes may end on *)
(* one that does not fit, as the latch only compares with the current one. *)
(* Not so past a latch that has closed, when a link, an entry of the       *)
(* history or the cache then brings another number of posts: what comes is *)
(* not fitted again before a resize or a zoom.  Nor when a preload has put *)
(* the number that fits in the place of the one that was loaded.           *)
FitsOnScreen ==
    Rests /\ Undisturbed /\ owned /\ ~unfitted /\ ~misled /\ onScreen # Nothing =>
        onScreen.per <= Fit(viewport, onScreen.per)

(* gridFit.ts:639-640: a refit of the page at rest keeps its first post on *)
(* the screen, on either side of the queue's boundary; unless it counts    *)
(* from the number that the pages beside were fetched with, which may not  *)
(* be the page's once the settings or the cached fit have changed.         *)
FirstPostStays == ~jumped

(* What the reader sees is what was asked for, also after a refit.         *)
FeedKept == ShownIsAsked /\ FirstPostStays

(* What every behaviour comes back to, although each per_page may imply    *)
(* another one.                                                            *)
FeedSettled == Rests \/ ~Running

(* A plugin that fails yields null (core/pluginHost.ts:192) and never      *)
(* blocks the page (:159): violated, for the page holds the null as a      *)
(* child and cannot unmount it.                                            *)
NeverBlocked == ~blocked

=============================================================================
