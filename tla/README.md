# Point in TLA+

Point is a photo blog engine: a Go/Echo server over SQLite (`src/api`), a TypeScript single-page
front end (`src/frontend`) and a static demo that plays the server in the browser (`src/demo`). This
directory models the parts whose correctness depends on order: goroutines, HTTP requests that
overlap, awaits, timers, callbacks, restarts and half-finished writes. TLC checks the modules on small
instances; TLAPS proves the safety of the server's parts, of what the front end stands on (router,
components, feeds, service worker, editor), of the offline queue, the pagers, the media library and the
list of posts for every value of the constants.

Paths below are relative to `src/`; `services/`, `api/`, `repository/` and `migrations/` are short for
`api/internal/...`, and `fe/` for `frontend/src/`.

    tlc -workers 2 -config JobQueue_safety.cfg MCJobs     one run
    tlapm FrontProofs.tla                                 one proof module

## 1. The system

One server process holds everything: Echo runs each request on a goroutine of its own, SQLite in WAL
mode serves up to eight connections (`repository/db.go`), and there is no lock that spans a request.
Each SQL statement is atomic, a handler of several statements is not, unless it opens a transaction.
Background goroutines are the job worker, the scheduler and what requests spawn. `cmd/api/main.go`
boots in a fixed order: pending restore of an archive, interrupted rollback, open the database,
migrations under a snapshot, services, scheduler, job worker, server. A shutdown waits for requests
but not for the worker, and a restart from the admin page re-executes the binary without running
deferred calls.

The front end is one event loop: a handler runs to its first await, and whatever it read before may
be old after it. `Component.setState` redraws a whole subtree and does nothing after an unmount; the
router unmounts a page at once but mounts the next one after the await of its chunk; requests are
answered in any order and few of them are numbered. Tabs share IndexedDB, localStorage and the
service worker.

| Component | State | Hard behaviour | What makes it correct | Module |
|---|---|---|---|---|
| Durable job queue: `services/jobs.go`, `repository/queries_jobs.go` | `jobs` table, wake channel, the worker's copy of a row | death at any step, lost wake-ups, stale copies, backoff | no accepted job is lost, claims are exclusive, every job settles | `JobQueue`, `DurableJobs` |
| Publishing to Instagram: `services/post_publish.go` | `instagram_status`, media id | crash between the remote call and its record, two runs, lost replies | a second post has a reason | `CrossPost` |
| Tag hierarchy: `services/tag_hierarchy.go` | `tag_relationships` | check and insert are separate, the graph changes below a walk | the graph is a DAG | `TagHierarchy` |
| Page cache, tag graph cache: `cache_service.go`, `tag_graph*.go` | graph in memory, pages on disk, singleflight | a build or render overlaps a write and its invalidation | a copy misses no finished write | `PublicPages` |
| Plugin slots, settings cache: `api/plugins.go`, `settings_service.go` | `settings` table, cached map | read-decide-write without a lock, cache patched in another order | the slot's rule; the cache is the table | `PluginSlots` |
| Restore and migration guard: `system_migration_guard.go`, `system_service.go` | `point.db` and its WAL, archives, snapshots, markers | the process ends between any two file operations, another build boots next | never served from a wrong or half-made file; a copy survives | `BootGuard` |
| Offline writes: `fe/utils/mutationQueue.ts`, `sync.ts` | IndexedDB queue, `isSyncing`, `idMap` | every step awaits, tabs share the queue, reloads | applied once, in order, none forgotten | `OfflineSync` |
| Router, boot, sign-in: `fe/router.ts`, `app.ts` | address, page on the mount point | two navigations in flight | the page is the address's | `Router` |
| Component and store: `fe/components/Component.ts`, `store.ts` | children, resources, subscribers | callbacks that render, unmount and write during a dispatch | everything is released once | `Components` |
| Feeds: `fe/pages/public/*Page.ts`, `gridFit.ts` | grid, address, `per_page` latch | answers out of order, a fit that chases itself | what is shown was asked for | `Feeds` |
| Service worker: `frontend/sw.ts` | caches, snapshot, shares | workers of two builds, failing networks | the shell fits its script | `ServiceWorker` |
| Post editor: `fe/pages/light/PostEditPage.ts` | `isNew`, pending edits, a timer | events during an await | one post, no lost keystroke | `PostEditor` |
| Lists and dialogs of the desk: `PostsListPage.ts`, `MediaBrowser.ts`, `TagsManagerPage.ts` | rows, selection, dialogs | unnumbered loads, stale copies | commands do what was meant | `PostsList`, `MediaBrowser`, `TagsManager` |
| Pagers and viewers: `fe/core/*Pager.ts`, `gestures.ts`, `MediaViewer.ts`, `PostPage.ts`, `Slideshow.ts` | slides, ghosts, locks, timers | a gesture during an animation | one picture, in place, the post's | `SwipePager`, `SlideViewer`, `PostShow`, `SwipeReveal` |
| Plugin catalogue and forms: `PluginsPage.ts`, `SettingsPage.ts` | rows, manifest, drawers | overlapping toggles, late closes | copies are what is stored | `PluginDesk`, `SettingsDrawer` |
| Map: `fe/plugins/tags-atlas`, `tags-map` | mode, places, clouds, library | drags, late answers, overlapping draws | what is drawn is what the address names | `AtlasLayer`, `AtlasMap`, `PlaceMap` |
| Header: `fe/plugins/public-header`, `nav-menu`, `utils/headerFold.ts`, `tagFlyout.ts`, `revelio.ts`, `plugins/timeline` | mounts, folds, dropdowns, suggestions, scope, years | chunks that come late, timers of replaced elements | one of each, at the right place | `HeaderTools`, `HeaderRow`, `RevelioSwitch`, `YearStrip` |
| Menu, comments, backups, system pages | rows, ticks, list, polls | dialogs over reloads, polling, a restart | actions hit what was named | `MenuEditor`, `CommentDesk`, `CommentWidget`, `BackupPanel`, `SystemDesk` |
| Demo: `demo/mock` | store in the page, recorded blobs | resets during requests | guests see no more than guests | `DemoSite` |

Interactions: the scheduler, the post handlers and the job worker meet in `jobs` and in the post's
Instagram columns (`CrossPost` composes the two); every write of posts and tags calls
`InvalidatePublicPages`, tag writes drop the graph first (`PublicPages`); toggles and presets go
through the cached settings (`PluginSlots`, seen from the browser in `PluginDesk`); the boot sequence
decides which file all of them see (`BootGuard`, asked for by `BackupPanel`). In the front end the
router mounts one page at a time, and what outlives a page is what the modules are about: timers,
dialogs on the body, answers, observers, `localStorage`.

`PROJECT.json` lists every component with its status and what is left out of it, and the hazards, each
at its line with the properties about it.

## 2. The modules

Every module has one type invariant, one action per handler step, and history variables only where a
property needs to name what happened. Where a property says *excused*, *overlapped*, *cut* or names
another cause, the module sets that variable at exactly the event that voids the guarantee, so the
property is as strong as the code allows; each of those exceptions was dropped in turn and TLC then
finds the counterexample. The properties of the front end have the form "at rest, what is shown is
what was asked for, unless a history variable records a named cause"; section 5 lists the causes.

Actions bear the names of the handlers they stand for. Requests are records in a set or a short list of
slots: a request is sent in one step and served and answered in later ones, in any order. Chunks,
animation frames and timers are flags with a step of their own. Bounds (`Max...`, `Slots`, `Acts`)
limit what people and faults do and never the code's own steps.

**Server.**

- `JobQueue`, `DurableJobs`. `state`, `attempts` and `wait` (next_run_at minus now) are the columns of
  a row; `worker` is where the goroutine of `Jobs.loop`/`drain` stands, `claimed` its copy of the row,
  `wake` the one-slot channel, `owed` the callers between their INSERT and the signal. `Start` requeues
  running rows, `ProcessEnds` may come at any point, `DBFaults` lets claims, finishes and the requeue
  fail. `DurableJobs` is what callers are promised: pending jobs stay until their handler returned nil
  or the attempts are used up. `KeepsPromise` is the refinement, with the status column as the mapping.
- `CrossPost`. One post and the runs of `CrossPostToInstagram`, the queue's and an administrator's. It
  instantiates `JobQueue` and conjoins its actions with the post's: each database or Graph API call is
  a step. `spawned` are goroutines of `PublishPost` that have not enqueued yet. `excuses` counts the
  events after which one more Instagram post is explained. The module holds its proof too.
- `TagHierarchy`. `edges` are pairs (parent, child). A request clears edges, then adds the new ones one
  by one, each by `detectCycle`'s walk (`queue`, `seen`: one query per turn) and a separate insert.
  Deletion cascades, `MergeTags` rewrites rows without a check. `Fault` ends a request anywhere.
- `PublicPages`. A copy of database parts is reduced to the parts written since they were read and
  whether an event already excused it. `graph`, `build`, `page` and `render` are such copies. A reader
  goes through the disk, the singleflight, the graph's lock, the queries and `Set`; a writer executes
  statements, then drops the graph, then clears the pages.
- `PluginSlots`. One slot with candidates in registry order and one of the four rules; `table` and
  `cache` hold the keys whose value is true. A request decides on a copy of the cached settings, then
  writes and caches one key at a time; a cold load reads the table and installs the map later.
- `BootGuard`. A database file is a record: the blog's data, the migrations it records and those with
  statements but no record. Every boot takes any build through `ApplyPendingRestore`, a resumed
  rollback, `NewRepository`, the guard (prune, snapshot, `migrations.Run`, close, mark, swap, unmark)
  and serving. `Dies` ends it anywhere. `wal` says whose write-ahead log lies beside the file.

**What the front end stands on.** `Router` (`_render` as a call with two awaits), `Components` (one
resource per render stands for all; `frames` is the stack of nested dispatches; subscribers are numbered
in the order of insertion, which is a `Set`'s order of visits; `strays` are the children a component
forgot while it rendered), `Feeds` (three pages, refreshes and refits; `requests` holds what awaits an
answer or a chunk, in the order it was begun; `FitOf`, measured in pixels by the code, is a constant: how
many posts a window fits around the paginator of pages of each size; `perAsked`, which refits count from,
is written by every request that is built, the preload of the neighbouring pages included),
`ServiceWorker` (two builds, caches, offline data, the queue of shares and the editors that work it off,
also after they were left), `PostEditor` (a version of a post has the last edit of each of its parts: the
fields, the status, the details of schedule, CSS and sharing, and the content), `OfflineSync` (`syncQueue`
as a process per call: it tests `isSyncing`, awaits `getQueue`, sets the flag, then marks, sends, deletes
or fails, with an await between any two; a reload drops all calls of a tab).

**Pages and plugins.** The modules of the table, each with the page's handlers and the requests under
way. Where two halves of a component share no variable (`HeaderTools` mounts and suggestions,
`HeaderRow` folds and dropdowns, `BackupPanel` panel and restart) one module has two specifications.

**For TLC.** `MCJobs`, `MCServer`, `MCDesk`, `MCPages` and `MCFront` put components that share no variable
side by side. A variable `focus`, chosen in the first state, says which one moves; the others stay in one
of their initial states. `MCFront` extends the modules it composes, so that `FrontProofs` can prove things
of the composition itself (`FrontSpec`), and `MCPages` extends the four that `PagesProofs` and
`ListProofs` are about; the other components are instantiated. The state space is the sum of the
components' and not the product (about 990,000 states in `front_check`, 1.5 million in `pages_check`), and
each conjunct of a property such as `AdminKept` or `PublicKept` is guarded by the focus of its component.

## 3. The runs

| Run | Bounds | What it shows |
|---|---|---|
| `jobqueue_safety` (`MCJobs`) | 2 jobs, 3 attempts, backoff 2 capped at 3, 1 restart, 1 retry, failing writes; a slot of 2 candidates with exactly one required, 2 requests | the worker's copy is never stale (`ClaimHeld`), no wake-up is lost, `DurableJobs` is implemented; the settings cache agrees but for races, the slot keeps its rule but for overlaps and cuts |
| `jobs_live` (`MCJobs`) | 2 jobs, 2 attempts, 1 restart, 1 retry, no database faults; 1 cross-post with 1 restart, no direct run or manual retry | rows say running only for the worker's job, every job settles, a wanted cross-post arrives or shows an error, but for a restart before it was queued or a last attempt that ran out of its time |
| `taghierarchy_check` | 3 tags, 2 requests at a time, 3 in all, merges, faults | cycles need two overlapping additions or a merge of related tags; requests end, on cyclic graphs too |
| `publicpages_check` | 2 readers, 2 writers, 2 graph queries, 1 statement each, faults, restarts | caches miss only writes still on their way to the invalidation; every request is answered |
| `server_check` (`MCServer`) | 3 boots, 2 migrations, 1 write, 2 snapshots kept; demo: 4 posts, 3 writes, 1 load | what is served, what a rollback leaves, that a whole copy survives; what guests of the demo see |
| `desk_check` (`MCDesk`) | 1 job of 2 attempts, 1 direct run, 1 restart, lost replies, failing writes; on each page two to four acts of the user over two or three rows | posts on Instagram are at most one plus the explained ones; what the desk's pages, and the year strip, keep |
| `pages_check` (`MCPages`) | offline queue: 2 operations, 2 calls, 1 loss of the connection; each page two to six acts over two or three rows, posts, slides or tags | the offline queue, the lists, the pagers and viewers, the map, the header |
| `front_check` (`MCFront`) | 2 navigations in flight over 9 links, 3 components, 5 posts and 2 queued in pages of 2 or 5, 2 builds and 2 shares, 2 edits and 1 command | router, components, feeds, service worker and editor, and that each of them comes to rest |
| `crosspost_twice` | 1 restart, nothing else | **violated**: the job posts twice |
| `taghierarchy_race` | 2 tags, 2 requests | **violated**: two opposite additions leave a cycle |
| `publicpages_overtaken` | 1 reader, 1 writer | **violated**: a page rendered before a write is stored after its Clear |
| `feeds_blocked` | one window, one size | **violated**: a grid whose chunk failed blocks the page that holds it |

Why the bounds are enough. Two actors suffice for every race listed in `PROJECT.json`; the second job, tag
or key gives the first something to be confused with. Three attempts with a backoff above one reach the
cap; `MaxLag > Retention` keeps rows that can be pruned apart from those that cannot. Three tags give
cycles longer than a pair and a walk of two levels. Three boots are the shortest history with an upgrade,
an interrupted attempt and a return to the old build; two kept snapshots let the prune drop one. The
feed's window fits five posts around the short paginator and two around the long one, so that the fit
chases itself, and the second window fits two; the feeds start with the small size fitted last, at an
address with that size or none, which the history and the settings then change to either. On a page, two
acts with two requests in flight make every pair of handlers overlap, and a third or fourth act is what a
property's counterexample needed when one of its exceptions was dropped. Larger instances were explored
without an error: `OfflineSync` with two tabs, three calls and three operations (12 million states),
`PostEditor` with three edits of each kind and one handler (13 million, before its versions had four
parts), `BootGuard` with four boots (45 million, not to the end) and with `KeepCount = 1`, `PluginSlots`
with all four rules. Requests on the slot are declared symmetric (`jobqueue_safety`, a safety run);
nothing else is. Deadlock is checked in the runs of the queue, tags and caches; elsewhere the system may
really stop: the machine is off after the last boot, a page waits for a user whose acts are bounded.

Fairness, only in the liveness properties. `JobQueue`: the worker's own steps, a handler that returns
(every handler has a timeout), the ticker, the clock, a stopping process that ends and one that is started
again (the container's restart policy); no database faults, because `drain` gives up on them until the
next tick and may do so for ever. `CrossPost`: each step of the job and of the queue, never of the
administrator; the end of a run's 180 s context is not fair. `TagHierarchy`: every started request goes
on. `PublicPages`: every reader goes on, and strong fairness for getting the graph's lock, since
`sync.RWMutex` does not starve a waiter. `MCFront`: for each component, weak fairness of its `Progress`,
the event loop's own steps (answers, frames, timers, chunks) taken together; as the acts of people and the
faults are bounded, no single one can be put off for ever. Writers, operators, users, the network and
crashes are never fair.

`EditsAreSaved` follows what the user changed and no write has taken along yet (`owed`): again and again
that is nothing and the writes are answered, or the chip says that a save failed, unless the page was
left, a timer went off in vain (a deletion under way, a new post without content), or the change was
unmarked, drawn over, or counted as saved by the answer to a write without it.

## 4. What is proved

For all constants that satisfy the named assumptions, which TLC evaluates in the runs. Each proof has
an inductive invariant, one lemma per action (or per phase of quiet actions), and a last step by PTL.

- **`JobsProofs`**, the queue: `TypeOK`, `ClaimHeld`, `AttemptsBounded`, `FailedIsExhausted`,
  `NoLostWakeup`, `SingleRunner` and the refinement of `DurableJobs`. `ClaimHeld` alone is not inductive:
  one must know that no row is running without a claim after a requeue (`Unclaimed`), that attempts were
  counted at the claim (`Counted`), that a row never run is due (`FreshIsDue`) and that a nil outcome is
  recorded in `effected` before `Finish` (`OutcomeRecorded`). Wake-ups need `NotOverlooked`, the same
  property already on the way from the empty claim to the select.
- **`CrossPost`**: `DuplicatesExplained`, for any number of jobs, attempts, runs, restarts. The
  invariant is a ledger: posts made, plus the one an unfinished direct run may still make (`Granted`),
  never exceed the excuses plus one free post, which counts once a media id is stored or about to be
  (`Free`); while the job is between its guard and its publish the free one is still to come
  (`Ledger`). `Coupled` ties the job's run to the live worker.
- **`TagHierarchy`**, in the module itself: `TypeOK` and `AcyclicUnlessExcused` for any number of tags and
  concurrent requests. The heart is `WalkSound`: while a request walks, each tag it has seen has all its
  children seen or is still queued, unless another addition was under way; so at the end the seen set is
  closed and does not contain the parent, and adding the edge cannot close a cycle. For merges of
  unrelated tags a set closed below one of them separates the two.
- **`PublicPagesProofs`**: `GraphFresh` and `PagesFresh` for any number of readers, writers and
  queries. The invariant extends both to the copies being built and rendered: what a lock holder has
  read and misses is owed an invalidation that waits for its lock (`Locking`, `Owing`).
- **`JobsProofs`**, the plugins' slots: `SlotTypeOK`, `CacheAgrees` and `SlotKept` for every rule, number
  of candidates and set of requests. `CacheAgrees` needs what a load in progress has read to agree with
  the table but for keys somebody has written since (`CInv`). `SlotKept` says what holds at rest, and rest
  comes many steps after the decision: `Order` says where each request stands in its list of writes, and
  `Deeds` what the table will be when an undisturbed request ends, candidate by candidate, with the
  claimant switched on before its peers are switched off, so that a slot that needs one is never empty
  meanwhile.
- **`PagesProofs`**, the offline queue: `TypeOK` and `QueueKept` (`AppliedOnce`, `InOrder`,
  `NothingForgotten`) for any number of tabs, overlapping calls, operations, reloads and lost connections.
  `Alone` describes the queue while no two runs overlap: one run works at most; what it has in its list
  and does not send is waiting in the store (`Marked`); nothing older than an operation of the list waits
  outside of it (`Whole`), so that whatever is older than the operation being sent, and not applied, is
  stuck; and what was applied without doubt is marked or deleted and not sent again (`Sure`). `Heard`
  holds with any overlaps: with a connection, what is pending and not excused is in a list or has a run
  that is about to read the store.
- **`PagesProofs`**, the pagers: `PagerTypeOK` and `PagerKept` (`GridInPlace`, `NothingOverlaid`,
  `GhostTells`, `OneSlide`) for both pagers and any number of pages, loads, touches and commands. All four
  speak of moments of rest or of one swipe, so the invariant says what is owed before them: a grid out of
  its place is under a finger, or the page that puts it back is on its way (`Pulled`: a refit does not,
  which is why a swipe it re-arms under is recorded as cut); a held ghost waits for a slide to end or for
  an answer that will drop it (`Held`); a slide that nothing crossed has the lock and no load under way
  (`Locking`); and the ghosts are the neighbours of the page the listeners were made for, or, in the
  library, of the page in the listing's key (`Aligned`), so that the swipe goes where its ghost says.
- **`PagesProofs`**, the media library: `MediaTypeOK` and `MediaKept` (`ListedIsAsked`, `PostHasSelected`,
  `PickerHolds`, `FieldsAreKept`) for any number of files, listings under way and uses. Listings are not
  numbered, so the argument is about the youngest: it is still to be answered and asks for what the page
  shows as asked, or it was answered and whatever is still under way has been overtaken, so that an answer
  from now on is recorded as such (`LastListing`). A name changes once, so a file that is listed or held
  under its new name has it on the server (`Renamed`); what is selected is held unless a long press
  selected it, and the dialog neither presses nor deletes (`Picking`). While a file's saves neither cross
  nor come from an older panel, the one save that may be under way has every field that was saved before
  (`SavesAgree`).
- **`ListProofs`**: `ListTypeOK` and `ListKept` (`ShownIsAsked`, `ButtonsFit`, `RowsAreTrue`,
  `AddressIsItsOwn`, `CountIsKept`) for any number of posts, requests under way and acts. A row says what
  the server holds at rest only; before that the invariant says who will make it so. Two requests that are
  to change one post have muddled it (`Overlaps`), so every other post is changed by one request at most:
  until it is answered the row still holds the old status and the select the new one, afterwards the
  server does and the answer will bring it to the row, unless it is lost (`RowIsTrue`). What a listing has
  read agrees with the server but for the posts changed since (`DataRead`), and those its answer muddles.
  Loads are not numbered, so the youngest is marked in the history (`LastLoad`): while the page loads, and
  nothing is recorded as overtaken, the marked one is still to be answered. A page that was left with
  nothing that loads has no dialog, no pending search and no request that will load (`LeftAlone`), so that
  it never rewrites the next page's address; the frame and the debounced resize that `beforeUnmount`
  leaves running count among what may still load (`haunted`), and an answer that is lost after the server
  acted muddles its row.
- **`BootGuardProofs`**: `TypeOK`, `ServedIsWanted`, `RolledBackExactly` and `CopySurvives` for any number
  of boots, builds, migrations, writes and kept snapshots. What will be served lies in point.db, in this
  boot's snapshot once migrations begin, and in the marker's snapshot from Mark to Unmark; `Trusted` and
  `Unchanged` state the property for all three, `Finished` that only the file being migrated may hold a
  half-done migration, `OwnWal` and `Markers` when a foreign WAL and the markers can be there at all.
  `CopySurvives` is a counting argument (`Held`): once the database is upgraded or rolled back, a good
  snapshot exists with fewer snapshots behind it than `taken`, those begun since the blog was last
  served; a prune keeps it as long as that is below `KeepCount`, and the property's own exception says
  the rest.

- **`FrontProofs`**: the five parts of the front end, each with its type and the property of
  `front_check`. `FrontImplements` composes them: a step of `FrontSpec`, which the run checks, is a step of
  one part and a stutter of the others', so that `FrontSpec` implements all five specifications, and
  `FrontTypeOK` follows from the five types.
  - `Components` (`ContractKept`: resources released once, nothing registered by the dead, every
    subscriber told), for any tree, any number of renders and nested dispatches. `Owed` says for each
    dispatch on the stack which subscribers were there when it began and are still to be visited, and
    `Numbered` that insertion numbers only grow, so that a subscriber added by a callback comes after
    those it must not overtake.
  - `Router` (`RouterKept`), for any links and any number of navigations in flight. `Followed` ties the
    page on the mount point to the last navigation that has mounted and to the address it was started
    for; `Guarded` and `Booting` say what a navigation knew of the session when it passed the guard, and
    `Escaping` with `FormsReleased` count the sign-in form's listeners.
  - `ServiceWorker` (`ShellKept`, `OfflineKept`), for any builds, shares and pages of offline data. `Aged`
    orders the builds of the workers, `Stocked` says a worker that got past its install has the shell of
    its own build in its cache unless a cause is recorded, `Fresh` what a fetch under way may still bring;
    `Stored` and `Read` follow the offline data from the update to an answer, and `Queued` the shares:
    when an editor is about to clear the queue, each share in it was put somewhere or is recorded as lost.
  - `PostEditor` (`EditorKept`: one post unless two creates overlapped, a deletion parks, Saved means
    stored, part by part), for any number of edits, handlers and requests. One post is a count: rows plus
    creations under way never exceed the spare ones by more than one (`Counted`). Saved is an argument
    about answers: what the page has marked as stored, or what the newest answer on its way will bring
    (`Latest`, `Bringing`), is in the row, because calls are addressed to the row the page has
    (`Addressed`) and a handler that waits holds the versions it sent (`Awaiting`).
  - `Feeds` (`FeedKept`: at rest the reader sees the list the address asks for, in one grid with its
    paginator; a refit keeps the first post), for lists of any length, any windows and sizes and any
    number of requests. `LastAsked`: either the request sent last is still to be answered, and asks for
    what the address says, with as many posts as refits count from unless a preload changed that number
    since (`misled`), or it was answered and whatever else is under way has been passed by it. `Drawn`:
    what is on the screen is the page's state, or one grid that waits for its chunk is about to draw it.
    `RefitKeepsFirst` is the arithmetic: for every page, on either side of the queue's boundary, the page
    that `refitPage` computes holds the first post of the one it replaces, if it counts from that page's
    size. `FeedAssumption` asks that a window fits at least one post (`Math.max(1, ...)` in
    `computePerPage`) and has a fit for each size it may lead to.

Model-checked only:

- liveness (`EveryJobSettles`, `CrossPostArrives`, `RequestsEnd`, `ReadersAnswered`, `FrontSettles`,
  `EditsAreSaved`), which rests on ENABLED and on fairness;
- `FitsOnScreen` of the feeds: what fits around a paginator is a function of the window and of the size,
  and the property is about iterating it; it holds for the windows of the run and not for every such
  function, and not past a latch that was closed before a link or the history brought another per_page
  (section 5);
- the pages and plugins (`PagesTypeOK`, `TagsKept`, `PublicKept`, `ViewerKept`,
  `AdminKept`) and the demo (`DemoKept`): each is a conjunction over several components
  with large, irregular states, whose instances are small and complete;
- the two recursive computations, the walk's reachability in `TagHierarchy` and the visibility of tags in
  `DemoSite`, are stated without recursion; what they compute for every graph is not proved.

## 5. Where the code and its documents disagree

Found by a run:

1. A process that ends between `PublishContainer` and the write of the media id posts twice
   (`post_publish.go:209-215` against the comment at `:74`).
2. Two overlapping additions can make a cycle (`tag_hierarchy.go:22,30` against
   `docs/features/tag-system.md:44`).
3. A page rendered before a write may be stored after the write's Clear and served for the whole TTL
   (`cache_service.go:413-420` against `api/page_cache.go:15-18`).
4. A plugin whose chunk fails leaves a null among the children, and the page cannot be left
   (`HomePage.ts:477` against `core/pluginHost.ts:159,192`).

Met while modelling; each is a behaviour of the module, and the properties name it as an exception.

**Server.** A job that kills the process is requeued at every start whatever its attempts say, and a
cross-post whose goroutine has not enqueued yet is lost with the process. The note of a failed
cross-post is written under the context whose deadline made it fail (`post_publish.go:92`), so that a job
whose last attempt runs out of its 180 s leaves the post without an error, against the comment at
`:53-55`. `MergeTags` of related tags
may make a cycle. `SetTagParents` and `SetTagChildren` clear before an addition may be refused.
`UpdateTagSortOrder` moves a tag below all of its parents. Two overlapping toggles break "always
precisely one claimant" (`plugins/registry.go:74`). A process killed inside `migrations.Run` leaves no
marker: the next boot snapshots the half-migrated file, or the previous image serves it; with
`MIGRATION_BACKUP_KEEP=1` the prune before the second attempt drops the only good snapshot. A restore
cut short leaves an empty or torn database, its marker already gone; errors of removing either marker
are ignored and every later boot restores again.

**Offline writes, service worker, demo.** An operation queued while the connection comes back waits for
another event; one that was being sent at a reload stays in `syncing` for ever; an edit of a post that
an earlier run created keeps its local id. A worker that activates deletes the cache of a younger one
that is installing; the share queue is cleared wholesale, by an editor that the user may have left before
the uploads it still makes were put anywhere; an update of the offline data clears the
pictures before refilling; a video asked for offline may be answered by its poster. In the demo, a
guest's feed has "page" posts the owner's lacks, recorded neighbours and maps are unfiltered, a reset
does not lock the plugins again, and a request between reset and reload leaves traces.

**Router, feeds, editor.** Overlapping navigations mount over one another; `pluginHost._import` memoises
a rejected promise; the sign-in form leaks its Escape listener and navigates after it was left. An older
failed refresh followed by a newer success leaves the error on the page; refreshes are unnumbered; the
fit latch stays closed after a link or an entry of the history with another `per_page`, and the paginator
may stay below the screen (`gridFit.ts:337-339`). The preload of the neighbouring pages writes
`_loadedPerPage` (`gridPager.ts:784-809`, `HomePage.ts:242-246`), so that after a change of the settings or
of the cached fit the next refit counts from a size the page does not have and loses its first post
(`gridFit.ts:639-640`). The descent of a fit settles on the smaller of
two sizes (`gridFit.ts:337-339`) only when the sizes alternate: TLC with three sizes shows a window where
4 fit 3, 3 fit 2 and 2 fit 4, and the feed rests on 3 posts of which 2 fit. The editor's chip says Saved
while typed text is unsaved: an edit made during a save is counted as saved by its answer
(`PostEditPage.ts:827,886`, against `docs/features/publishing.md:41,98-99`). Two saves of a new post create
two. The autosave's create makes a draft of it whatever status was picked (`:811-814`). An analysis draws
the schedule, CSS, immersive mode and sharing it read at its start over what was stored since
(`:1225-1270`). A switch from Text to Visual
while a save is under way leaves blocks made from the text before the save's answer redrew it: the
chip says Saved over content that is not what is stored. The proof of `EditorKept` found this one; it
takes three edits, more than the run allows, and is an exception of the property now (`late`).

**Lists of the desk.** `PostsList`: a failed or overtaken load draws live posts in the trash with
permanent-delete buttons; dialogs, searches, late answers, the frame that measures and the debounced
resize outlive the page: the measure then finds the next page's table, and the load it causes wipes that
page and rewrites its address; an answer lost after the server acted leaves the row as it was; a selection
survives page turns. `MediaBrowser`: an older failure hides a newer answer; a long-pressed file is missing
from a new post; the EXIF panel is built from a stale listing, so that a save undoes an earlier one, as
the earlier of two saves does that is served last; the first of two uploads clears the flag of both.
`TagsManager`: a slug in the address reopens the editor after every load; saves compare with another
editor's parents; a second Ctrl+S creates twice; hidden rows stay selected; tags in a cycle vanish from
the tree. `CommentDesk`: ticks are row numbers and move to other comments. `SystemDesk`: Clear deletes
jobs that failed since the dialog counted. `MenuEditor`: a mode chosen during a save gets lost; a save
whose answer is lost leaves the store with the old mode; brackets garble the markdown.

**Settings, backups.** `PluginDesk`: two ticks in a preset before the first is answered lose the first; a
toggle never updates the host's slots. `SettingsDrawer`: two overlapping opens leave an orphan that locks
scrolling; a close's timer or a late save closes the next drawer. `BackupPanel`: a refresh that answers
after the panel was left polls for ever; a failed read of the settings counts as the defaults and the next
change saves them, as does a change made before the settings have come, for the controls are drawn and
bound while the panel loads; a restore whose restart was refused stays scheduled; after 60 s the page
reloads although the server is not back.

**Pagers, viewers, shows.** `SwipePager`: arming during the slide releases the lock; the watchdog drops it
under a slow load and keeps the ghost; arrow keys ignore it. `SlideViewer`: a key during the slide counts
from the old index; a drag that turns leaves the photo or the sheet midway (a comment says it never
rests there). `PostShow`: a crossing's timer and a close's late answer navigate after the visitor left; a
ghost is adopted by the next viewer; a show goes on without one; two presses leave a spinner for ever.
`SwipeReveal`: one set of variables serves all rows, so a second finger can open or tick a row that was
never swiped.

**Map.** `AtlasLayer`: a link followed before the grid was armed carries `view=list`; leaving within the
snap drops the mode; two fingers leave the snapping attribute for good; posts opened from a cloud lead
back to the feed, since `atlasOpenContext` holds `{placeTagId}` and `atlasReturn` is never written. (The
rest of `AtlasSheet.ts` is not used.) `AtlasMap`: the first answer has no number and draws old places over
new ones; a place's cloud is drawn around another; a failed cloud cannot be retried by a click.
`PlaceMap`: an error is not taken back by a later answer; two draws that wait both draw; leaving while
the library loads leaves a map behind. `YearStrip`: the header is redrawn with the first range of the
page and reports it back, so that `/map?years=2019` cannot be left by a pick; a wheel's pause, a pending
tap or a drag commits over a later choice.

**Header.** `HeaderTools`: two headers for one page leave two toggles; a header whose page was left before
its chunk came is never unmounted; suggestions of a former header are drawn in the next. `HeaderRow`: a
frozen row that is redrawn unfolds out of order; timers of replaced triggers open a dropdown anchored at
nothing. `RevelioSwitch`: the address is read before the awaits, so a flip takes back a visitor who
moved on; another tab's flip mixes scopes. `CommentWidget`: two instances for one post, or a thread in
the next post's node, when chunk or script come late.

## 6. What is left out

Inside the modelled components: `PROJECT.json` says it for each. On the server: sibling order, flags and
post counts of tags; the arithmetic of the page cache's size budget; several slots at once; media files
of a restored archive; a power loss as opposed to a killed process; `MIGRATION_BACKUP=false`. In the front
end: geometry, wording, layout, and what is redrawn from one answer. Not modelled at all: post lifecycle
and view counts, media visibility, sibling order (planned); the scheduler's loops, media processing, the
writing of archives, Instagram's import, the comment engine, authentication, MCP and OAuth, rendering,
themes, geocoding, metrics, SQL: I/O, external processes, pure functions, or a single write each.

## 7. Plan

Done: the server's core, the front end's foundation, the offline queue, the pagers, the media library
and the list of posts with their proofs, and models of most other pages. Next proofs: the listings
(`SystemDesk`, `CommentDesk`, `TagsManager`), whose argument is that of `Feeds`: a row is what the
server said at the last answer, or a cause is recorded. Next modules: the post lifecycle (overlapping
full-row updates, the scheduler's publication, the buffer of view counts), media visibility, and sibling
order in `TagHierarchy`. Abstract specifications worth adding: a cache that never serves a copy older
than the last finished write, which `PublicPages` implements between excuses, and a file that is
atomically replaced, for `BootGuard`.
