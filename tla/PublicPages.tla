---------------------------- MODULE PublicPages ----------------------------
(***************************************************************************)
(* The two caches between the database and a guest: the tag graph in       *)
(* memory (services/tag_graph_cache.go, tag_graph.go) and the rendered     *)
(* pages on disk (services/cache_service.go), the requests that read       *)
(* through them and the writes that have to drop them.  One page key is    *)
(* modelled; every page is rendered from the graph and a query of posts.   *)
(*                                                                         *)
(* What a cache holds is a copy of parts of the database.  Of a copy only  *)
(* the parts are kept that have been written since they were read, and     *)
(* whether the copy is excused: whether something happened after which no  *)
(* invalidation is going to remove it.                                     *)
(***************************************************************************)
EXTENDS Naturals

CONSTANTS
    Readers,    \* requests that read at the same time
    Writers,    \* requests that write at the same time
    Queries,    \* the parts buildGraph reads, one query each
    Counts,     \* those of them whose errors it drops
    Posts,      \* what a page is rendered from besides the graph
    NoReader,
    MaxWrites,  \* bound: statements one request executes
    Faults      \* whether queries and the page cache's writes may fail

ASSUME PublicPagesAssumption ==
    /\ NoReader \notin Readers
    /\ Counts \subseteq Queries
    /\ Posts \notin Queries
    /\ MaxWrites \in Nat
    /\ Faults \in BOOLEAN

Parts == Queries \cup {Posts}

VARIABLES
    graph,    \* tagGraphCache.graph
    builder,  \* the reader that holds the write lock to build the graph
    build,    \* the graph it is building
    unread,   \* the queries it has still to run
    page,     \* the servable cache entry: one that is not past its TTL
    leader,   \* the reader that runs singleflight's render
    render,   \* what it has rendered so far
    pc,       \* pc[r]: where the request of a reader stands
    stage,    \* stage[w]: where the request of a writer stands
    dirty,    \* dirty[w]: parts it wrote and has not invalidated everywhere
    writes    \* writes[w]: statements it has executed

cache == <<graph, builder, build, unread>>
pages == <<page, leader, render>>
writers == <<stage, dirty, writes>>
vars == <<cache, pages, pc, writers>>

Copy == [held : BOOLEAN, stale : SUBSET Parts, excused : BOOLEAN]
Nothing == [held |-> FALSE, stale |-> {}, excused |-> FALSE]
Fresh == [Nothing EXCEPT !.held = TRUE]

TypeOK ==
    /\ {graph, build, page, render} \subseteq Copy
    /\ graph.stale \cup build.stale \subseteq Queries
    /\ \A c \in {graph, build, page, render} : ~c.held => c = Nothing
    /\ builder \in Readers \cup {NoReader}
    /\ leader \in Readers \cup {NoReader}
    /\ unread \subseteq Queries
    /\ pc \in [Readers -> {"idle", "joined", "look", "graph", "lock", "build", "posts", "set"}]
    /\ stage \in [Writers -> {"idle", "writing", "dropped", "again"}]
    /\ dirty \in [Writers -> SUBSET Parts]
    /\ writes \in [Writers -> Nat]

Init ==
    /\ graph = Nothing
    /\ builder = NoReader
    /\ build = Nothing
    /\ unread = {}
    /\ page = Nothing
    /\ leader = NoReader
    /\ render = Nothing
    /\ pc = [r \in Readers |-> "idle"]
    /\ stage = [w \in Writers |-> "idle"]
    /\ dirty = [w \in Writers |-> {}]
    /\ writes = [w \in Writers |-> 0]

Goto(r, s) == pc' = [pc EXCEPT ![r] = s]
Stage(w, s) == stage' = [stage EXCEPT ![w] = s]

-----------------------------------------------------------------------------
(* Reading the page.                                                       *)

(* GetOrRender misses, for a hit changes nothing: the first reader renders *)
(* and the others wait for it.                                             *)
AskPage(r) ==
    /\ pc[r] = "idle"
    /\ ~page.held
    /\ IF leader = NoReader
          THEN Goto(r, "look") /\ leader' = r
          ELSE Goto(r, "joined") /\ UNCHANGED leader
    /\ UNCHANGED <<cache, page, render, writers>>

(* The render is over: every waiter is answered with its result.           *)
FlightEnds ==
    /\ pc' = [r \in Readers |-> IF r = leader \/ pc[r] = "joined" THEN "idle" ELSE pc[r]]
    /\ leader' = NoReader
    /\ render' = Nothing

(* The second look at the cache, inside the flight.                        *)
LookAgain(r) ==
    /\ pc[r] = "look"
    /\ IF page.held
          THEN FlightEnds
          ELSE Goto(r, "graph") /\ UNCHANGED <<leader, render>>
    /\ UNCHANGED <<cache, page, writers>>

(* The graph has been had, or could not be: then a page is rendered        *)
(* without it all the same.  Other requests ask for the graph alone.       *)
GotGraph(r, c) ==
    IF r = leader
       THEN /\ Goto(r, "posts")
            /\ render' = IF c.held THEN c ELSE [held |-> TRUE, stale |-> Queries, excused |-> TRUE]
       ELSE Goto(r, "idle") /\ UNCHANGED render

(* The query of posts; its failure fails the render, and nothing is kept.  *)
ReadPosts(r) ==
    /\ pc[r] = "posts"
    /\ \/ Goto(r, "set") /\ UNCHANGED <<leader, render>>
       \/ Faults /\ FlightEnds
    /\ UNCHANGED <<cache, page, writers>>

(* Set; its failure is only logged.  A Clear that removes its temporary    *)
(* file is one reason for it.                                              *)
SetPage(r) ==
    /\ pc[r] = "set"
    /\ page' \in {render, page}
    /\ FlightEnds
    /\ UNCHANGED <<cache, writers>>

(* The TTL passes, the sweep evicts the entry, or a reader that found an   *)
(* older entry expired removes this one in its place.                      *)
PageGoes ==
    /\ page.held
    /\ page' = Nothing
    /\ UNCHANGED <<cache, leader, render, pc, writers>>

-----------------------------------------------------------------------------
(* Reading the graph.                                                      *)

(* A request that needs the graph and no page.                             *)
AskGraph(r) ==
    /\ pc[r] = "idle"
    /\ Goto(r, "graph")
    /\ UNCHANGED <<cache, pages, writers>>

(* get under the read lock.                                                *)
ReadGraph(r) ==
    /\ pc[r] = "graph"
    /\ builder = NoReader
    /\ IF graph.held
          THEN GotGraph(r, graph)
          ELSE Goto(r, "lock") /\ UNCHANGED render
    /\ UNCHANGED <<cache, page, leader, writers>>

(* get has the write lock and looks again.                                 *)
LockGraph(r) ==
    /\ pc[r] = "lock"
    /\ builder = NoReader
    /\ IF graph.held
          THEN GotGraph(r, graph) /\ UNCHANGED <<builder, build, unread>>
          ELSE /\ Goto(r, "build")
               /\ builder' = r
               /\ build' = Fresh
               /\ unread' = Queries
               /\ UNCHANGED render
    /\ UNCHANGED <<graph, page, leader, writers>>

(* One query of buildGraph.  A failed count leaves the graph without it.   *)
Query(r, q) ==
    /\ pc[r] = "build"
    /\ q \in unread
    /\ unread' = unread \ {q}
    /\ \/ UNCHANGED build
       \/ Faults /\ q \in Counts
          /\ build' = [build EXCEPT !.stale = @ \cup {q}, !.excused = TRUE]
    /\ UNCHANGED <<graph, builder, pages, pc, writers>>

Unlock ==
    /\ builder' = NoReader
    /\ build' = Nothing
    /\ unread' = {}

GraphBuilt(r) ==
    /\ pc[r] = "build"
    /\ unread = {}
    /\ graph' = build
    /\ Unlock
    /\ GotGraph(r, build)
    /\ UNCHANGED <<page, leader, writers>>

(* Mutant: the error path returns without unlocking.                       *)
BuildFailsLocked(r) ==
    /\ Faults
    /\ pc[r] = "build"
    /\ unread \ Counts # {}
    /\ GotGraph(r, Nothing)
    /\ UNCHANGED <<cache, page, leader, writers>>

BuildFails(r) ==
    /\ Faults
    /\ pc[r] = "build"
    /\ unread \ Counts # {}
    /\ Unlock
    /\ GotGraph(r, Nothing)
    /\ UNCHANGED <<graph, page, leader, writers>>

-----------------------------------------------------------------------------
(* Writing.                                                                *)

(* Part p of the database is written.                                      *)
Outdated(c, p) == IF c.held THEN [c EXCEPT !.stale = @ \cup {p}] ELSE c

Excused(c, P) ==
    IF c.stale \cap P # {} THEN [c EXCEPT !.excused = TRUE] ELSE c

(* The parts the render in progress has read.                              *)
Rendered == IF leader # NoReader /\ pc[leader] = "set" THEN Parts ELSE Queries

(* A statement of a request that changes posts or tags.                    *)
Write(w, p) ==
    /\ stage[w] \in {"idle", "writing"}
    /\ writes[w] < MaxWrites
    /\ Stage(w, "writing")
    /\ writes' = [writes EXCEPT ![w] = @ + 1]
    /\ dirty' = [dirty EXCEPT ![w] = @ \cup {p}]
    /\ graph' = IF p \in Queries THEN Outdated(graph, p) ELSE graph
    /\ build' = IF p \in Queries \ unread THEN Outdated(build, p) ELSE build
    /\ render' = IF p \in Rendered THEN Outdated(render, p) ELSE render
    /\ page' = Outdated(page, p)
    /\ UNCHANGED <<builder, unread, leader, pc>>

(* A later statement fails, and the request returns without invalidating   *)
(* anything: ReorderTag and MoveTag in the middle of a renumbering.        *)
GiveUp(w) ==
    /\ Faults
    /\ stage[w] = "writing"
    /\ Stage(w, "idle")
    /\ dirty' = [dirty EXCEPT ![w] = {}]
    /\ graph' = Excused(graph, dirty[w])
    /\ build' = Excused(build, dirty[w])
    /\ render' = Excused(render, dirty[w])
    /\ page' = Excused(page, dirty[w])
    /\ writes' = [writes EXCEPT ![w] = 0]
    /\ UNCHANGED <<builder, unread, leader, pc>>

(* Mutant: invalidate does not take the lock.                              *)
LockFreeAlways == TRUE

LockFree == builder = NoReader

(* Mutant: a tag service that was not given the page cache.                *)
DropGraphOnly(w) ==
    /\ stage[w] = "writing"
    /\ LockFree
    /\ graph' = Nothing
    /\ Stage(w, "idle")
    /\ dirty' = [dirty EXCEPT ![w] = {}]
    /\ UNCHANGED <<builder, build, unread, pages, pc, writes>>

(* TagService.Invalidate: the graph first, then the pages.                 *)
DropGraph(w) ==
    /\ stage[w] = "writing"
    /\ LockFree
    /\ graph' = Nothing
    /\ Stage(w, "dropped")
    /\ UNCHANGED <<builder, build, unread, pages, pc, dirty, writes>>

(* Clear, whose error is dropped.  A render that has read the graph is not *)
(* stopped by it and will be stored afterwards.  onPostsChanged clears     *)
(* once more than a tag write does.                                        *)
ClearPages(w) ==
    /\ stage[w] \in {"dropped", "again"}
    /\ \/ stage[w] = "dropped" /\ Stage(w, "again") /\ UNCHANGED writes
       \/ Stage(w, "idle") /\ writes' = [writes EXCEPT ![w] = 0]
    /\ dirty' = [dirty EXCEPT ![w] = {}]
    /\ \/ page' = Nothing
       \/ Faults /\ page' = Excused(page, dirty[w])
    /\ render' = IF render.held THEN [render EXCEPT !.excused = TRUE] ELSE render
    /\ UNCHANGED <<cache, leader, pc>>

(* The process is started again; pages on disk survive it.                 *)
Restart ==
    /\ graph' = Nothing
    /\ Unlock
    /\ leader' = NoReader
    /\ render' = Nothing
    /\ pc' = [r \in Readers |-> "idle"]
    /\ page' = Excused(page, UNION {dirty[w] : w \in Writers})
    /\ stage' = [w \in Writers |-> "idle"]
    /\ dirty' = [w \in Writers |-> {}]
    /\ writes' = [w \in Writers |-> 0]

-----------------------------------------------------------------------------

Read(r) ==
    \/ LookAgain(r)
    \/ ReadGraph(r)
    \/ LockGraph(r)
    \/ \E q \in unread : Query(r, q)
    \/ GraphBuilt(r)
    \/ BuildFails(r)
    \/ ReadPosts(r)
    \/ SetPage(r)

Update(w) ==
    \/ \E p \in Parts : Write(w, p)
    \/ GiveUp(w)
    \/ DropGraph(w)
    \/ ClearPages(w)

Next ==
    \/ \E r \in Readers : AskPage(r) \/ AskGraph(r) \/ Read(r)
    \/ \E w \in Writers : Update(w)
    \/ PageGoes
    \/ Restart

Spec == Init /\ [][Next]_vars

(* A request goes on when it can.  Waiting for the graph's lock is strong  *)
(* fairness: sync.RWMutex does not starve a waiter.                        *)
LiveSpec ==
    /\ Spec
    /\ \A r \in Readers :
          /\ WF_vars(Read(r))
          /\ SF_vars(ReadGraph(r) \/ LockGraph(r))

-----------------------------------------------------------------------------
(* Properties.                                                             *)

(* A part of the cached graph that was written since it was read is about  *)
(* to be dropped: the request that wrote it has yet to call Invalidate.    *)
(* A build that overlaps a write never outlives the write's invalidation.  *)
(* Excused is a graph whose count query failed, or whose writer failed     *)
(* between its first statement and Invalidate: they stay until the next    *)
(* write, for the graph has no TTL.                                        *)
GraphFresh ==
    graph.held /\ ~graph.excused =>
        \A p \in graph.stale : \E w \in Writers : stage[w] = "writing" /\ p \in dirty[w]

(* page_cache.go:15: a page that misses a write is only served while the   *)
(* request that wrote is still on its way to Clear.  Excused is a page     *)
(* whose render a Clear overtook, that was rendered from an excused graph  *)
(* or without one, or whose writer failed or died before its Clear or      *)
(* whose Clear failed; those stay until their TTL.                         *)
PagesFresh ==
    page.held /\ ~page.excused =>
        \A p \in page.stale : \E w \in Writers : p \in dirty[w]

(* page_cache.go:15: "every write that could change what a guest sees      *)
(* calls InvalidatePublicPages, so the TTL only has to bound the drift     *)
(* from the things that do not": settings edits and the clock.             *)
PagesFollowWrites ==
    page.held => \A p \in page.stale : \E w \in Writers : p \in dirty[w]

(* Every request is answered: the singleflight, the lock held during a     *)
(* build and the error paths leave nobody waiting.                         *)
ReadersAnswered == \A r \in Readers : pc[r] # "idle" ~> pc[r] = "idle"

=============================================================================
