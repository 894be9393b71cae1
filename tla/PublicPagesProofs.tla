------------------------- MODULE PublicPagesProofs -------------------------
(***************************************************************************)
(* Proofs about PublicPages: both caches are fresh but for the writes that *)
(* are on their way to invalidate them and for the copies excused.         *)
(*                                                                         *)
(* GraphFresh is not inductive, because the graph is a build a moment      *)
(* before; nor is PagesFresh, because the page is a render, and the render *)
(* takes over the graph.  Inv says of all four copies what the properties  *)
(* say of two.  That a write may not be invalidated while a build that     *)
(* missed it is under way is the lock: Locking.                            *)
(***************************************************************************)
EXTENDS PublicPages, TLAPS

USE DEF Parts

(* The copy c only misses writes that have still to drop the graph.        *)
OwedToGraph(c) ==
    c.held /\ ~c.excused =>
        \A p \in c.stale : \E w \in Writers : stage[w] = "writing" /\ p \in dirty[w]

(* The copy c only misses writes that have still to clear the pages.       *)
OwedToPages(c) ==
    c.held /\ ~c.excused =>
        \A p \in c.stale : \E w \in Writers : p \in dirty[w]

Locking ==
    /\ builder = NoReader => ~build.held
    /\ \A r \in Readers : pc[r] = "build" => builder = r /\ build.held

Owing ==
    /\ OwedToGraph(graph)
    /\ OwedToGraph(build)
    /\ OwedToPages(render)
    /\ OwedToPages(page)

Inv == TypeOK /\ Locking /\ Owing

-----------------------------------------------------------------------------
(* Copies.                                                                 *)

(* A copy that is not held says nothing.                                   *)
Kept(c) == c \in Copy /\ (~c.held => c = Nothing)

LEMMA NothingKept ==
    Kept(Nothing) /\ ~Nothing.held /\ Nothing.stale = {} /\ ~Nothing.excused
  BY DEF Kept, Copy, Nothing

LEMMA FreshKept ==
    Kept(Fresh) /\ Fresh.held /\ Fresh.stale = {} /\ ~Fresh.excused
  BY DEF Kept, Copy, Nothing, Fresh

LEMMA OutdatedKept ==
    ASSUME NEW c, Kept(c), NEW p \in Parts
    PROVE  /\ Kept(Outdated(c, p))
           /\ Outdated(c, p).held = c.held
           /\ Outdated(c, p).excused = c.excused
           /\ Outdated(c, p).stale \subseteq c.stale \cup {p}
           /\ Outdated(c, p).stale \subseteq Parts
  BY DEF Kept, Copy, Outdated

LEMMA ExcusedKept ==
    ASSUME NEW c, Kept(c), NEW P
    PROVE  /\ Kept(Excused(c, P))
           /\ Excused(c, P).held = c.held
           /\ Excused(c, P).stale = c.stale
           /\ ~Excused(c, P).excused => ~c.excused /\ c.stale \cap P = {}
<1>1. CASE c.stale \cap P = {}
  BY <1>1 DEF Excused
<1>2. CASE c.stale \cap P # {}
  <2>1. Excused(c, P) = [c EXCEPT !.excused = TRUE]
    BY <1>2 DEF Excused
  <2>2. c.held
    <3> SUFFICES ASSUME ~c.held PROVE FALSE
      OBVIOUS
    <3>1. c.stale = {}
      BY NothingKept DEF Kept
    <3> QED
      BY <3>1, <1>2
  <2>3. /\ Excused(c, P) \in Copy
        /\ Excused(c, P).held = c.held
        /\ Excused(c, P).stale = c.stale
        /\ Excused(c, P).excused = TRUE
    BY <2>1 DEF Kept, Copy
  <2> QED
    BY <2>2, <2>3 DEF Kept
<1> QED
  BY <1>1, <1>2

(* A page rendered without the graph.                                      *)
Blind == [held |-> TRUE, stale |-> Queries, excused |-> TRUE]

LEMMA BlindKept == Kept(Blind) /\ Blind.held /\ Blind.excused
  BY DEF Kept, Copy, Blind

(* The type invariant, copy by copy.                                       *)
Copies ==
    /\ Kept(graph) /\ Kept(build) /\ Kept(page) /\ Kept(render)
    /\ graph.stale \subseteq Queries
    /\ build.stale \subseteq Queries

Control ==
    /\ builder \in Readers \cup {NoReader}
    /\ leader \in Readers \cup {NoReader}
    /\ unread \subseteq Queries
    /\ pc \in [Readers -> {"idle", "joined", "look", "graph", "lock", "build", "posts", "set"}]
    /\ stage \in [Writers -> {"idle", "writing", "dropped", "again"}]
    /\ dirty \in [Writers -> SUBSET Parts]
    /\ writes \in [Writers -> Nat]

LEMMA TypeParts == TypeOK <=> Copies /\ Control
  BY DEF TypeOK, Copies, Control, Kept

LEMMA TypePartsPrime == TypeOK' <=> Copies' /\ Control'
  BY DEF TypeOK, Copies, Control, Kept

-----------------------------------------------------------------------------
(* What the graph's reader takes away.                                     *)

LEMMA GotGraphKept ==
    ASSUME Inv, NEW r \in Readers, NEW c, Kept(c), OwedToGraph(c), GotGraph(r, c),
           UNCHANGED <<stage, dirty>>
    PROVE  /\ Kept(render')
           /\ OwedToPages(render)'
           /\ pc' \in [Readers -> {"idle", "joined", "look", "graph", "lock", "build", "posts", "set"}]
           /\ pc'[r] # "build"
           /\ \A s \in Readers : s # r => pc'[s] = pc[s]
<1>1. Control /\ Copies
  BY TypeParts DEF Inv
<1>2. pc' \in [Readers -> {"idle", "joined", "look", "graph", "lock", "build", "posts", "set"}]
        /\ pc'[r] # "build" /\ \A s \in Readers : s # r => pc'[s] = pc[s]
  BY <1>1 DEF GotGraph, Goto, Control
<1>3. OwedToPages(c) /\ OwedToPages(Blind)
  BY BlindKept DEF OwedToGraph, OwedToPages
<1>4. render' \in {c, Blind, render}
  BY DEF GotGraph, Blind
<1>5. Kept(render')
  BY <1>1, <1>4, BlindKept DEF Copies
<1>6. OwedToPages(render)'
  BY <1>3, <1>4 DEF OwedToPages, Inv, Owing
<1> QED
  BY <1>2, <1>5, <1>6

-----------------------------------------------------------------------------
(* The steps of readers.                                                   *)

LEMMA InvParts == Inv <=> Copies /\ Control /\ Locking /\ Owing
  BY TypeParts DEF Inv

LEMMA InvPartsPrime == Inv' <=> Copies' /\ Control' /\ Locking' /\ Owing'
  BY TypePartsPrime DEF Inv

LEMMA InvInit == Init => Inv
<1> SUFFICES ASSUME Init PROVE Copies /\ Control /\ Locking /\ Owing
  BY InvParts
<1>1. Copies
  BY NothingKept DEF Init, Copies
<1>2. Control
  BY DEF Init, Control
<1>3. Locking
  BY NothingKept DEF Init, Locking
<1>4. Owing
  BY NothingKept DEF Init, Owing, OwedToGraph, OwedToPages
<1> QED
  BY <1>1, <1>2, <1>3, <1>4

(* Only the render and the places of readers outside a build change, and   *)
(* the page at most to the render or to nothing.                           *)
Quiet ==
    /\ UNCHANGED <<cache, writers>>
    /\ render' \in {render, Nothing}
    /\ page' \in {page, render, Nothing}
    /\ leader' \in Readers \cup {NoReader}
    /\ pc' \in [Readers -> {"idle", "joined", "look", "graph", "lock", "build", "posts", "set"}]
    /\ \A r \in Readers : pc'[r] = "build" => pc[r] = "build"

LEMMA QuietKeeps ==
    ASSUME Inv, Quiet
    PROVE  Inv'
<1> Copies /\ Control /\ Locking /\ Owing
  BY InvParts
<1>1. Copies'
  BY NothingKept DEF Quiet, Copies, cache
<1>2. Control'
  BY DEF Quiet, Control, cache, writers
<1>3. Locking'
  BY DEF Quiet, Locking, cache
<1>4. Owing'
  <2>1. OwedToGraph(graph)' /\ OwedToGraph(build)'
    BY DEF Quiet, Owing, OwedToGraph, cache, writers
  <2>2. OwedToPages(Nothing)
    BY NothingKept DEF OwedToPages
  <2>3. OwedToPages(render)' /\ OwedToPages(page)'
    BY <2>2 DEF Quiet, Owing, OwedToPages, cache, writers
  <2> QED
    BY <2>1, <2>3 DEF Owing
<1> QED
  BY <1>1, <1>2, <1>3, <1>4, InvPartsPrime

LEMMA FlightEndsQuietly ==
    ASSUME Control, FlightEnds
    PROVE  /\ render' = Nothing
           /\ leader' \in Readers \cup {NoReader}
           /\ pc' \in [Readers -> {"idle", "joined", "look", "graph", "lock", "build", "posts", "set"}]
           /\ \A r \in Readers : pc'[r] = "build" => pc[r] = "build"
  BY DEF Control, FlightEnds

LEMMA ReaderQuiet ==
    ASSUME Inv, NEW r \in Readers,
           AskPage(r) \/ LookAgain(r) \/ ReadPosts(r) \/ SetPage(r) \/ AskGraph(r) \/ PageGoes
    PROVE  Quiet
<1> Control
  BY InvParts
<1>1. CASE AskPage(r)
  BY <1>1 DEF AskPage, Quiet, Control, Goto
<1>2. CASE LookAgain(r)
  BY <1>2, FlightEndsQuietly DEF LookAgain, Quiet, Control, Goto
<1>3. CASE ReadPosts(r)
  BY <1>3, FlightEndsQuietly DEF ReadPosts, Quiet, Control, Goto
<1>4. CASE SetPage(r)
  BY <1>4, FlightEndsQuietly DEF SetPage, Quiet
<1>5. CASE AskGraph(r)
  BY <1>5 DEF AskGraph, Quiet, Control, Goto, pages
<1>6. CASE PageGoes
  BY <1>6 DEF PageGoes, Quiet, Control
<1> QED
  BY <1>1, <1>2, <1>3, <1>4, <1>5, <1>6

(* r leaves the cache with the graph c; the lock is free afterwards.       *)
LEMMA TakesGraph ==
    ASSUME Inv, NEW r \in Readers, NEW c, Kept(c), OwedToGraph(c), GotGraph(r, c),
           UNCHANGED <<page, leader, writers>>,
           c.stale \subseteq Queries,
           graph' \in {graph, c},
           builder' = NoReader,
           build' = Nothing,
           unread' = {},
           \A s \in Readers : s # r => pc[s] # "build"
    PROVE  Inv'
<1> Copies /\ Control /\ Locking /\ Owing
  BY InvParts
<1> UNCHANGED <<stage, dirty>>
  BY DEF writers
<1>0. /\ Kept(render')
      /\ OwedToPages(render)'
      /\ pc' \in [Readers -> {"idle", "joined", "look", "graph", "lock", "build", "posts", "set"}]
      /\ \A s \in Readers : pc'[s] # "build"
  BY GotGraphKept
<1>1. Copies'
  BY <1>0, NothingKept DEF Copies
<1>2. Control'
  BY <1>0 DEF Control, writers
<1>3. Locking'
  BY <1>0, NothingKept DEF Locking
<1>4. Owing'
  <2>1. OwedToGraph(graph)' /\ OwedToGraph(build)'
    BY NothingKept DEF OwedToGraph, Owing
  <2>2. OwedToPages(page)'
    BY DEF OwedToPages, Owing
  <2> QED
    BY <1>0, <2>1, <2>2 DEF Owing
<1> QED
  BY <1>1, <1>2, <1>3, <1>4, InvPartsPrime

LEMMA ReadGraphKeeps ==
    ASSUME Inv, NEW r \in Readers, ReadGraph(r)
    PROVE  Inv'
<1> Copies /\ Control /\ Locking /\ Owing
  BY InvParts
<1>0. \A s \in Readers : pc[s] # "build"
  BY PublicPagesAssumption DEF ReadGraph, Locking
<1>1. build = Nothing
  BY DEF ReadGraph, Locking, Copies, Kept
<1>2. UNCHANGED <<page, leader, writers, cache>> /\ builder = NoReader
  BY DEF ReadGraph
<1>3. CASE graph.held
  <2>1. GotGraph(r, graph)
    BY <1>3 DEF ReadGraph
  <2>2. Copies'
    <3>1. Kept(render')
      BY <2>1, <1>2, GotGraphKept DEF Copies, Owing, writers
    <3> QED
      BY <3>1, <1>2 DEF Copies, cache
  <2>3. /\ OwedToPages(render)'
        /\ pc' \in [Readers -> {"idle", "joined", "look", "graph", "lock", "build", "posts", "set"}]
        /\ \A s \in Readers : pc'[s] # "build"
    BY <2>1, <1>0, <1>2, GotGraphKept DEF Copies, Owing, writers
  <2>4. Control'
    BY <2>3, <1>2 DEF Control, cache, writers
  <2>5. Locking'
    BY <2>3, <1>2 DEF Locking, cache
  <2>6. Owing'
    BY <2>3, <1>2 DEF Owing, OwedToGraph, OwedToPages, cache, writers
  <2> QED
    BY <2>2, <2>4, <2>5, <2>6, InvPartsPrime
<1>4. CASE ~graph.held
  <2>1. Goto(r, "lock") /\ UNCHANGED render
    BY <1>4 DEF ReadGraph
  <2>2. Quiet
    BY <2>1, <1>2 DEF Quiet, Control, Goto
  <2> QED
    BY <2>2, QuietKeeps
<1> QED
  BY <1>3, <1>4

LEMMA LockGraphKeeps ==
    ASSUME Inv, NEW r \in Readers, LockGraph(r)
    PROVE  Inv'
<1> Copies /\ Control /\ Locking /\ Owing
  BY InvParts
<1>0. \A s \in Readers : pc[s] # "build"
  BY PublicPagesAssumption DEF LockGraph, Locking
<1>1. UNCHANGED <<graph, page, leader, writers>> /\ builder = NoReader
  BY DEF LockGraph
<1>2. CASE graph.held
  <2>1. GotGraph(r, graph) /\ UNCHANGED <<builder, build, unread>>
    BY <1>2 DEF LockGraph
  <2>2. /\ Kept(render')
        /\ OwedToPages(render)'
        /\ pc' \in [Readers -> {"idle", "joined", "look", "graph", "lock", "build", "posts", "set"}]
        /\ \A s \in Readers : pc'[s] # "build"
    BY <2>1, <1>0, <1>1, GotGraphKept DEF Copies, Owing, writers
  <2>3. Copies' /\ Control' /\ Locking'
    BY <2>1, <2>2, <1>1 DEF Copies, Control, Locking, writers
  <2>4. Owing'
    BY <2>1, <2>2, <1>1 DEF Owing, OwedToGraph, OwedToPages, writers
  <2> QED
    BY <2>3, <2>4, InvPartsPrime
<1>3. CASE ~graph.held
  <2>1. /\ Goto(r, "build")
        /\ builder' = r
        /\ build' = Fresh
        /\ unread' = Queries
        /\ UNCHANGED render
    BY <1>3 DEF LockGraph
  <2>2. Copies'
    BY <2>1, <1>1, FreshKept DEF Copies
  <2>3. Control'
    BY <2>1, <1>1 DEF Control, Goto, writers
  <2>4. Locking'
    BY <2>1, <1>0, FreshKept, PublicPagesAssumption DEF Locking, Goto, Control
  <2>5. Owing'
    BY <2>1, <1>1, FreshKept DEF Owing, OwedToGraph, OwedToPages, writers
  <2> QED
    BY <2>2, <2>3, <2>4, <2>5, InvPartsPrime
<1> QED
  BY <1>2, <1>3

LEMMA QueryKeeps ==
    ASSUME Inv, NEW r \in Readers, NEW q \in unread, Query(r, q)
    PROVE  Inv'
<1> Copies /\ Control /\ Locking /\ Owing
  BY InvParts
<1>0. UNCHANGED <<graph, builder, pages, pc, writers>> /\ unread' = unread \ {q}
  BY DEF Query
<1>1. build.held /\ q \in Queries
  BY DEF Query, Locking, Control
<1>2. /\ Kept(build')
      /\ build'.held
      /\ build'.stale \subseteq Queries
      /\ build' = build \/ build'.excused
  <2>1. CASE UNCHANGED build
    BY <2>1, <1>1 DEF Copies
  <2>2. CASE build' = [build EXCEPT !.stale = @ \cup {q}, !.excused = TRUE]
    <3>1. build \in Copy
      BY DEF Copies, Kept
    <3> QED
      BY <2>2, <3>1, <1>1 DEF Copies, Copy, Kept
  <2> QED
    BY <2>1, <2>2 DEF Query
<1>3. Copies' /\ Control' /\ Locking'
  BY <1>0, <1>1, <1>2 DEF Copies, Control, Locking, pages, writers
<1>4. Owing'
  BY <1>0, <1>2 DEF Owing, OwedToGraph, OwedToPages, pages, writers
<1> QED
  BY <1>3, <1>4, InvPartsPrime

LEMMA BuildKeeps ==
    ASSUME Inv, NEW r \in Readers, GraphBuilt(r) \/ BuildFails(r)
    PROVE  Inv'
<1> Copies /\ Control /\ Locking /\ Owing
  BY InvParts
<1>1. \A s \in Readers : s # r => pc[s] # "build"
  BY DEF GraphBuilt, BuildFails, Locking
<1>2. CASE GraphBuilt(r)
  BY <1>1, <1>2, TakesGraph DEF GraphBuilt, Unlock, Copies, Owing
<1>3. CASE BuildFails(r)
  <2>1. OwedToGraph(Nothing) /\ Kept(Nothing) /\ Nothing.stale \subseteq Queries
    BY NothingKept DEF OwedToGraph
  <2> QED
    BY <1>1, <1>3, <2>1, TakesGraph DEF BuildFails, Unlock
<1> QED
  BY <1>2, <1>3

-----------------------------------------------------------------------------
(* The steps of writers.                                                   *)

LEMMA WriteKeeps ==
    ASSUME Inv, NEW w \in Writers, NEW p \in Parts, Write(w, p)
    PROVE  Inv'
<1> Copies /\ Control /\ Locking /\ Owing
  BY InvParts
<1> USE DEF Write
<1>1. Copies'
  <2>1. Kept(graph') /\ graph'.stale \subseteq Queries
    BY OutdatedKept DEF Copies
  <2>2. Kept(build') /\ build'.stale \subseteq Queries
    BY OutdatedKept DEF Copies
  <2>3. Kept(render') /\ Kept(page')
    BY OutdatedKept DEF Copies
  <2> QED
    BY <2>1, <2>2, <2>3 DEF Copies
<1>2. Control'
  BY DEF Control, Stage
<1>3. build'.held = build.held
  BY OutdatedKept DEF Copies
<1>4. Locking'
  BY <1>3 DEF Locking
<1>5. /\ stage'[w] = "writing" /\ p \in dirty'[w]
      /\ \A v \in Writers : stage[v] = "writing" => stage'[v] = "writing"
      /\ \A v \in Writers : dirty[v] \subseteq dirty'[v]
  BY DEF Control, Stage
<1>6. OwedToGraph(graph)'
  <2>1. graph'.held = graph.held /\ graph'.excused = graph.excused
        /\ graph'.stale \subseteq graph.stale \cup {p}
    BY OutdatedKept DEF Copies
  <2> QED
    BY <2>1, <1>5 DEF Owing, OwedToGraph
<1>7. OwedToGraph(build)'
  <2>1. build'.held = build.held /\ build'.excused = build.excused
        /\ build'.stale \subseteq build.stale \cup {p}
    BY OutdatedKept DEF Copies
  <2> QED
    BY <2>1, <1>5 DEF Owing, OwedToGraph
<1>8. OwedToPages(render)'
  <2>1. render'.held = render.held /\ render'.excused = render.excused
        /\ render'.stale \subseteq render.stale \cup {p}
    BY OutdatedKept DEF Copies
  <2> QED
    BY <2>1, <1>5 DEF Owing, OwedToPages
<1>9. OwedToPages(page)'
  <2>1. page'.held = page.held /\ page'.excused = page.excused
        /\ page'.stale \subseteq page.stale \cup {p}
    BY OutdatedKept DEF Copies
  <2> QED
    BY <2>1, <1>5 DEF Owing, OwedToPages
<1> QED
  BY <1>1, <1>2, <1>4, <1>6, <1>7, <1>8, <1>9, InvPartsPrime DEF Owing

LEMMA GiveUpKeeps ==
    ASSUME Inv, NEW w \in Writers, GiveUp(w)
    PROVE  Inv'
<1> Copies /\ Control /\ Locking /\ Owing
  BY InvParts
<1> USE DEF GiveUp
<1>1. Copies'
  BY ExcusedKept DEF Copies
<1>2. Control'
  BY DEF Control, Stage
<1>3. Locking'
  BY ExcusedKept DEF Locking, Copies
<1>4. /\ \A v \in Writers : v # w => stage'[v] = stage[v] /\ dirty'[v] = dirty[v]
  BY DEF Control, Stage
<1>5. ASSUME NEW c, Kept(c), OwedToGraph(c), Excused(c, dirty[w]).held, ~Excused(c, dirty[w]).excused,
             NEW p \in Excused(c, dirty[w]).stale
      PROVE  \E v \in Writers : stage'[v] = "writing" /\ p \in dirty'[v]
  <2>1. c.held /\ ~c.excused /\ p \in c.stale /\ p \notin dirty[w]
    BY <1>5, ExcusedKept
  <2>2. PICK v \in Writers : stage[v] = "writing" /\ p \in dirty[v]
    BY <2>1, <1>5 DEF OwedToGraph
  <2> QED
    BY <2>1, <2>2, <1>4
<1>6. ASSUME NEW c, Kept(c), OwedToPages(c), Excused(c, dirty[w]).held, ~Excused(c, dirty[w]).excused,
             NEW p \in Excused(c, dirty[w]).stale
      PROVE  \E v \in Writers : p \in dirty'[v]
  <2>1. c.held /\ ~c.excused /\ p \in c.stale /\ p \notin dirty[w]
    BY <1>6, ExcusedKept
  <2>2. PICK v \in Writers : p \in dirty[v]
    BY <2>1, <1>6 DEF OwedToPages
  <2> QED
    BY <2>1, <2>2, <1>4
<1>7. OwedToGraph(graph)' /\ OwedToGraph(build)'
  BY <1>5 DEF Owing, OwedToGraph, Copies
<1>8. OwedToPages(render)' /\ OwedToPages(page)'
  BY <1>6 DEF Owing, OwedToPages, Copies
<1> QED
  BY <1>1, <1>2, <1>3, <1>7, <1>8, InvPartsPrime DEF Owing

LEMMA DropGraphKeeps ==
    ASSUME Inv, NEW w \in Writers, DropGraph(w)
    PROVE  Inv'
<1> Copies /\ Control /\ Locking /\ Owing
  BY InvParts
<1> USE DEF DropGraph
<1>1. Copies' /\ Control' /\ Locking'
  BY NothingKept DEF Copies, Control, Locking, Stage, pages
<1>2. ~build'.held
  BY DEF Locking, LockFree
<1>3. OwedToGraph(graph)' /\ OwedToGraph(build)'
  BY <1>2, NothingKept DEF OwedToGraph
<1>4. OwedToPages(render)' /\ OwedToPages(page)'
  BY DEF Owing, OwedToPages, pages
<1> QED
  BY <1>1, <1>3, <1>4, InvPartsPrime DEF Owing

LEMMA ClearPagesKeeps ==
    ASSUME Inv, NEW w \in Writers, ClearPages(w)
    PROVE  Inv'
<1> Copies /\ Control /\ Locking /\ Owing
  BY InvParts
<1> USE DEF ClearPages
<1>1. Kept(render') /\ (render'.held => render'.excused)
  <2>1. render \in Copy
    BY DEF Copies, Kept
  <2> QED
    BY <2>1 DEF Copies, Copy, Kept
<1>2. Copies'
  BY <1>1, NothingKept, ExcusedKept DEF Copies, cache
<1>3. Control'
  BY DEF Control, Stage, cache
<1>4. Locking'
  BY DEF Locking, cache
<1>5. \A v \in Writers : stage[v] = "writing" => stage'[v] = "writing" /\ dirty'[v] = dirty[v]
  BY DEF Control, Stage
<1>6. OwedToGraph(graph)' /\ OwedToGraph(build)'
  BY <1>5 DEF Owing, OwedToGraph, cache
<1>7. OwedToPages(render)'
  BY <1>1 DEF OwedToPages
<1>8. OwedToPages(page)'
  <2>1. CASE page' = Nothing
    BY <2>1, NothingKept DEF OwedToPages
  <2>2. CASE page' = Excused(page, dirty[w])
    <3>1. SUFFICES ASSUME page'.held, ~page'.excused, NEW p \in page'.stale
                   PROVE  \E v \in Writers : p \in dirty'[v]
      BY DEF OwedToPages
    <3>2. page.held /\ ~page.excused /\ p \in page.stale /\ p \notin dirty[w]
      BY <2>2, <3>1, ExcusedKept DEF Copies
    <3>3. PICK v \in Writers : p \in dirty[v]
      BY <3>2 DEF Owing, OwedToPages
    <3> QED
      BY <3>2, <3>3 DEF Control
  <2> QED
    BY <2>1, <2>2
<1> QED
  BY <1>2, <1>3, <1>4, <1>6, <1>7, <1>8, InvPartsPrime DEF Owing

LEMMA RestartKeeps ==
    ASSUME Inv, Restart
    PROVE  Inv'
<1> Copies /\ Control /\ Locking /\ Owing
  BY InvParts
<1> USE DEF Restart, Unlock
<1>1. Copies'
  BY NothingKept, ExcusedKept DEF Copies
<1>2. Control'
  BY DEF Control
<1>3. Locking'
  BY NothingKept DEF Locking
<1>4. OwedToPages(page)'
  <2> DEFINE D == UNION {dirty[w] : w \in Writers}
  <2>1. SUFFICES ASSUME page'.held, ~page'.excused, NEW p \in page'.stale PROVE FALSE
    BY DEF OwedToPages
  <2>2. page.held /\ ~page.excused /\ p \in page.stale /\ p \notin D
    BY <2>1, ExcusedKept DEF Copies
  <2>3. PICK w \in Writers : p \in dirty[w]
    BY <2>2 DEF Owing, OwedToPages
  <2> QED
    BY <2>2, <2>3
<1>5. OwedToGraph(graph)' /\ OwedToGraph(build)' /\ OwedToPages(render)'
  BY NothingKept DEF OwedToGraph, OwedToPages
<1> QED
  BY <1>1, <1>2, <1>3, <1>4, <1>5, InvPartsPrime DEF Owing

-----------------------------------------------------------------------------
(* The theorems.                                                           *)

LEMMA NextKeeps == Inv /\ [Next]_vars => Inv'
<1> SUFFICES ASSUME Inv, [Next]_vars PROVE Inv'
  OBVIOUS
<1>1. ASSUME NEW r \in Readers, AskPage(r) \/ AskGraph(r) \/ Read(r) PROVE Inv'
  BY <1>1, ReaderQuiet, QuietKeeps, ReadGraphKeeps, LockGraphKeeps, QueryKeeps, BuildKeeps DEF Read
<1>2. ASSUME NEW w \in Writers, Update(w) PROVE Inv'
  BY <1>2, WriteKeeps, GiveUpKeeps, DropGraphKeeps, ClearPagesKeeps DEF Update
<1>3. CASE PageGoes
  <2>1. Quiet
    BY <1>3, InvParts DEF PageGoes, Quiet, Control
  <2> QED
    BY <2>1, QuietKeeps
<1>4. CASE Restart
  BY <1>4, RestartKeeps
<1>5. CASE UNCHANGED vars
  <2>1. Quiet
    BY <1>5, InvParts DEF vars, pages, Quiet, Control
  <2> QED
    BY <2>1, QuietKeeps
<1> QED
  BY <1>1, <1>2, <1>3, <1>4, <1>5 DEF Next

LEMMA Invariant == Spec => []Inv
  BY InvInit, NextKeeps, PTL DEF Spec

(* Types, and a copy that is not held is empty.                            *)
THEOREM TypeCorrect == Spec => []TypeOK
<1>1. Inv => TypeOK
  BY DEF Inv
<1> QED
  BY Invariant, <1>1, PTL

(* tag_graph_cache.go: for any number of requests and of parts, a build    *)
(* under the write lock and an invalidation after the write leave no stale *)
(* graph behind.                                                           *)
THEOREM GraphIsFresh == Spec => []GraphFresh
<1>1. Inv => GraphFresh
  BY DEF Inv, Owing, OwedToGraph, GraphFresh
<1> QED
  BY Invariant, <1>1, PTL

(* cache_service.go, post_service.go onPostsChanged: a served page misses  *)
(* only writes still to be cleared, or it is excused.                      *)
THEOREM PagesAreFresh == Spec => []PagesFresh
<1>1. Inv => PagesFresh
  BY DEF Inv, Owing, OwedToPages, PagesFresh
<1> QED
  BY Invariant, <1>1, PTL

=============================================================================
