--------------------------- MODULE TagHierarchy ---------------------------
(***************************************************************************)
(* The tag hierarchy: the tag_relationships table and the requests that    *)
(* change it (services/tag_hierarchy.go, services/tag_service.go and       *)
(* repository MergeTags).  Handlers run concurrently on a pool of database *)
(* connections.  Adding an edge is a check and then an act: detectCycle    *)
(* walks down from the child with one query per tag, and only afterwards   *)
(* is the edge inserted.                                                   *)
(*                                                                         *)
(* An edge <<p, c>> files c under p.  sort_order, names and flags are left *)
(* out, and so is the graph snapshot that each write drops.                *)
(***************************************************************************)
EXTENDS Naturals, FiniteSets, TLAPS

CONSTANTS
    Tags,         \* tag ids
    Editors,      \* requests that may be in flight at the same time
    NoTag,        \* not a tag
    Merges,       \* whether tags are merged
    MaxRequests,  \* bound: hierarchy requests ever started
    MaxAtOnce,    \* bound: parents or children in one request
    DBFaults      \* whether a query of a request may fail

ASSUME TagsAssumption ==
    /\ NoTag \notin Tags
    /\ Merges \in BOOLEAN
    /\ MaxRequests \in Nat
    /\ MaxAtOnce \in Nat
    /\ DBFaults \in BOOLEAN

VARIABLES
    tags,      \* rows of the tags table
    edges,     \* rows of tag_relationships
    pc,        \* pc[e]: where the request of e stands
    todo,      \* todo[e]: edges the request has still to add
    edge,      \* edge[e]: the edge AddTagRelationship works on
    seen,      \* seen[e]: detectCycle's visited set
    queue,     \* queue[e]: detectCycle's queue
    requests,  \* how many requests were started
    excused    \* history: two additions overlapped, or related tags merged

locals == <<pc, todo, edge, seen, queue>>
vars == <<tags, edges, locals, requests, excused>>

Edge == Tags \X Tags
NoEdge == <<NoTag, NoTag>>

TypeOK ==
    /\ tags \in SUBSET Tags
    /\ edges \in SUBSET (tags \X tags)
    /\ pc \in [Editors -> {"idle", "next", "walk", "insert"}]
    /\ todo \in [Editors -> SUBSET Edge]
    /\ edge \in [Editors -> Edge \cup {NoEdge}]
    /\ seen \in [Editors -> SUBSET Tags]
    /\ queue \in [Editors -> SUBSET Tags]
    /\ requests \in Nat
    /\ excused \in BOOLEAN

Init ==
    /\ tags \in SUBSET Tags
    /\ edges = {}
    /\ pc = [e \in Editors |-> "idle"]
    /\ todo = [e \in Editors |-> {}]
    /\ edge = [e \in Editors |-> NoEdge]
    /\ seen = [e \in Editors |-> {}]
    /\ queue = [e \in Editors |-> {}]
    /\ requests = 0
    /\ excused = FALSE

-----------------------------------------------------------------------------
(* Paths.                                                                  *)

(* Every cycle is a set of tags each of which has a child in the set, and  *)
(* every such finite set contains a cycle.                                 *)
Acyclic(E) ==
    \A S \in SUBSET Tags : S # {} => \E t \in S : \A u \in S : <<t, u>> \notin E

Closed(V, E) == \A t \in V, u \in Tags : <<t, u>> \in E => u \in V

(* b is a or a descendant of a.                                            *)
Reaches(E, a, b) == \A V \in SUBSET Tags : a \in V /\ Closed(V, E) => b \in V

Children(t) == {u \in Tags : <<t, u>> \in edges}

(* A request that has begun to check an edge and has not yet inserted it.  *)
Adding(e) == pc[e] \in {"walk", "insert"}

Others(e) == {d \in Editors \ {e} : Adding(d)}

-----------------------------------------------------------------------------
(* Requests.                                                               *)

Begin(e, cleared, added) ==
    /\ pc[e] = "idle"
    /\ requests < MaxRequests
    /\ requests' = requests + 1
    /\ edges' = edges \ cleared
    /\ todo' = [todo EXCEPT ![e] = added]
    /\ pc' = [pc EXCEPT ![e] = "next"]
    /\ UNCHANGED <<tags, edge, seen, queue, excused>>

(* AddTagRelationship as a request of its own: linkUnderBase and           *)
(* TagPostWithLocation.                                                    *)
BeginAdd(e, p, c) == Begin(e, {}, {<<p, c>>})

(* SetTagParents clears, then adds the edges one by one.  ReorderTag's     *)
(* move to another parent and CreateTag come here too.                     *)
BeginSetParents(e, t, ps) ==
    Begin(e, {x \in edges : x[2] = t}, {<<p, t>> : p \in ps})

BeginSetChildren(e, t, cs) ==
    Begin(e, {x \in edges : x[1] = t}, {<<t, c>> : c \in cs})

CreateTag(e, t) ==
    /\ pc[e] = "idle"
    /\ t \notin tags
    /\ tags' = tags \cup {t}
    /\ UNCHANGED <<edges, locals, requests, excused>>

(* ON DELETE CASCADE takes the edges along.                                *)
DeleteTag(e, t) ==
    /\ pc[e] = "idle"
    /\ t \in tags
    /\ tags' = tags \ {t}
    /\ edges' = {x \in edges : t \notin {x[1], x[2]}}
    /\ UNCHANGED <<locals, requests, excused>>

Renamed(t, w, l) == IF t = l THEN w ELSE t

(* The loser's rows become the winner's, OR IGNORE merging equal rows, and *)
(* the loser goes with whatever still mentions it.                         *)
Merged(w, l) ==
    {x \in {<<Renamed(y[1], w, l), Renamed(y[2], w, l)>> : y \in edges} :
        l \notin {x[1], x[2]}}

Related(a, b) == Reaches(edges, a, b) \/ Reaches(edges, b, a)

(* One transaction, and no check of any kind.  A winner that does not      *)
(* exist fails the foreign keys, or deletes a loser nothing refers to as   *)
(* DeleteTag does.                                                         *)
MergeTags(e, w, l) ==
    /\ pc[e] = "idle"
    /\ Merges
    /\ {w, l} \subseteq tags
    /\ tags' = tags \ {l}
    /\ edges' = Merged(w, l)
    /\ excused' = (excused \/ (w # l /\ Related(w, l)) \/ Others(e) # {})
    /\ UNCHANGED <<locals, requests>>

-----------------------------------------------------------------------------
(* AddTagRelationship, for the next edge of the request.                   *)

Stop(e) ==
    /\ pc' = [pc EXCEPT ![e] = "idle"]
    /\ todo' = [todo EXCEPT ![e] = {}]
    /\ edge' = [edge EXCEPT ![e] = NoEdge]
    /\ seen' = [seen EXCEPT ![e] = {}]
    /\ queue' = [queue EXCEPT ![e] = {}]

(* detectCycle begins: the child must exist.                               *)
NextEdge(e, x) ==
    /\ pc[e] = "next"
    /\ x \in todo[e]
    /\ x[2] \in tags
    /\ pc' = [pc EXCEPT ![e] = "walk"]
    /\ todo' = [todo EXCEPT ![e] = @ \ {x}]
    /\ edge' = [edge EXCEPT ![e] = x]
    /\ seen' = [seen EXCEPT ![e] = {x[2]}]
    /\ queue' = [queue EXCEPT ![e] = {x[2]}]
    /\ UNCHANGED <<tags, edges, requests, excused>>

(* Mutant: the walk has no visited set.                                    *)
UnseenAll(e, t) == Children(t)

(* Mutant: the walk stops at the direct children.                          *)
UnseenDirect(e, t) == IF t = edge[e][2] THEN Children(t) \ seen[e] ELSE {}

(* The children the walk queues.                                           *)
Unseen(e, t) == Children(t) \ seen[e]

(* One turn of detectCycle's loop.  The children come back in no order in  *)
(* particular, so neither does the queue.                                  *)
Walk(e, t) ==
    /\ pc[e] = "walk"
    /\ t \in queue[e]
    /\ t # edge[e][1]
    /\ seen' = [seen EXCEPT ![e] = @ \cup Children(t)]
    /\ queue' = [queue EXCEPT ![e] = (@ \ {t}) \cup Unseen(e, t)]
    /\ UNCHANGED <<tags, edges, pc, todo, edge, requests, excused>>

WalkEnds(e) ==
    /\ pc[e] = "walk"
    /\ queue[e] = {}
    /\ pc' = [pc EXCEPT ![e] = "insert"]
    /\ UNCHANGED <<tags, edges, todo, edge, seen, queue, requests, excused>>

(* Mutant: foreign keys are off.                                           *)
BothExistUnchecked(e) == TRUE

(* REFERENCES tags(id), with foreign_keys on.                              *)
BothExist(e) == {edge[e][1], edge[e][2]} \subseteq tags

(* INSERT OR IGNORE, which the foreign keys refuse for a missing tag.      *)
Insert(e) ==
    /\ pc[e] = "insert"
    /\ BothExist(e)
    /\ edges' = edges \cup {edge[e]}
    /\ pc' = [pc EXCEPT ![e] = "next"]
    /\ edge' = [edge EXCEPT ![e] = NoEdge]
    /\ seen' = [seen EXCEPT ![e] = {}]
    /\ queue' = [queue EXCEPT ![e] = {}]
    /\ excused' = (excused \/ Others(e) # {})
    /\ UNCHANGED <<tags, todo, requests>>

Done(e) ==
    /\ pc[e] = "next"
    /\ todo[e] = {}
    /\ Stop(e)
    /\ UNCHANGED <<tags, edges, requests, excused>>

(* The reasons for which a request ends early: what it cleared and added   *)
(* so far stays as it is.                                                  *)
Refused(e) == pc[e] = "walk" /\ edge[e][1] \in queue[e]
MissingChild(e) == pc[e] = "next" /\ \E x \in todo[e] : x[2] \notin tags
MissingTag(e) == pc[e] = "insert" /\ ~BothExist(e)
Fault(e) == DBFaults /\ pc[e] # "idle"

Fail(e) ==
    /\ Refused(e) \/ MissingChild(e) \/ MissingTag(e) \/ Fault(e)
    /\ Stop(e)
    /\ UNCHANGED <<tags, edges, requests, excused>>

-----------------------------------------------------------------------------

Few == {S \in SUBSET Tags : Cardinality(S) <= MaxAtOnce}

Request(e) ==
    \/ \E t \in Tags : CreateTag(e, t) \/ DeleteTag(e, t)
    \/ \E w, l \in Tags : MergeTags(e, w, l)
    \/ \E p, c \in Tags : BeginAdd(e, p, c)
    \/ \E t \in tags, S \in Few : BeginSetParents(e, t, S) \/ BeginSetChildren(e, t, S)

Advance(e) ==
    \/ \E x \in todo[e] : NextEdge(e, x)
    \/ \E t \in queue[e] : Walk(e, t)
    \/ WalkEnds(e)
    \/ Insert(e)
    \/ Done(e)
    \/ Fail(e)

Next == \E e \in Editors : Request(e) \/ Advance(e)

Spec == Init /\ [][Next]_vars

(* A handler never waits for another request.                              *)
LiveSpec == Spec /\ \A e \in Editors : WF_vars(Advance(e))

-----------------------------------------------------------------------------
(* Properties.                                                             *)

(* The hierarchy stays a DAG through additions, replacements, deletions    *)
(* and failures, however they interleave, as long as no addition or merge  *)
(* lands between another addition's check and its insert, and no tag is    *)
(* merged with one of its own descendants or ancestors.                    *)
AcyclicUnlessExcused == ~excused => Acyclic(edges)

(* Every request ends, on a hierarchy that has cycles too and while others *)
(* keep changing it: detectCycle's visited set bounds the walk.            *)
RequestsEnd == \A e \in Editors : pc[e] # "idle" ~> pc[e] = "idle"

(* docs/features/tag-system.md, "Cycle rejection at write time", and       *)
(* docs/features.md, "Tags form a directed acyclic graph".                 *)
AlwaysAcyclic == Acyclic(edges)

-----------------------------------------------------------------------------
(***************************************************************************)
(* Proofs: the hierarchy is a DAG, for every number of tags and requests,  *)
(* as long as no two additions overlap and no related tags are merged.     *)
(***************************************************************************)

(***************************************************************************)
(* Graphs.  A cycle is a non-empty set whose members all have a child in   *)
(* the set, so each lemma turns such a set for the new edges into one for  *)
(* the old edges.                                                          *)
(***************************************************************************)

(* Removing edges makes no cycle.                                          *)
LEMMA FewerEdges ==
    ASSUME NEW E, NEW F, E \subseteq F, Acyclic(F)
    PROVE  Acyclic(E)
BY DEF Acyclic

(* detectCycle's argument: V is what the walk from c has seen, p was not   *)
(* among it.                                                               *)
LEMMA AddingKeepsAcyclic ==
    ASSUME NEW E, NEW p \in Tags, NEW c \in Tags, NEW V \in SUBSET Tags,
           Closed(V, E), c \in V, p \notin V, Acyclic(E)
    PROVE  Acyclic(E \cup {<<p, c>>})
<1> DEFINE F == E \cup {<<p, c>>}
<1> SUFFICES ASSUME NEW S \in SUBSET Tags, S # {},
                    \A t \in S : \E u \in S : <<t, u>> \in F
             PROVE  FALSE
    BY DEF Acyclic
<1>1. CASE c \in S
    <2> DEFINE T == S \cap V
    <2>1. \A t \in T : \E u \in T : <<t, u>> \in E
        <3> SUFFICES ASSUME NEW t \in T PROVE \E u \in T : <<t, u>> \in E
            OBVIOUS
        <3>1. PICK u \in S : <<t, u>> \in F
            OBVIOUS
        <3>2. <<t, u>> \in E
            BY <3>1
        <3>3. u \in V
            BY <3>2 DEF Closed
        <3> QED BY <3>2, <3>3
    <2>2. T # {} /\ T \in SUBSET Tags
        BY <1>1
    <2> QED BY <2>1, <2>2 DEF Acyclic
<1>2. CASE c \notin S
    <2>1. \A t \in S : \E u \in S : <<t, u>> \in E
        BY <1>2
    <2> QED BY <2>1 DEF Acyclic
<1> QED BY <1>1, <1>2

(* The merge of l into w makes an edge from t to u out of an old one.      *)
Carried(w, l, t, u) ==
    /\ t # l /\ u # l
    /\ \E a, b \in Tags : /\ <<a, b>> \in edges
                          /\ a = t \/ (a = l /\ t = w)
                          /\ b = u \/ (b = l /\ u = w)

LEMMA MergedEdges ==
    ASSUME edges \subseteq Edge, NEW w \in Tags, NEW l \in Tags,
           NEW t, NEW u, <<t, u>> \in Merged(w, l)
    PROVE  Carried(w, l, t, u)
<1>1. PICK y \in edges : <<t, u>> = <<Renamed(y[1], w, l), Renamed(y[2], w, l)>>
    BY DEF Merged
<1>2. y[1] \in Tags /\ y[2] \in Tags /\ y = <<y[1], y[2]>>
    BY DEF Edge
<1>3. l \notin {<<t, u>>[1], <<t, u>>[2]}
    BY DEF Merged
<1> QED BY <1>1, <1>2, <1>3 DEF Renamed, Carried

(* Merging a tag with itself only deletes.                                 *)
LEMMA SelfMerge ==
    ASSUME edges \subseteq Edge, NEW w \in Tags
    PROVE  Merged(w, w) \subseteq edges
<1> SUFFICES ASSUME NEW y \in edges,
                    NEW x, x = <<Renamed(y[1], w, w), Renamed(y[2], w, w)>>
             PROVE  x \in edges
    BY DEF Merged
<1>1. y = <<y[1], y[2]>>
    BY DEF Edge
<1> QED BY <1>1 DEF Renamed

(* Merging tags neither of which descends from the other makes no cycle: V *)
(* is closed and separates the winner from the loser, W the other way      *)
(* round.                                                                  *)
LEMMA MergingKeepsAcyclic ==
    ASSUME edges \subseteq Edge, NEW w \in Tags, NEW l \in Tags, w # l,
           ~Related(w, l), Acyclic(edges)
    PROVE  Acyclic(Merged(w, l))
<1>1. PICK V \in SUBSET Tags : w \in V /\ l \notin V /\ Closed(V, edges)
    BY DEF Related, Reaches
<1>2. PICK W \in SUBSET Tags : l \in W /\ w \notin W /\ Closed(W, edges)
    BY DEF Related, Reaches
<1> SUFFICES ASSUME NEW S \in SUBSET Tags, S # {},
                    \A t \in S : \E u \in S : <<t, u>> \in Merged(w, l)
             PROVE  FALSE
    BY DEF Acyclic
<1>3. \A t \in S : \E u \in S : Carried(w, l, t, u)
    BY MergedEdges
<1>4. l \notin S
    BY <1>3 DEF Carried
<1>5. CASE w \notin S
    <2>1. ASSUME NEW t \in S PROVE \E u \in S : <<t, u>> \in edges
        <3>1. PICK u \in S : Carried(w, l, t, u)
            BY <1>3
        <3> QED BY <1>5, <3>1 DEF Carried
    <2> QED BY <2>1 DEF Acyclic
<1>6. CASE w \in S /\ \E u \in S : <<w, u>> \in edges
    <2> DEFINE T == S \cap V
    <2>1. ASSUME NEW t \in T PROVE \E u \in T : <<t, u>> \in edges
        <3>1. CASE t = w
            BY <1>1, <1>6, <3>1 DEF Closed
        <3>2. CASE t # w
            <4>1. PICK u \in S, b \in Tags :
                        <<t, b>> \in edges /\ (b = u \/ b = l)
                BY <1>3, <3>2 DEF Carried
            <4>2. b \in V
                BY <1>1, <4>1 DEF Closed
            <4> QED BY <1>1, <4>1, <4>2
        <3> QED BY <3>1, <3>2
    <2>2. T # {} /\ T \in SUBSET Tags
        BY <1>1, <1>6
    <2> QED BY <2>1, <2>2 DEF Acyclic
<1>7. CASE w \in S /\ ~\E u \in S : <<w, u>> \in edges
    <2> DEFINE T == ((S \cap W) \ {w}) \cup {l}
    <2>1. PICK x \in S : <<l, x>> \in edges \/ (x = w /\ <<l, l>> \in edges)
                                            \/ (x = w /\ <<w, l>> \in edges)
        BY <1>3, <1>7 DEF Carried
    <2>2. <<w, l>> \notin edges
        BY <1>1 DEF Closed
    <2>3. <<l, x>> \in edges \/ <<l, l>> \in edges
        BY <2>1, <2>2
    <2>4. \E u \in T : <<l, u>> \in edges
        BY <1>2, <2>3 DEF Closed
    <2>5. ASSUME NEW t \in S \cap W, t # w PROVE \E u \in T : <<t, u>> \in edges
        <3>1. PICK u \in S, b \in Tags :
                    <<t, b>> \in edges /\ (b = u \/ b = l)
            BY <1>3, <2>5 DEF Carried
        <3>2. b \in W
            BY <1>2, <2>5, <3>1 DEF Closed
        <3> QED BY <1>2, <3>1, <3>2
    <2>6. \A t \in T : \E u \in T : <<t, u>> \in edges
        BY <2>4, <2>5
    <2>7. T # {} /\ T \in SUBSET Tags
        BY <1>2
    <2> QED BY <2>6, <2>7 DEF Acyclic
<1> QED BY <1>5, <1>6, <1>7

(***************************************************************************)
(* Types.                                                                  *)
(***************************************************************************)

LEMMA StopTypes ==
    ASSUME TypeOK, NEW e \in Editors, Stop(e),
           UNCHANGED <<tags, edges, requests, excused>>
    PROVE  TypeOK'
BY DEF TypeOK, Stop, Edge, NoEdge

LEMMA TypeStep == TypeOK /\ [Next]_vars => TypeOK'
<1> SUFFICES ASSUME TypeOK, [Next]_vars PROVE TypeOK'
    OBVIOUS
<1> USE DEF TypeOK, Edge, NoEdge
<1>1. ASSUME NEW e \in Editors, NEW C \in SUBSET edges, NEW A \in SUBSET Edge,
             Begin(e, C, A)
      PROVE  TypeOK'
    BY <1>1 DEF Begin
<1>2. ASSUME NEW e \in Editors, Request(e) PROVE TypeOK'
    <2>1. ASSUME NEW t \in Tags, CreateTag(e, t) PROVE TypeOK'
        BY <2>1 DEF CreateTag, locals
    <2>2. ASSUME NEW t \in Tags, DeleteTag(e, t) PROVE TypeOK'
        <3>1. edges' \subseteq (tags' \X tags')
            BY <2>2 DEF DeleteTag
        <3> QED BY <2>2, <3>1 DEF DeleteTag, locals
    <2>3. ASSUME NEW w \in Tags, NEW l \in Tags, MergeTags(e, w, l) PROVE TypeOK'
        <3>1. edges' \subseteq (tags' \X tags')
            <4> SUFFICES ASSUME NEW y \in edges,
                                NEW x, x = <<Renamed(y[1], w, l), Renamed(y[2], w, l)>>,
                                l \notin {x[1], x[2]}
                         PROVE  x \in tags' \X tags'
                BY <2>3 DEF MergeTags, Merged
            <4>1. y[1] \in tags /\ y[2] \in tags
                OBVIOUS
            <4> QED BY <2>3, <4>1 DEF MergeTags, Renamed
        <3> QED BY <2>3, <3>1 DEF MergeTags, locals
    <2>4. ASSUME NEW p \in Tags, NEW c \in Tags, BeginAdd(e, p, c) PROVE TypeOK'
        <3>1. {} \in SUBSET edges /\ {<<p, c>>} \in SUBSET Edge
            OBVIOUS
        <3> QED BY <1>1, <2>4, <3>1 DEF BeginAdd
    <2>5. ASSUME NEW t \in tags, NEW S \in Few,
                 BeginSetParents(e, t, S) \/ BeginSetChildren(e, t, S)
          PROVE  TypeOK'
        <3>1. t \in Tags /\ S \subseteq Tags
            BY DEF Few
        <3>2. /\ {<<p, t>> : p \in S} \in SUBSET Edge
              /\ {<<t, c>> : c \in S} \in SUBSET Edge
            BY <3>1
        <3> QED BY <1>1, <2>5, <3>2 DEF BeginSetParents, BeginSetChildren
    <2> QED BY <1>2, <2>1, <2>2, <2>3, <2>4, <2>5 DEF Request
<1>3. ASSUME NEW e \in Editors, Advance(e) PROVE TypeOK'
    <2>1. ASSUME NEW x \in todo[e], NextEdge(e, x) PROVE TypeOK'
        <3>1. x \in Edge /\ x[2] \in Tags
            OBVIOUS
        <3> QED BY <2>1, <3>1 DEF NextEdge
    <2>2. ASSUME NEW t \in queue[e], Walk(e, t) PROVE TypeOK'
        BY <2>2 DEF Walk, Unseen, Children
    <2>3. CASE WalkEnds(e)
        BY <2>3 DEF WalkEnds
    <2>4. CASE Insert(e)
        <3>1. edge[e] \in tags \X tags
            <4>1. edge[e] = <<edge[e][1], edge[e][2]>>
                OBVIOUS
            <4> QED BY <2>4, <4>1 DEF Insert, BothExist
        <3> QED BY <2>4, <3>1 DEF Insert
    <2>5. CASE Done(e)
        BY <2>5, StopTypes DEF Done
    <2>6. CASE Fail(e)
        BY <2>6, StopTypes DEF Fail
    <2> QED BY <1>3, <2>1, <2>2, <2>3, <2>4, <2>5, <2>6 DEF Advance
<1>4. CASE UNCHANGED vars
    BY <1>4 DEF vars, locals
<1> QED BY <1>2, <1>3, <1>4 DEF Next

(* TypeOK holds in every reachable state; that every edge joins two        *)
(* existing tags is part of it.                                            *)
THEOREM TypeCorrect == Spec => []TypeOK
<1>1. Init => TypeOK
    <2> SUFFICES ASSUME Init PROVE TypeOK
        OBVIOUS
    <2>1. tags \in SUBSET Tags /\ edges \in SUBSET (tags \X tags)
        BY DEF Init
    <2>2. edge \in [Editors -> Edge \cup {NoEdge}]
        BY DEF Init
    <2> QED BY <2>1, <2>2 DEF Init, TypeOK
<1> QED BY <1>1, TypeStep, PTL DEF Spec

(***************************************************************************)
(* The walk.  What detectCycle has seen and taken off its queue has all    *)
(* its children among the seen, and is not the parent looked for.  Others  *)
(* may delete edges under the walk; only an addition or a merge can break  *)
(* this, and then it is excused.                                           *)
(***************************************************************************)

WalkSound(e) ==
    /\ edge[e] \in Edge
    /\ edge[e][2] \in seen[e]
    /\ \A t \in seen[e] \ queue[e] : Children(t) \subseteq seen[e] /\ t # edge[e][1]
    /\ pc[e] = "insert" => queue[e] = {}

Inductive ==
    ~excused => Acyclic(edges) /\ \A e \in Editors : Adding(e) => WalkSound(e)

(* A request whose own variables stay as they are keeps its walk sound     *)
(* while edges are only removed.                                           *)
LEMMA RemovingKeepsWalks ==
    ASSUME NEW e \in Editors, Adding(e) => WalkSound(e),
           edges' \subseteq edges,
           pc'[e] = pc[e], edge'[e] = edge[e], seen'[e] = seen[e], queue'[e] = queue[e]
    PROVE  Adding(e)' => WalkSound(e)'
BY DEF Adding, WalkSound, Children

LEMMA InductiveStep == TypeOK /\ Inductive /\ [Next]_vars => Inductive'
<1> SUFFICES ASSUME TypeOK, Inductive, [Next]_vars, ~excused'
             PROVE  Acyclic(edges)' /\ \A d \in Editors : Adding(d)' => WalkSound(d)'
    BY DEF Inductive
<1>0. edges \subseteq Edge
    BY DEF TypeOK, Edge
<1>1. ASSUME ~excused, edges' \subseteq edges, NEW e \in Editors, ~Adding(e)',
             \A d \in Editors \ {e} : /\ pc'[d] = pc[d] /\ edge'[d] = edge[d]
                                      /\ seen'[d] = seen[d] /\ queue'[d] = queue[d]
      PROVE  Acyclic(edges)' /\ \A d \in Editors : Adding(d)' => WalkSound(d)'
    <2>1. Acyclic(edges')
        BY <1>1, FewerEdges DEF Inductive
    <2>2. ASSUME NEW d \in Editors PROVE Adding(d)' => WalkSound(d)'
        <3>1. CASE d = e
            BY <1>1, <3>1
        <3>2. CASE d # e
            BY <1>1, <3>2, RemovingKeepsWalks DEF Inductive
        <3> QED BY <3>1, <3>2
    <2> QED BY <2>1, <2>2 DEF Acyclic
<1>2. ASSUME NEW e \in Editors, Request(e)
      PROVE  Acyclic(edges)' /\ \A d \in Editors : Adding(d)' => WalkSound(d)'
    <2>1. ASSUME NEW t \in Tags, CreateTag(e, t)
          PROVE  Acyclic(edges)' /\ \A d \in Editors : Adding(d)' => WalkSound(d)'
        BY <1>1, <2>1 DEF CreateTag, locals, Adding
    <2>2. ASSUME NEW t \in Tags, DeleteTag(e, t)
          PROVE  Acyclic(edges)' /\ \A d \in Editors : Adding(d)' => WalkSound(d)'
        BY <1>1, <2>2 DEF DeleteTag, locals, Adding
    <2>3. ASSUME NEW w \in Tags, NEW l \in Tags, MergeTags(e, w, l)
          PROVE  Acyclic(edges)' /\ \A d \in Editors : Adding(d)' => WalkSound(d)'
        <3>1. /\ ~excused /\ (w = l \/ ~Related(w, l)) /\ Others(e) = {}
              /\ pc[e] = "idle" /\ edges' = Merged(w, l) /\ UNCHANGED locals
            BY <2>3 DEF MergeTags
        <3>2. Acyclic(Merged(w, l))
            <4>1. Acyclic(edges)
                BY <3>1 DEF Inductive
            <4>2. CASE w = l
                BY <1>0, <4>1, <4>2, SelfMerge, FewerEdges
            <4>3. CASE w # l
                BY <1>0, <3>1, <4>1, <4>3, MergingKeepsAcyclic
            <4> QED BY <4>2, <4>3
        <3>3. ASSUME NEW d \in Editors PROVE ~Adding(d)'
            BY <3>1 DEF Others, Adding, locals
        <3> QED BY <3>1, <3>2, <3>3 DEF Acyclic
    <2>4. ASSUME NEW C, NEW A, Begin(e, C, A)
          PROVE  Acyclic(edges)' /\ \A d \in Editors : Adding(d)' => WalkSound(d)'
        <3>1. ~excused /\ edges' \subseteq edges /\ ~Adding(e)'
            BY <2>4 DEF Begin, Adding, TypeOK
        <3>2. \A d \in Editors \ {e} : /\ pc'[d] = pc[d] /\ edge'[d] = edge[d]
                                       /\ seen'[d] = seen[d] /\ queue'[d] = queue[d]
            BY <2>4 DEF Begin, TypeOK
        <3> QED BY <1>1, <3>1, <3>2
    <2> QED BY <1>2, <2>1, <2>2, <2>3, <2>4
            DEF Request, BeginAdd, BeginSetParents, BeginSetChildren
<1>3. ASSUME NEW e \in Editors, NEW x \in todo[e], NextEdge(e, x)
      PROVE  Acyclic(edges)' /\ \A d \in Editors : Adding(d)' => WalkSound(d)'
    <2>1. ~excused /\ edges' = edges
        BY <1>3 DEF NextEdge
    <2>2. WalkSound(e)'
        BY <1>3 DEF NextEdge, WalkSound, TypeOK, Edge
    <2>3. ASSUME NEW d \in Editors, d # e PROVE Adding(d)' => WalkSound(d)'
        BY <1>3, <2>1, <2>3, RemovingKeepsWalks DEF NextEdge, TypeOK, Inductive
    <2> QED BY <2>1, <2>2, <2>3 DEF Inductive, Acyclic
<1>4. ASSUME NEW e \in Editors, NEW t \in queue[e], Walk(e, t)
      PROVE  Acyclic(edges)' /\ \A d \in Editors : Adding(d)' => WalkSound(d)'
    <2>1. ~excused /\ edges' = edges /\ pc' = pc /\ edge' = edge
        BY <1>4 DEF Walk
    <2>2. WalkSound(e)
        BY <1>4, <2>1 DEF Inductive, Walk, Adding
    <2>3. /\ seen'[e] = seen[e] \cup Children(t)
          /\ queue'[e] = (queue[e] \ {t}) \cup (Children(t) \ seen[e])
          /\ t # edge[e][1] /\ pc[e] = "walk"
        BY <1>4 DEF Walk, TypeOK, Unseen
    <2>4. \A u \in Tags : Children(u)' = Children(u)
        BY <2>1 DEF Children
    <2>5. ASSUME NEW u \in seen'[e] \ queue'[e]
          PROVE  Children(u)' \subseteq seen'[e] /\ u # edge[e][1]
        <3>0. u \in Tags
            BY <1>4, <2>3 DEF TypeOK, Children
        <3>1. CASE u = t
            BY <2>3, <2>4, <3>0, <3>1
        <3>2. CASE u # t
            <4>1. u \in seen[e] \ queue[e]
                BY <2>3, <2>5, <3>2
            <4> QED BY <2>2, <2>3, <2>4, <3>0, <4>1 DEF WalkSound
        <3> QED BY <3>1, <3>2
    <2>6. WalkSound(e)'
        BY <2>1, <2>2, <2>3, <2>5 DEF WalkSound
    <2>7. ASSUME NEW d \in Editors, d # e PROVE Adding(d)' => WalkSound(d)'
        BY <1>4, <2>1, <2>7, RemovingKeepsWalks DEF Walk, TypeOK, Inductive
    <2> QED BY <2>1, <2>6, <2>7 DEF Inductive, Acyclic
<1>5. ASSUME NEW e \in Editors, WalkEnds(e)
      PROVE  Acyclic(edges)' /\ \A d \in Editors : Adding(d)' => WalkSound(d)'
    <2>1. ~excused /\ edges' = edges /\ edge' = edge /\ seen' = seen /\ queue' = queue
        BY <1>5 DEF WalkEnds
    <2>2. WalkSound(e)'
        BY <1>5, <2>1 DEF WalkEnds, WalkSound, Inductive, Adding, Children, TypeOK
    <2>3. ASSUME NEW d \in Editors, d # e PROVE Adding(d)' => WalkSound(d)'
        BY <1>5, <2>1, <2>3, RemovingKeepsWalks DEF WalkEnds, TypeOK, Inductive
    <2> QED BY <2>1, <2>2, <2>3 DEF Inductive, Acyclic
<1>6. ASSUME NEW e \in Editors, Insert(e)
      PROVE  Acyclic(edges)' /\ \A d \in Editors : Adding(d)' => WalkSound(d)'
    <2>1. /\ ~excused /\ Others(e) = {} /\ pc[e] = "insert"
          /\ edges' = edges \cup {edge[e]}
        BY <1>6 DEF Insert
    <2>2. Acyclic(edges) /\ WalkSound(e)
        BY <1>6, <2>1 DEF Inductive, Adding
    <2>3. edge[e] = <<edge[e][1], edge[e][2]>> /\ edge[e][1] \in Tags /\ edge[e][2] \in Tags
        BY <2>2 DEF WalkSound, Edge
    <2>4. Closed(seen[e], edges) /\ edge[e][1] \notin seen[e] /\ edge[e][2] \in seen[e]
        BY <2>1, <2>2 DEF WalkSound, Closed, Children
    <2>5. Acyclic(edges \cup {<<edge[e][1], edge[e][2]>>})
        BY <2>2, <2>3, <2>4, AddingKeepsAcyclic DEF TypeOK
    <2>6. Acyclic(edges')
        BY <2>1, <2>3, <2>5
    <2>7. ASSUME NEW d \in Editors PROVE ~Adding(d)'
        BY <1>6, <2>1 DEF Insert, Others, Adding, TypeOK
    <2> QED BY <2>6, <2>7 DEF Acyclic
<1>7. ASSUME NEW e \in Editors, Done(e) \/ Fail(e)
      PROVE  Acyclic(edges)' /\ \A d \in Editors : Adding(d)' => WalkSound(d)'
    <2>1. ~excused /\ edges' = edges /\ Stop(e)
        BY <1>7 DEF Done, Fail
    <2>2. ~Adding(e)'
        BY <2>1 DEF Stop, Adding, TypeOK
    <2>3. \A d \in Editors \ {e} : /\ pc'[d] = pc[d] /\ edge'[d] = edge[d]
                                   /\ seen'[d] = seen[d] /\ queue'[d] = queue[d]
        BY <2>1 DEF Stop, TypeOK
    <2> QED BY <1>1, <2>1, <2>2, <2>3
<1>8. CASE UNCHANGED vars
    BY <1>8 DEF vars, locals, Inductive, Acyclic, Adding, WalkSound, Children
<1> QED BY <1>2, <1>3, <1>4, <1>5, <1>6, <1>7, <1>8 DEF Next, Advance

(* The hierarchy stays acyclic unless two additions overlapped or related  *)
(* tags were merged.                                                       *)
THEOREM HierarchyIsAcyclic == Spec => []AcyclicUnlessExcused
<1>1. Init => Inductive
    BY DEF Init, Inductive, Acyclic, Adding
<1>2. Inductive => AcyclicUnlessExcused
    BY DEF Inductive, AcyclicUnlessExcused
<1> QED BY <1>1, <1>2, InductiveStep, TypeCorrect, PTL DEF Spec

=============================================================================
