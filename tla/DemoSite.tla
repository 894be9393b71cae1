------------------------------- MODULE DemoSite -------------------------------
(***************************************************************************)
(* The static demo (demo/mock): handlers that answer the API, 90 ms after  *)
(* it was asked, from a store in the page, which is seeded before the      *)
(* application starts from recorded fixtures and from what sessionStorage  *)
(* keeps of the visitor's edits.                                           *)
(*                                                                         *)
(* Left out: media, themes, settings and the menu, recorded blobs that are *)
(* only passed on, dates other than the order of the feed, search.         *)
(***************************************************************************)
EXTENDS Naturals, Integers, Sequences, FiniteSets, SequencesExt, Relation

CONSTANTS
    MaxPosts,  \* bound: ids of posts
    MaxWrites, \* bound: requests that write
    MaxLoads   \* bound: documents that a visitor goes to

VARIABLES
    demo,      \* the store of this document
    session,   \* sessionStorage
    asked,     \* requests not yet handled: up to two
    resetting, \* resetState has run, and the document not yet gone
    loads, writes,
    spoiled,   \* a request was handled by a document that was being reset
    relaxed    \* the document was seeded with locks that are not the rule's

demoVars == <<demo, session, asked, resetting, loads, writes, spoiled, relaxed>>

Post == 1..MaxPosts
Status == {"draft", "published", "scheduled", "hidden", "page", "trashed"}
Tag == 1..3
Plugin == 1..4

(* Two cover the tags page and one must; of the two others at most one.    *)
Slot(k) == IF k <= 2 THEN {1, 2} ELSE {3, 4}
Required(k) == k <= 2
Presets == {{}, {2}, {1, 2, 3, 4}}

Nothing == [status |-> "none", tags |-> {}]
NoTag == [exists |-> FALSE, hidden |-> FALSE, hidesPosts |-> FALSE]
Plain == [exists |-> TRUE, hidden |-> FALSE, hidesPosts |-> FALSE]

(* The fixtures: a city below a country and below an index of places.      *)
Children(t) == IF t = 2 THEN {} ELSE {2}
FirstParent(t) == IF t = 2 THEN 1 ELSE 0
Recorded ==
    [p \in Post |-> CASE p = 1 -> [status |-> "published", tags |-> {2}]
                      [] p = 2 -> [status |-> "scheduled", tags |-> {1}]
                      [] p = 3 -> [status |-> "published", tags |-> {3}]
                      [] OTHER -> Nothing]
RecordedLocks == [k \in Plugin |-> k = 1]

Store ==
    [authenticated : BOOLEAN,
     posts : [Post -> [status : Status \cup {"none"}, tags : SUBSET Tag]],
     tags : [Tag -> [exists : BOOLEAN, hidden : BOOLEAN, hidesPosts : BOOLEAN]],
     enabled : SUBSET Plugin, locked : [Plugin -> BOOLEAN]]

NoEdits == [kept |-> FALSE, posts |-> [p \in Post |-> Nothing], tags |-> [t \in Tag |-> NoTag]]
Op == {"login", "logout", "create", "put", "status", "retag", "trash", "restore", "purge",
       "hide tag", "hide its posts", "delete tag", "toggle", "preset"}
Request ==
    [op : Op, id : 0..(MaxPosts + 4), status : Status,
     tags : SUBSET (Tag \cup Plugin), on : BOOLEAN]

TypeOK ==
    /\ demo \in Store
    /\ session.authenticated \in BOOLEAN
    /\ session.plugins \in {{0}} \cup SUBSET Plugin
    /\ session.content \in
        [kept : BOOLEAN, posts : [Post -> [status : Status \cup {"none"}, tags : SUBSET Tag]],
         tags : [Tag -> [exists : BOOLEAN, hidden : BOOLEAN, hidesPosts : BOOLEAN]]]
    /\ asked \in Seq(Request) /\ Len(asked) <= 2
    /\ writes \in 0..MaxWrites /\ loads \in 0..MaxLoads
    /\ {resetting, spoiled, relaxed} \subseteq BOOLEAN

(* seed: the visitor's edits, if there are any, in place of the recording; *)
(* the locks are those of the recording.                                   *)
Seed(kept) ==
    [authenticated |-> kept.authenticated,
     posts |-> IF kept.content.kept THEN kept.content.posts ELSE Recorded,
     tags |-> IF kept.content.kept THEN kept.content.tags ELSE [t \in Tag |-> Plain],
     enabled |-> IF kept.plugins = {0} THEN {1, 3} ELSE kept.plugins,
     locked |-> RecordedLocks]

Fresh == [authenticated |-> FALSE, plugins |-> {0}, content |-> NoEdits]

Init ==
    /\ session = Fresh /\ demo = Seed(Fresh)
    /\ asked = <<>>
    /\ resetting = FALSE /\ loads = 0 /\ writes = 0
    /\ spoiled = FALSE /\ relaxed = FALSE

-----------------------------------------------------------------------------
(* What a store shows to a viewer.                                         *)

Rows(s) == {p \in Post : s.posts[p].status # "none"}
Tags(s) == {t \in Tag : s.tags[t].exists}

(* The walk from one tag down; one that was deleted still is a child, and  *)
(* has none.                                                               *)
Spread(s, roots) ==
    LET Down(set) == set \cup UNION {Children(t) : t \in set \cap Tags(s)} IN Down(Down(roots))

(* hiddenSets.                                                             *)
Hidden(s) == Spread(s, {t \in Tags(s) : s.tags[t].hidden})

(* Mutant: the tags below one that hides its posts do not.                 *)
HidesPostsItself(s) == {t \in Tags(s) : s.tags[t].hidesPosts}

HidesPosts(s) == Spread(s, {t \in Tags(s) : s.tags[t].hidesPosts}) \cap Tags(s)

HiddenByTag(s, p) == s.posts[p].tags \cap HidesPosts(s) # {}

PubliclyReadable(s, p) == s.posts[p].status \in {"published", "page"} /\ ~HiddenByTag(s, p)

(* The feed of the owner, or of a guest: who has read it decides.          *)
FeedPosts(s, owner) ==
    {p \in Rows(s) : IF owner THEN s.posts[p].status \in {"published", "hidden"}
                     ELSE PubliclyReadable(s, p)}

ScheduledQueue(s, owner) ==
    IF owner THEN {p \in Rows(s) : s.posts[p].status = "scheduled"} ELSE {}

ReadablePosts(s, owner) == IF owner THEN Rows(s) ELSE {p \in Rows(s) : PubliclyReadable(s, p)}

(* tagSlugClosure: a tag that is there, and what is below it.              *)
Closure(s, t) == IF t \in Tags(s) THEN Spread(s, {t}) \cap Tags(s) ELSE {}

TaggedWith(s, set, tags) == {p \in set : s.posts[p].tags \cap tags # {}}
PostsForTag(s, t, owner) == TaggedWith(s, FeedPosts(s, owner), Closure(s, t))
QueueForTag(s, t, owner) == TaggedWith(s, ScheduledQueue(s, owner), Closure(s, t))

ReadableTags(s, owner) == IF owner THEN Tags(s) ELSE Tags(s) \ Hidden(s)

(* byNewest: the newest have the highest ids.  The queue: oldest first.    *)
Newest(set) == SetToSortSeq(set, >)
Soonest(set) == SetToSortSeq(set, <)

CeilDiv(n, d) == (n + d - 1) \div d
MinPage(queue, per) == IF queue = {} THEN 1 ELSE 1 - CeilDiv(Cardinality(queue), per)
MaxPage(rows, per) == IF rows = {} THEN 1 ELSE CeilDiv(Cardinality(rows), per)

(* feedPage: pages up to 0 are of the queue, the others of the feed.       *)
FeedPage(rows, queue, number, per) ==
    LET page == IF number < MinPage(queue, per) THEN MinPage(queue, per) ELSE number
        Slice(q, start) == {q[k] : k \in DOMAIN q \cap (start + 1)..(start + per)}
    IN  IF page < 1 THEN Slice(Soonest(queue), (-page) * per)
        ELSE Slice(Newest(rows), (page - 1) * per)

(* GET /api/posts/:slug/page.                                              *)
PageOf(rows, p, per) == (Cardinality({q \in rows : q > p}) \div per) + 1

(* GET /api/posts/:id and by slug.                                         *)
Answers(s, p, owner) == p \in Rows(s) /\ (owner \/ PubliclyReadable(s, p))

(* The cloud of a place: its posts, the tags they carry, and the edges     *)
(* between them.                                                           *)
AtlasPosts(s, t, owner) == TaggedWith(s, FeedPosts(s, owner), Closure(s, t))
AtlasTags(s, t, owner) ==
    (UNION {s.posts[p].tags : p \in AtlasPosts(s, t, owner)} \cap ReadableTags(s, owner)) \ {t}
AtlasEdges(s, t, owner) ==
    {e \in AtlasPosts(s, t, owner) \X Tag :
        e[2] \in s.posts[e[1]].tags \cap (AtlasTags(s, t, owner) \cup {t})}

(* The graph: tags with a post below them that the viewer may read.        *)
GraphTags(s, owner) == {t \in ReadableTags(s, owner) : PostsForTag(s, t, owner) # {}}
GraphEdges(s, owner) ==
    {e \in FeedPosts(s, owner) \X GraphTags(s, owner) : e[2] \in s.posts[e[1]].tags}

(* breadcrumbsFor: the first parents, up to one that was deleted.          *)
Breadcrumbs(s, t) == {FirstParent(t)} \cap Tags(s)

(* GET /api/pages/tags/:slug: for a guest a hidden tag does not exist.     *)
TagPage(s, t, owner) == t \in ReadableTags(s, owner)
NavChildren(s, t, owner) ==
    IF owner THEN Children(t) ELSE Children(t) \ Hidden(s)

-----------------------------------------------------------------------------
(* Plugins.                                                                *)

(* relockPlugins: the only enabled member of a required slot.              *)
Relocked(enabled, old) ==
    [k \in Plugin |-> IF Required(k) THEN enabled \cap Slot(k) = {k} ELSE old[k]]

(* applyPluginPreset: an empty required slot gets its default, and each of *)
(* the slots keeps its first member.                                       *)
PresetApplied(list) ==
    LET filled == list \cup (IF list \cap {1, 2} = {} THEN {1} ELSE {})
    IN  {k \in filled : \A j \in filled \cap Slot(k) : k <= j}

Toggled(enabled, k, on) == IF on THEN (enabled \ Slot(k)) \cup {k} ELSE enabled \ {k}

-----------------------------------------------------------------------------
(* The handlers.                                                           *)

(* A document is opened on what sessionStorage keeps.                      *)
Open(kept) ==
    /\ session' = kept /\ demo' = Seed(kept)
    /\ asked' = <<>>
    /\ relaxed' = (Relocked(Seed(kept).enabled, RecordedLocks) # RecordedLocks)

NextId(s) == CHOOSE n \in 1..(MaxPosts + 1) :
    /\ \A p \in Rows(s) : p < n
    /\ n = 1 \/ n - 1 \in Rows(s)

(* What the handler of r makes of the store.                               *)
PostHandled(s, r) ==
    LET found == r.id \in Rows(s)
        Set(p, post) == [s EXCEPT !.posts[p] = post]
    IN  CASE r.op = "create" -> Set(NextId(s), [status |-> r.status, tags |-> r.tags])
          [] r.op = "put" /\ found -> Set(r.id, [status |-> r.status, tags |-> r.tags])
          [] r.op = "status" /\ found -> Set(r.id, [s.posts[r.id] EXCEPT !.status = r.status])
          [] r.op = "retag" /\ found ->
                Set(r.id, [s.posts[r.id] EXCEPT !.tags = r.tags \cap Tags(s)])
          [] r.op = "trash" /\ found -> Set(r.id, [s.posts[r.id] EXCEPT !.status = "trashed"])
          [] r.op = "restore" /\ found -> Set(r.id, [s.posts[r.id] EXCEPT !.status = "draft"])
          [] r.op = "purge" /\ found -> Set(r.id, Nothing)
          [] OTHER -> s

TagHandled(s, r) ==
    CASE r.id \notin Tags(s) -> s
      [] r.op = "hide tag" -> [s EXCEPT !.tags[r.id].hidden = r.on]
      [] r.op = "hide its posts" -> [s EXCEPT !.tags[r.id].hidesPosts = r.on]
      [] r.op = "delete tag" -> [s EXCEPT !.tags[r.id] = NoTag]

PluginsHandled(s, r) ==
    LET on == IF r.op = "toggle" THEN Toggled(s.enabled, r.id, r.on) ELSE PresetApplied(r.tags)
    IN  [s EXCEPT !.enabled = on, !.locked = Relocked(on, s.locked)]

Handled(s, r) ==
    CASE r.op \in {"login", "logout"} -> [s EXCEPT !.authenticated = (r.op = "login")]
      [] r.op \in {"toggle", "preset"} -> PluginsHandled(s, r)
      [] r.op \in {"hide tag", "hide its posts", "delete tag"} -> TagHandled(s, r)
      [] OTHER -> PostHandled(s, r)

(* What the handlers and dispatch leave in sessionStorage.                 *)
Left(s, r) ==
    [authenticated |->
        IF r.op \in {"login", "logout"} THEN s.authenticated ELSE session.authenticated,
     plugins |-> IF r.op \in {"toggle", "preset"} THEN s.enabled ELSE session.plugins,
     content |-> [kept |-> TRUE, posts |-> s.posts, tags |-> s.tags]]

-----------------------------------------------------------------------------
Ask(op, id, status, tags, on) ==
    /\ Len(asked) < 2
    /\ writes < MaxWrites /\ writes' = writes + 1
    /\ asked' = Append(asked, [op |-> op, id |-> id, status |-> status, tags |-> tags, on |-> on])
    /\ UNCHANGED <<demo, session, resetting, loads, spoiled, relaxed>>

(* What a visitor who has logged in can ask for.  The page of the plugins  *)
(* offers no toggle for one that is locked or whose answer is awaited.     *)
Write ==
    \/ Ask("login", 0, "draft", {}, FALSE)
    \/ /\ session.authenticated
       /\ \/ Ask("logout", 0, "draft", {}, FALSE)
          \/ \E status \in Status \ {"trashed"} : \E tags \in {{}, {2}} :
                \/ NextId(demo) + Len(asked) \in Post /\ Ask("create", 0, status, tags, FALSE)
                \/ \E p \in Rows(demo) : Ask("put", p, status, tags, FALSE)
          \/ \E p \in Rows(demo) :
                \/ \E status \in {"published", "hidden"} : Ask("status", p, status, {}, FALSE)
                \/ \E tags \in {{1}, {2, 3}} : Ask("retag", p, "draft", tags, FALSE)
                \/ \E op \in {"trash", "restore", "purge"} : Ask(op, p, "draft", {}, FALSE)
          \/ \E t \in Tags(demo) :
                \/ Ask("delete tag", t, "draft", {}, FALSE)
                \/ \E op \in {"hide tag", "hide its posts"}, on \in BOOLEAN :
                    Ask(op, t, "draft", {}, on)
          \/ \E k \in Plugin, on \in BOOLEAN :
                /\ on # (k \in demo.enabled) /\ (on \/ ~demo.locked[k])
                /\ \A c \in DOMAIN asked : asked[c].op \notin {"toggle", "preset"}
                /\ Ask("toggle", k, "draft", {}, on)
          \/ \E list \in Presets : Ask("preset", 0, "draft", list, FALSE)

(* The handler of the oldest request, and of what it does to the page: a   *)
(* toggled plugin reloads the demo.                                        *)
Handle ==
    /\ asked # <<>>
    /\ LET r == Head(asked)
           s == Handled(demo, r)
           left == Left(s, r)
       IN  IF r.op = "toggle" /\ ~resetting THEN Open([left EXCEPT !.content = NoEdits])
           ELSE /\ demo' = s /\ session' = left
                /\ asked' = Tail(asked)
                /\ UNCHANGED relaxed
    /\ spoiled' = (spoiled \/ resetting)
    /\ UNCHANGED <<resetting, loads, writes>>

(* The document is left for another: a reload drops the edits, and a       *)
(* navigation keeps them.                                                  *)
Load ==
    /\ ~resetting /\ loads < MaxLoads /\ loads' = loads + 1
    /\ \E kept \in {session, [session EXCEPT !.content = NoEdits]} : Open(kept)
    /\ UNCHANGED <<resetting, writes, spoiled>>

(* resetState: a store from the recording; then the document is reloaded.  *)
Reset ==
    /\ ~resetting /\ loads < MaxLoads /\ loads' = loads + 1
    /\ resetting' = TRUE
    /\ session' = Fresh /\ demo' = Seed(Fresh)
    /\ UNCHANGED <<asked, writes, spoiled, relaxed>>

ResetEnds ==
    /\ resetting /\ resetting' = FALSE
    /\ Open([session EXCEPT !.content = NoEdits])
    /\ UNCHANGED <<loads, writes, spoiled>>

Next == Write \/ Handle \/ Load \/ Reset \/ ResetEnds

(***************************************************************************)
(* Properties.                                                             *)
(***************************************************************************)

(* A tag is concealed if it or a tag above it is: along any chain of tags  *)
(* that are there.                                                         *)
Above == TransitiveClosure([t, u \in Tag |-> t \in Children(u)], Tag)
Under(s, t, Flagged(_)) == \E u \in Tags(s) : Flagged(u) /\ (u = t \/ Above[t, u])
Concealed(s, p) ==
    \/ s.posts[p].status \in {"draft", "scheduled", "hidden", "trashed"}
    \/ \E t \in s.posts[p].tags \cap Tags(s) :
        LET Flagged(u) == s.tags[u].hidesPosts IN Under(s, t, Flagged)
ConcealedTag(s, t) == LET Flagged(u) == s.tags[u].hidden IN Under(s, t, Flagged)

(* Whatever a guest asks for names no post that is concealed, and no page, *)
(* graph or cloud leads to a tag that is.                                  *)
NothingLeaks ==
    LET s == demo
    IN  /\ \A p \in Rows(s) : Concealed(s, p) =>
            /\ ~Answers(s, p, FALSE)
            /\ p \notin FeedPosts(s, FALSE) \cup ReadablePosts(s, FALSE)
            /\ \A t \in Tag : p \notin PostsForTag(s, t, FALSE) \cup QueueForTag(s, t, FALSE)
            /\ \A e \in GraphEdges(s, FALSE) : e[1] # p
        /\ \A t \in Tags(s) : ConcealedTag(s, t) =>
            /\ ~TagPage(s, t, FALSE)
            /\ t \notin GraphTags(s, FALSE)
            /\ \A u \in Tags(s) : TagPage(s, u, FALSE) =>
                t \notin AtlasTags(s, u, FALSE) \cup NavChildren(s, u, FALSE) \cup Breadcrumbs(s, u)

(* What a guest is shown the owner is shown too, a post that is a page in  *)
(* itself left aside: the owner's feed does not have it.                   *)
OwnerSeesMore ==
    \A p \in FeedPosts(demo, FALSE) :
        p \in FeedPosts(demo, TRUE) \/ demo.posts[p].status = "page"

(* Every post of a feed and of its queue is on exactly one page, and the   *)
(* page that a post is said to be on shows it.                             *)
PagesPartition ==
    \A owner \in BOOLEAN, per \in 1..2 :
        LET rows == FeedPosts(demo, owner)
            queue == ScheduledQueue(demo, owner)
            pages == MinPage(queue, per)..MaxPage(rows, per)
        IN  /\ \A p \in rows \cup queue :
                Cardinality({n \in pages : p \in FeedPage(rows, queue, n, per)}) = 1
            /\ \A p \in rows : p \in FeedPage(rows, queue, PageOf(rows, p, per), per)

(* An edit is kept for the next document; no reset leaves any, but for a   *)
(* request that the document handles after it.                             *)
EditsAreKept ==
    /\ asked = <<>> =>
        /\ demo.posts = Seed(session).posts /\ demo.tags = Seed(session).tags
        /\ demo.authenticated = session.authenticated
        /\ demo.enabled = Seed(session).enabled
    /\ resetting /\ ~spoiled => session = Fresh /\ demo = Seed(Fresh)

(* A required slot has a plugin and none has two, unless the document was  *)
(* seeded with locks that are not those of the plugins that are enabled.   *)
SlotsHold ==
    ~relaxed =>
        /\ demo.enabled \cap {1, 2} # {}
        /\ \A k \in Plugin : Cardinality(demo.enabled \cap Slot(k)) <= 1

=============================================================================
