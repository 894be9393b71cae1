--------------------------- MODULE RevelioSwitch ---------------------------
(***************************************************************************)
(* The owner's switch between the site as it is and the site as a guest    *)
(* sees it (plugins/public-footer, utils/revelio.ts), with what has to     *)
(* change with it: the menu (api/nav.ts), the read cache (api/pages.ts,    *)
(* api/posts.ts) and the page, which the router builds anew.  A request is *)
(* answered under the scope in which it was sent.  The switch itself is in *)
(* localStorage, where another tab may change it.                          *)
(***************************************************************************)
EXTENDS Naturals, Sequences, SequencesExt, FiniteSets

CONSTANTS
    MaxScopeActs  \* bound: what the owner does, and requests that fail

VARIABLES
    revealing,  \* the switch
    at,         \* the page of the address
    site,       \* what the page shows and which read it waits for
    fetching,      \* fetching of pages under way: [id, at, scope]
    readCache,  \* for each page the cached read, pending or answered
    menuScope,  \* the scope of the menu that was published
    generation, \* _generation of api/nav.ts
    inflight,   \* the generation of _inflight, or 0
    navReads,      \* requests for the menu under way: [gen, scope]
    switches,   \* _toggleRevelio's that await something, oldest first
    scopeActs,
    (* history *)
    meantAt,    \* where the owner wants to be
    mixed       \* why what is seen may be of two minds

scopeVars == <<revealing, at, site, fetching, readCache, menuScope, generation, inflight, navReads,
               switches, scopeActs, meantAt, mixed>>

(* A page of the queue of scheduled posts, the newest page of the feed, and *)
(* another list.                                                            *)
Page == {"queue", "feed", "tag"}
Scope == {"all", "guest"}
None == [id |-> 0, scope |-> "none"]
Cause == {"elsewhere", "menuFailed", "wandered", "overlapped"}
Id == 0..(2 * MaxScopeActs + 2)

TypeOK ==
    /\ revealing \in BOOLEAN /\ at \in Page
    /\ site \in [shown : Scope \cup {"none", "error"}, waits : Id]
    /\ fetching \subseteq [id : Id, at : Page, scope : Scope]
    /\ readCache \in [Page -> [id : Id, scope : Scope \cup {"none"}]]
    /\ menuScope \in Scope \cup {"none"}
    /\ {generation, inflight} \subseteq Id
    /\ navReads \subseteq [gen : Id, scope : Scope]
    /\ switches \in Seq([to : Page, awaits : {"chunks", "menu"}, gen : Id])
    /\ scopeActs \in 0..MaxScopeActs /\ meantAt \in Page /\ mixed \subseteq Cause

(* revelioHeaders: the scope of a request that is sent now.                *)
Sent == IF revealing THEN "all" ELSE "guest"

(* _cachedPage: page p is shown from cache c, or waits for a read of it,   *)
(* which may be one that is under way already.                             *)
Shows(p, c) ==
    LET next == 1 + Cardinality(fetching)
        id == CHOOSE i \in 1..next : \A r \in fetching : r.id # i
    IN  IF c[p] = None
        THEN /\ fetching' = fetching \cup {[id |-> id, at |-> p, scope |-> Sent]}
             /\ readCache' = [c EXCEPT ![p] = [id |-> id, scope |-> Sent]]
             /\ site' = [shown |-> "none", waits |-> id]
        ELSE /\ site' = IF c[p].id = 0 THEN [shown |-> c[p].scope, waits |-> 0]
                        ELSE [shown |-> "none", waits |-> c[p].id]
             /\ readCache' = c /\ UNCHANGED fetching

Asked(gen) ==
    /\ generation' = gen /\ inflight' = gen
    /\ navReads' = navReads \cup {[gen |-> gen, scope |-> Sent]}

(* loadNav without force, from the menu of a page that is built.           *)
MenuWanted ==
    IF inflight # 0 \/ menuScope # "none" THEN UNCHANGED <<generation, inflight, navReads>>
    ELSE Asked(generation + 1)

Act == scopeActs < MaxScopeActs /\ scopeActs' = scopeActs + 1

Empty == [p \in Page |-> None]

Init ==
    /\ revealing \in BOOLEAN /\ at \in Page /\ meantAt = at
    /\ LET scope == IF revealing THEN "all" ELSE "guest"
       IN  /\ site = [shown |-> "none", waits |-> 1]
           /\ fetching = {[id |-> 1, at |-> at, scope |-> scope]}
           /\ readCache = [Empty EXCEPT ![at] = [id |-> 1, scope |-> scope]]
           /\ navReads = {[gen |-> 1, scope |-> scope]}
    /\ menuScope = "none" /\ generation = 1 /\ inflight = 1
    /\ switches = <<>> /\ scopeActs = 0 /\ mixed = {}

(* A link to a page of another class.                                      *)
Follow(p) ==
    /\ p # at /\ {p, at} # {"queue", "feed"} /\ Act
    /\ at' = p /\ meantAt' = p /\ Shows(p, readCache) /\ MenuWanted
    /\ mixed' = IF switches = <<>> THEN mixed ELSE mixed \cup {"wandered"}
    /\ UNCHANGED <<revealing, menuScope, switches>>

(* A neighbour of the page is read ahead, or its read grows old.           *)
Preload(p) ==
    /\ p # at /\ readCache[p] = None /\ Act
    /\ Shows(p, readCache) /\ site' = site
    /\ UNCHANGED <<revealing, at, menuScope, generation, inflight, navReads, switches, meantAt,
                   mixed>>

Expire(p) ==
    /\ readCache[p] # None /\ Act /\ readCache' = [readCache EXCEPT ![p] = None]
    /\ UNCHANGED <<revealing, at, site, fetching, menuScope, generation, inflight, navReads,
                   switches, meantAt, mixed>>

ReadComes(r) ==
    /\ fetching' = fetching \ {r}
    /\ readCache' = [p \in Page |-> IF readCache[p].id = r.id THEN [readCache[p] EXCEPT !.id = 0]
                                    ELSE readCache[p]]
    /\ site' = IF site.waits = r.id THEN [shown |-> r.scope, waits |-> 0] ELSE site
    /\ UNCHANGED <<revealing, at, menuScope, generation, inflight, navReads, switches, scopeActs,
                   meantAt, mixed>>

(* A rejected read takes whatever is cached under its key with it.         *)
ReadFails(r) ==
    /\ Act /\ fetching' = fetching \ {r} /\ readCache' = [readCache EXCEPT ![r.at] = None]
    /\ site' = IF site.waits = r.id THEN [shown |-> "error", waits |-> 0] ELSE site
    /\ UNCHANGED <<revealing, at, menuScope, generation, inflight, navReads, switches, meantAt,
                   mixed>>

(* Mutant: the owner is left on the page of the queue.                     *)
DestinationSame(p, on) == p

(* Where the switch leads: a page of the queue has no counterpart on the   *)
(* guest's side.                                                           *)
Destination(p, on) == IF ~on /\ p = "queue" THEN "feed" ELSE p

(* _toggleRevelio up to its first await.                                   *)
Toggle ==
    /\ Act /\ revealing' = ~revealing
    /\ switches' = Append(switches, [to |-> Destination(at, ~revealing), awaits |-> "chunks",
                                     gen |-> 0])
    /\ LET wish == IF switches = <<>> THEN at ELSE meantAt
       IN  meantAt' = IF revealing /\ wish = "queue" THEN "feed" ELSE wish
    /\ mixed' = IF switches = <<>> THEN mixed \ {"wandered", "overlapped"}
                ELSE mixed \cup {"overlapped"}
    /\ UNCHANGED <<at, site, fetching, readCache, menuScope, generation, inflight, navReads>>

(* Mutant: the reads that are cached are kept.                             *)
ForgottenNothing == readCache' = readCache

(* clearPostReadCache.                                                     *)
Forgotten == readCache' = Empty

(* The three modules are there: the first that waits for them goes on.     *)
Chunks(k) ==
    /\ k \in DOMAIN switches /\ switches[k].awaits = "chunks"
    /\ \A j \in 1..(k - 1) : switches[j].awaits = "menu"
    /\ Forgotten /\ Asked(generation + 1)
    /\ switches' = [switches EXCEPT ![k].awaits = "menu", ![k].gen = generation + 1]
    /\ UNCHANGED <<revealing, at, site, fetching, menuScope, scopeActs, meantAt, mixed>>

(* An author's change of the menu, announced to the page.                  *)
NavChanged ==
    /\ Act /\ Asked(generation + 1)
    /\ UNCHANGED <<revealing, at, site, fetching, readCache, menuScope, switches, meantAt, mixed>>

(* Mutant: an answer that a later request has overtaken is published.      *)
LatestAny(q) == TRUE

Latest(q) == q.gen = generation

(* The end of a request for the menu, and of the switch that awaits it:    *)
(* router.refresh builds the page anew, and a menu that still has nothing  *)
(* asks again.                                                             *)
Ended(q) ==
    LET waiting == {k \in DOMAIN switches : switches[k].gen = q.gen}
        rest == IF inflight = q.gen THEN 0 ELSE inflight
    IN  IF waiting = {}
        THEN /\ inflight' = rest /\ navReads' = navReads \ {q}
             /\ UNCHANGED <<at, site, fetching, readCache, generation, switches>>
        ELSE \E k \in waiting :
             /\ switches' = RemoveAt(switches, k)
             /\ at' = switches[k].to /\ Shows(switches[k].to, readCache)
             /\ IF rest = 0 /\ menuScope' = "none"
                THEN /\ generation' = generation + 1 /\ inflight' = generation + 1
                     /\ navReads' = (navReads \ {q}) \cup {[gen |-> generation + 1, scope |-> Sent]}
                ELSE inflight' = rest /\ navReads' = navReads \ {q} /\ UNCHANGED generation

MenuComes(q) ==
    /\ menuScope' = IF Latest(q) THEN q.scope ELSE menuScope
    /\ mixed' = IF Latest(q) THEN mixed \ {"menuFailed"} ELSE mixed
    /\ Ended(q)
    /\ UNCHANGED <<revealing, scopeActs, meantAt>>

MenuFails(q) ==
    /\ Act /\ UNCHANGED <<revealing, menuScope, meantAt>>
    /\ mixed' = IF Latest(q) THEN mixed \cup {"menuFailed"} ELSE mixed
    /\ Ended(q)

(* Another tab of the owner's flips the switch.                            *)
Elsewhere ==
    /\ Act /\ revealing' = ~revealing /\ mixed' = mixed \cup {"elsewhere"}
    /\ UNCHANGED <<at, site, fetching, readCache, menuScope, generation, inflight, navReads,
                   switches, meantAt>>

Next ==
    \/ Toggle \/ NavChanged \/ Elsewhere
    \/ \E p \in Page : Follow(p) \/ Preload(p) \/ Expire(p)
    \/ \E r \in fetching : ReadComes(r) \/ ReadFails(r)
    \/ \E k \in DOMAIN switches : Chunks(k)
    \/ \E q \in navReads : MenuComes(q) \/ MenuFails(q)

(***************************************************************************)
(* Properties.                                                             *)
(***************************************************************************)

Quiet == switches = <<>> /\ navReads = {} /\ fetching = {}

(* When nothing is under way, the page, the reads that are kept for the    *)
(* next pages and the menu are all of the side of the switch that is on,   *)
(* in whatever order the answers came; unless another tab has moved the    *)
(* switch, and but for a menu that could not be had.                       *)
SeenAlike ==
    Quiet /\ "elsewhere" \notin mixed =>
        /\ site.shown \in {Sent, "error"}
        /\ \A p \in Page : readCache[p].scope \in {Sent, "none"}
        /\ "menuFailed" \notin mixed => menuScope = Sent

(* The switch leaves the owner where he is, or at the newest page of the   *)
(* feed when he hides the queue he is in; unless he went on before the     *)
(* page was built anew, or flipped the switch back.                        *)
StaysPut ==
    switches = <<>> /\ mixed \cap {"wandered", "overlapped"} = {} => at = meantAt

=============================================================================
