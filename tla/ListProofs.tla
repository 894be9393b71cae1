----------------------------- MODULE ListProofs -----------------------------
(***************************************************************************)
(* Proofs about PostsList, for every number of posts and loads.            *)
(*                                                                         *)
(* ListInv is what holds from step to step: the requests under way are of a *)
(* known form and two that change one post have muddled it (Underway), the *)
(* last list asked for is among them (LastLoad), the rows are true but for *)
(* those the muddled ones name (RowsHold), a page left has no listing that *)
(* counts (Away), and the count is what the page holds (Counted).          *)
(***************************************************************************)
EXTENDS PostsList, SequenceTheorems, FiniteSetTheorems, TLAPS

Before(c, d) == IF d < c THEN d ELSE d + 1

LEMMA WithoutIs ==
    ASSUME NEW S, NEW s \in Seq(S), NEW c \in 1..Len(s)
    PROVE  /\ RemoveAt(s, c) \in Seq(S)
           /\ Len(RemoveAt(s, c)) = Len(s) - 1
           /\ \A d \in 1..(Len(s) - 1) : RemoveAt(s, c)[d] = s[Before(c, d)]
<1> DEFINE a == SubSeq(s, 1, c - 1)
           b == SubSeq(s, c + 1, Len(s))
<1>1. a \in Seq(S) /\ Len(a) = c - 1 /\ \A i \in 1..(c - 1) : a[i] = s[i]
  BY SubSeqProperties
<1>2. b \in Seq(S) /\ Len(b) = Len(s) - c /\ \A i \in 1..(Len(s) - c) : b[i] = s[c + i]
  BY SubSeqProperties
<1> HIDE DEF a, b
<1>3. RemoveAt(s, c) = a \o b BY DEF RemoveAt, a, b
<1>4. a \o b \in Seq(S) /\ Len(a \o b) = Len(s) - 1
  <2>1. a \o b \in Seq(S) /\ Len(a \o b) = Len(a) + Len(b) BY <1>1, <1>2, ConcatProperties
  <2> QED BY <2>1, <1>1, <1>2
<1>5. ASSUME NEW d \in 1..(Len(s) - 1) PROVE (a \o b)[d] = s[Before(c, d)]
  <2>1. CASE d < c
    BY <2>1, <1>1, <1>2 DEF Before
  <2>2. CASE ~(d < c)
    <3>1. (a \o b)[d] = b[d - (c - 1)] BY <2>2, <1>1, <1>2
    <3>2. d - (c - 1) \in 1..(Len(s) - c) /\ c + (d - (c - 1)) = d + 1 BY <2>2
    <3> QED BY <3>1, <3>2, <1>2, <2>2 DEF Before
  <2> QED BY <2>1, <2>2
<1> QED BY <1>3, <1>4, <1>5

(* Requests under way, rs, with the rows m that may have missed a change,  *)
(* the server's places pl and statuses st.                                 *)
Bulky(r) == r.op \in {"bulk status", "bulk trash"}
Moves(r) == r.op \in {"trash", "restore", "purge"}
Changes(r, p) == r.op # "list" /\ p \in {r.post} \cup r.left
PlaceOf(f) == IF f = "trash" THEN "trash" ELSE "list"
KindOf(f) == IF f = "trash" THEN "trash" ELSE "live"

(* A request is about a post, or lists some.                               *)
Formed(r) ==
    /\ r.op # "list" => r.post \in Post
    /\ r.op = "list" => r.per \in 1..Total /\ ~r.row
    /\ r.op \in {"status", "cycle", "bulk status"} => r.want \in Status

(* A post that two requests are to change is known to be muddled.          *)
Overlaps(rs, m) ==
    \A c, d \in DOMAIN rs : \A p \in Post :
        c # d /\ Changes(rs[c], p) /\ Changes(rs[d], p) => p \in m

(* And so is one whose row was replaced while its status was changing.     *)
RowsHeld(rs, m) ==
    \A c \in DOMAIN rs : rs[c].op = "status" /\ ~rs[c].row => rs[c].post \in m

Replied(rs, m, st) ==
    \A c \in DOMAIN rs :
        rs[c].op \in {"status", "cycle"} /\ rs[c].reply = "ok" /\ rs[c].post \notin m =>
            st[rs[c].post] = rs[c].want

(* What was listed is so still, but for what has changed since.            *)
DataRead(rs, pl, st) ==
    \A c \in DOMAIN rs :
        rs[c].op = "list" /\ rs[c].reply = "ok" =>
            \A p \in Has(rs[c].data) \ rs[c].stale :
                pl[p] = PlaceOf(rs[c].query.filter) /\ rs[c].data[p] = st[p]

Pending(rs, m, pl, st) ==
    /\ \A c \in DOMAIN rs : Formed(rs[c])
    /\ Overlaps(rs, m) /\ RowsHeld(rs, m) /\ Replied(rs, m, st) /\ DataRead(rs, pl, st)

(* A row of the listing li, on the screen as pa, under the filter f.       *)
RowIsTrue(rs, p, pl, st, li, pa, f) ==
    \/ \E c \in DOMAIN rs : Moves(rs[c]) /\ rs[c].post = p /\ rs[c].reply = "ok"
    \/ /\ pl[p] = PlaceOf(f) /\ li[p] # "none"
       /\ \A c \in DOMAIN rs :
            rs[c].op = "status" /\ rs[c].post = p =>
                /\ rs[c].was = li[p] /\ pa[p] = rs[c].want
                /\ rs[c].reply # "ok" => li[p] = st[p]
       /\ (\A c \in DOMAIN rs : rs[c].op \in {"status", "cycle"} /\ rs[c].post = p =>
                                    rs[c].op = "cycle" /\ rs[c].reply # "ok") =>
              li[p] = st[p] /\ pa[p] = st[p]

RowsTrue(rs, m, pl, st, li, pa, f) ==
    (\A c \in DOMAIN rs : ~Bulky(rs[c])) =>
        \A p \in (Has(li) \cup Has(pa) \cup Orphans(rs)) \ m : RowIsTrue(rs, p, pl, st, li, pa, f)

RowsHold ==
    present /\ ~astray /\ ~busy =>
        RowsTrue(requests, muddled, place, stored, listing, painted.rows, statusFilter)

Painting ==
    /\ present => (busy <=> painted.kind = "loading")
    /\ painted.kind = "loading" => Orphans(requests) = {}
    /\ painted.kind # "loading" => painted.kind = KindOf(statusFilter)
    /\ ~present => ~keys

(* The load that was asked for last is marked.                             *)
Lasts(rs, here, u, f) ==
    \A c \in DOMAIN rs :
        rs[c].last => rs[c].op = "list" /\ rs[c].query.filter = f /\ (here => rs[c].query = u)

LastLoad ==
    /\ Lasts(requests, present, url, statusFilter)
    /\ ~astray /\ busy => \E c \in DOMAIN requests : requests[c].last
    /\ ~astray /\ ~busy /\ present => pagination.query = url
    /\ ~astray /\ (~busy \/ painted.kind # "loading") => pagination.query.filter = statusFilter

(* After the page was left with nothing that loads.                        *)
LeftAlone ==
    ~present /\ ~haunted =>
        /\ url = NoQuery /\ dialog = NoDialog /\ typed = "none"
        /\ measuring = {} /\ resizing = FALSE
        /\ \A c \in DOMAIN requests : requests[c].op \in {"list", "status", "cycle"}

Counted ==
    /\ ~miscounted
    /\ dialog.kind = "bulk" /\ ~dialog.cut => dialog.count = Cardinality(picked)
    /\ dialog.kind \in {"trash", "purge"} => dialog.post \in Post
    /\ dialog.kind = "none" => dialog = NoDialog

(* What the reader and the window decide.                                  *)
UserShapes ==
    /\ statusFilter \in {"", "trash"} /\ words \in Words /\ atPage = 1
    /\ perPage \in 1..Total /\ room \in 1..Total
    /\ fitted \in BOOLEAN /\ resizing \in BOOLEAN
    /\ picking \in BOOLEAN /\ picked \subseteq Post
    /\ dialog \in [kind : {"none", "trash", "purge", "bulk"}, post : 0..Total, count : 0..Total,
                   cut : BOOLEAN]
    /\ typed \in {"none", "", "text"}
    /\ acts \in 0..MaxListActs

(* What is loaded and drawn.                                               *)
ListShapes ==
    /\ place \in [Post -> {"list", "trash", "gone"}]
    /\ stored \in [Post -> Status]
    /\ url \in ListQuery
    /\ listing \in Rows
    /\ pagination \in [query : ListQuery, pages : 0..Total]
    /\ painted \in [kind : {"loading", "live", "trash"}, rows : Rows]
    /\ muddled \subseteq Post /\ measuring \subseteq Post
    /\ requests \in Seq(PostRequest) /\ Len(requests) <= Slots

ListFlags ==
    /\ present \in BOOLEAN /\ busy \in BOOLEAN /\ keys \in BOOLEAN /\ astray \in BOOLEAN
    /\ haunted \in BOOLEAN /\ miscounted \in BOOLEAN

ListInv ==
    /\ ListShapes /\ UserShapes /\ ListFlags
    /\ Pending(requests, muddled, place, stored)
    /\ Painting /\ LastLoad /\ RowsHold /\ LeftAlone /\ Counted

LEMMA ListSizes == Total \in Nat \ {0} /\ Slots \in Nat \ {0} /\ MaxListActs \in Nat
  BY ListAssumption

(***************************************************************************)
(* Requests and queues of them.                                            *)
(***************************************************************************)
(* The same request, but for its row, its mark and its number of pages.    *)
Same(x, r) ==
    /\ x.op = r.op /\ x.post = r.post /\ x.left = r.left /\ x.want = r.want /\ x.was = r.was
    /\ x.query = r.query /\ x.per = r.per /\ x.reply = r.reply /\ x.data = r.data
    /\ x.stale = r.stale

LEMMA SameChanges ==
    ASSUME NEW x, NEW r, Same(x, r)
    PROVE  /\ Formed(r) /\ (x.row => r.row) => Formed(x)
           /\ \A p : Changes(x, p) <=> Changes(r, p)
           /\ Bulky(x) <=> Bulky(r)
           /\ Moves(x) <=> Moves(r)
<1>1. ASSUME Formed(r), x.row => r.row PROVE Formed(x)
  BY <1>1 DEF Formed, Same
<1> QED BY <1>1 DEF Same, Changes, Bulky, Moves

(* Requests whose rows were replaced, of posts now known to be muddled.    *)
LEMMA RelabelledPending ==
    ASSUME NEW rs, NEW xs, NEW m, NEW n, NEW pl, NEW st, Pending(rs, m, pl, st),
           DOMAIN xs = DOMAIN rs,
           \A d \in DOMAIN rs : /\ Same(xs[d], rs[d]) /\ (xs[d].row => rs[d].row)
                                /\ (rs[d].row => xs[d].row \/ rs[d].post \in n),
           \A d \in DOMAIN rs : \A p \in m : Changes(rs[d], p) => p \in n
    PROVE  Pending(xs, n, pl, st)
<1>1. \A d \in DOMAIN xs : Formed(xs[d])
  <2>1. \A d \in DOMAIN rs : Formed(rs[d]) BY DEF Pending
  <2> QED BY <2>1, SameChanges
<1>2. Overlaps(xs, n)
  <2>1. Overlaps(rs, m) BY DEF Pending
  <2> QED BY <2>1, SameChanges DEF Overlaps
<1>3. RowsHeld(xs, n)
  <2>1. RowsHeld(rs, m) BY DEF Pending
  <2> SUFFICES ASSUME NEW c \in DOMAIN xs, xs[c].op = "status", ~xs[c].row
               PROVE  xs[c].post \in n
    BY DEF RowsHeld
  <2>2. Same(xs[c], rs[c]) OBVIOUS
  <2>3. rs[c].op = "status" /\ rs[c].post = xs[c].post BY <2>2 DEF Same
  <2>4. Changes(rs[c], rs[c].post) BY <2>3 DEF Changes
  <2>5. CASE rs[c].row BY <2>5, <2>3
  <2>6. CASE ~rs[c].row
    <3>1. rs[c].post \in m BY <2>1, <2>3, <2>6 DEF RowsHeld
    <3> QED BY <3>1, <2>3, <2>4
  <2> QED BY <2>5, <2>6
<1>4. Replied(xs, n, st)
  <2>1. Replied(rs, m, st) BY DEF Pending
  <2> SUFFICES ASSUME NEW c \in DOMAIN xs, xs[c].op \in {"status", "cycle"}, xs[c].reply = "ok",
                      xs[c].post \notin n
               PROVE  st[xs[c].post] = xs[c].want
    BY DEF Replied
  <2>2. Same(xs[c], rs[c]) OBVIOUS
  <2>3. /\ rs[c].op \in {"status", "cycle"} /\ rs[c].reply = "ok"
        /\ rs[c].post = xs[c].post /\ rs[c].want = xs[c].want
    BY <2>2 DEF Same
  <2>4. Changes(rs[c], rs[c].post) BY <2>3 DEF Changes
  <2>5. rs[c].post \notin m BY <2>3, <2>4
  <2> QED BY <2>1, <2>3, <2>5 DEF Replied
<1>5. DataRead(xs, pl, st)
  <2>1. DataRead(rs, pl, st) BY DEF Pending
  <2> QED BY <2>1 DEF DataRead, Same
<1> QED BY <1>1, <1>2, <1>3, <1>4, <1>5 DEF Pending

(* An answered request leaves the others as they were.                     *)
LEMMA RemovedAre ==
    ASSUME NEW rs \in Seq(PostRequest), NEW c \in DOMAIN rs
    PROVE  /\ RemoveAt(rs, c) \in Seq(PostRequest)
           /\ Len(RemoveAt(rs, c)) = Len(rs) - 1
           /\ \A d \in DOMAIN RemoveAt(rs, c) :
                  /\ Before(c, d) \in DOMAIN rs /\ Before(c, d) # c
                  /\ RemoveAt(rs, c)[d] = rs[Before(c, d)]
           /\ \A d, e \in DOMAIN RemoveAt(rs, c) : Before(c, d) = Before(c, e) => d = e
           /\ \A e \in DOMAIN rs \ {c} : \E d \in DOMAIN RemoveAt(rs, c) : Before(c, d) = e
<1> DEFINE xs == RemoveAt(rs, c)
<1>1. c \in 1..Len(rs) OBVIOUS
<1>2. /\ xs \in Seq(PostRequest) /\ Len(xs) = Len(rs) - 1
      /\ \A d \in 1..(Len(rs) - 1) : xs[d] = rs[Before(c, d)]
  BY <1>1, WithoutIs
<1> HIDE DEF xs
<1>3. DOMAIN xs = 1..(Len(rs) - 1) BY <1>2
<1>4. \A d \in DOMAIN xs : Before(c, d) \in DOMAIN rs /\ Before(c, d) # c
  BY <1>1, <1>3 DEF Before
<1>5. \A d, e \in DOMAIN xs : Before(c, d) = Before(c, e) => d = e
  BY <1>1, <1>3 DEF Before
<1>6. ASSUME NEW e \in DOMAIN rs \ {c} PROVE \E d \in DOMAIN xs : Before(c, d) = e
  <2>1. CASE e < c
    <3>1. e \in DOMAIN xs /\ Before(c, e) = e BY <1>1, <1>3, <2>1 DEF Before
    <3> QED BY <3>1
  <2>2. CASE ~(e < c)
    <3>1. e - 1 \in DOMAIN xs /\ Before(c, e - 1) = e BY <1>1, <1>3, <2>2 DEF Before
    <3> QED BY <3>1
  <2> QED BY <2>1, <2>2
<1> QED BY <1>2, <1>3, <1>4, <1>5, <1>6 DEF xs

LEMMA RemovedFrom ==
    ASSUME NEW rs \in Seq(PostRequest), NEW c \in DOMAIN rs
    PROVE  /\ \A d \in DOMAIN RemoveAt(rs, c) : \E e \in DOMAIN rs \ {c} : RemoveAt(rs, c)[d] = rs[e]
           /\ \A e \in DOMAIN rs \ {c} : \E d \in DOMAIN RemoveAt(rs, c) : RemoveAt(rs, c)[d] = rs[e]
<1> DEFINE xs == RemoveAt(rs, c)
<1>1. /\ \A d \in DOMAIN xs : /\ Before(c, d) \in DOMAIN rs /\ Before(c, d) # c
                              /\ xs[d] = rs[Before(c, d)]
      /\ \A e \in DOMAIN rs \ {c} : \E d \in DOMAIN xs : Before(c, d) = e
  BY RemovedAre
<1> HIDE DEF xs
<1>2. \A d \in DOMAIN xs : \E e \in DOMAIN rs \ {c} : xs[d] = rs[e] BY <1>1
<1>3. \A e \in DOMAIN rs \ {c} : \E d \in DOMAIN xs : xs[d] = rs[e] BY <1>1
<1> QED BY <1>2, <1>3 DEF xs

LEMMA RemovedPending ==
    ASSUME NEW rs \in Seq(PostRequest), NEW c \in DOMAIN rs, NEW m, NEW pl, NEW st,
           Pending(rs, m, pl, st)
    PROVE  Pending(RemoveAt(rs, c), m, pl, st)
<1> DEFINE xs == RemoveAt(rs, c)
<1>1. \A d \in DOMAIN xs : Before(c, d) \in DOMAIN rs /\ xs[d] = rs[Before(c, d)]
  BY RemovedAre
<1>2. \A d, e \in DOMAIN xs : Before(c, d) = Before(c, e) => d = e
  BY RemovedAre
<1> HIDE DEF xs
<1>3. \A d \in DOMAIN xs : Formed(xs[d]) BY <1>1 DEF Pending
<1>4. Overlaps(xs, m)
  <2>1. Overlaps(rs, m) BY DEF Pending
  <2> QED BY <2>1, <1>1, <1>2 DEF Overlaps
<1>5. RowsHeld(xs, m) BY <1>1 DEF Pending, RowsHeld
<1>6. Replied(xs, m, st) BY <1>1 DEF Pending, Replied
<1>7. DataRead(xs, pl, st) BY <1>1 DEF Pending, DataRead
<1> QED BY <1>3, <1>4, <1>5, <1>6, <1>7 DEF Pending, xs

LEMMA AppendedAre ==
    ASSUME NEW S, NEW rs \in Seq(S), NEW r \in S
    PROVE  /\ Append(rs, r) \in Seq(S) /\ Len(Append(rs, r)) = Len(rs) + 1
           /\ DOMAIN Append(rs, r) = DOMAIN rs \cup {Len(rs) + 1}
           /\ Len(rs) + 1 \notin DOMAIN rs
           /\ Append(rs, r)[Len(rs) + 1] = r
           /\ \A d \in DOMAIN rs : Append(rs, r)[d] = rs[d]
  OBVIOUS

LEMMA AppendedPending ==
    ASSUME NEW rs \in Seq(PostRequest), NEW r \in PostRequest, NEW m, NEW n, NEW pl, NEW st,
           Pending(rs, m, pl, st), m \subseteq n, Formed(r), r.reply = "none",
           r.op = "status" => r.row,
           \A d \in DOMAIN rs : \A p \in Post : Changes(rs[d], p) /\ Changes(r, p) => p \in n
    PROVE  Pending(Append(rs, r), n, pl, st)
<1> DEFINE xs == Append(rs, r)
           k == Len(rs) + 1
<1>1. /\ DOMAIN xs = DOMAIN rs \cup {k} /\ k \notin DOMAIN rs /\ xs[k] = r
      /\ \A d \in DOMAIN rs : xs[d] = rs[d]
  BY AppendedAre
<1> HIDE DEF xs, k
<1>2. \A d \in DOMAIN xs : Formed(xs[d]) BY <1>1 DEF Pending
<1>3. Overlaps(xs, n)
  <2>1. Overlaps(rs, m) BY DEF Pending
  <2> QED BY <2>1, <1>1 DEF Overlaps
<1>4. RowsHeld(xs, n) BY <1>1 DEF Pending, RowsHeld
<1>5. Replied(xs, n, st) BY <1>1 DEF Pending, Replied
<1>6. DataRead(xs, pl, st) BY <1>1 DEF Pending, DataRead
<1> QED BY <1>2, <1>3, <1>4, <1>5, <1>6 DEF Pending, xs

LEMMA PageNumbers ==
    /\ 0 \in 0..Total /\ 0 \in 0..(Total + 1) /\ 1 \in 1..Total /\ 1 \in 0..(Total + 1)
    /\ \A n \in 1..Total : n \in 0..Total /\ n \in 0..(Total + 1)
<1>1. Total \in Nat /\ Total > 0 BY ListSizes
<1>2. 0 \in 0..Total BY <1>1
<1>3. 0 \in 0..(Total + 1) BY <1>1
<1>4. 1 \in 1..Total /\ 1 \in 0..(Total + 1) BY <1>1
<1>5. \A n \in 1..Total : n \in 0..Total /\ n \in 0..(Total + 1) BY <1>1
<1> QED BY <1>2, <1>3, <1>4, <1>5

LEMMA NoRowsIs == NoRows \in Rows /\ Has(NoRows) = {}
  BY DEF NoRows, Rows, Has

LEMMA CountOfPosts ==
    ASSUME NEW s \in SUBSET Post
    PROVE  IsFiniteSet(s) /\ Cardinality(s) \in 0..Total
<1>1. IsFiniteSet(Post) /\ Cardinality(Post) = Total
  BY ListSizes, FS_Interval DEF Post
<1>2. IsFiniteSet(s) /\ Cardinality(s) <= Cardinality(Post) BY <1>1, FS_Subset
<1>3. Cardinality(s) \in Nat BY <1>2, FS_CardinalityType
<1> QED BY <1>1, <1>2, <1>3, ListSizes

PostOps ==
    {"list", "status", "cycle", "trash", "restore", "purge", "bulk status", "bulk trash"}

LEMMA CallIs ==
    ASSUME NEW op \in PostOps, NEW p \in 0..Total
    PROVE  /\ Call(op, p) \in PostRequest
           /\ Call(op, p).op = op /\ Call(op, p).post = p /\ Call(op, p).left = {}
           /\ Call(op, p).reply = "none" /\ ~Call(op, p).row /\ ~Call(op, p).last
           /\ Call(op, p).want = "none" /\ Call(op, p).was = "none"
<1>1. NoRows \in Rows BY NoRowsIs
<1>2. NoQuery \in ListQuery /\ 0 \in 0..Total
  <2>1. {} \in Words BY DEF Words
  <2> QED BY <2>1, PageNumbers DEF NoQuery, ListQuery
<1> QED BY <1>1, <1>2 DEF Call, PostRequest, PostOps

(* A request that the list is loaded by.                                   *)
LoadCall(q, per) == [Call("list", 0) EXCEPT !.query = q, !.per = per, !.last = TRUE]

Loads(r, q, per) ==
    /\ r.op = "list" /\ r.query = q /\ r.per = per /\ r.last /\ ~r.row
    /\ r.reply = "none" /\ r.left = {} /\ r.post = 0

LEMMA LoadCallIs ==
    ASSUME NEW q \in ListQuery, NEW per \in 1..Total
    PROVE  LoadCall(q, per) \in PostRequest /\ Loads(LoadCall(q, per), q, per)
<1> DEFINE r == LoadCall(q, per)
<1>1. Call("list", 0) \in PostRequest /\ per \in 0..Total
  <2>1. 0 \in 0..Total /\ per \in 0..Total BY ListSizes
  <2>2. "list" \in PostOps BY DEF PostOps
  <2> QED BY <2>1, <2>2, CallIs
<1>2. r = [Call("list", 0) EXCEPT !.query = q, !.per = per, !.last = TRUE] BY DEF LoadCall
<1> HIDE DEF r
<1>3. r \in PostRequest BY <1>1, <1>2 DEF PostRequest
<1>4. /\ r.op = "list" /\ r.query = q /\ r.per = per /\ r.last /\ ~r.row
      /\ r.reply = "none" /\ r.left = {} /\ r.post = 0
  BY <1>2, <1>3 DEF Call
<1> QED BY <1>3, <1>4 DEF r, Loads

(* A request whose row, and mark, may be gone.                             *)
LEMMA RelabelledIs ==
    ASSUME NEW r \in PostRequest, NEW b \in BOOLEAN, NEW l \in BOOLEAN,
           NEW x, x = [r EXCEPT !.row = b, !.last = l]
    PROVE  x \in PostRequest /\ Same(x, r) /\ x.row = b /\ x.last = l
  BY DEF PostRequest, Same

LEMMA UnheldIs ==
    ASSUME NEW r \in PostRequest, NEW x, x = [r EXCEPT !.row = FALSE]
    PROVE  x \in PostRequest /\ Same(x, r) /\ ~x.row /\ x.last = r.last
  BY DEF PostRequest, Same

LEMMA DetachedAre ==
    ASSUME NEW rs \in Seq(PostRequest)
    PROVE  /\ Detached(rs) \in Seq(PostRequest) /\ Len(Detached(rs)) = Len(rs)
           /\ DOMAIN Detached(rs) = DOMAIN rs
           /\ \A d \in DOMAIN rs : /\ Same(Detached(rs)[d], rs[d]) /\ ~Detached(rs)[d].row
                                   /\ Detached(rs)[d].last = rs[d].last
           /\ Orphans(Detached(rs)) = {}
<1>1. \A d \in DOMAIN rs : rs[d] \in PostRequest OBVIOUS
<1>2. DOMAIN Detached(rs) = 1..Len(rs) BY DEF Detached
<1>3. \A d \in DOMAIN rs : Detached(rs)[d] = [rs[d] EXCEPT !.row = FALSE] BY DEF Detached
<1>4. \A d \in DOMAIN rs : /\ Same(Detached(rs)[d], rs[d]) /\ ~Detached(rs)[d].row
                           /\ Detached(rs)[d].last = rs[d].last
                           /\ Detached(rs)[d] \in PostRequest
  BY <1>1, <1>3, UnheldIs
<1> DEFINE xs == Detached(rs)
<1>5. xs = [d \in 1..Len(rs) |-> xs[d]] BY DEF Detached
<1> HIDE DEF xs
<1>6. xs \in Seq(PostRequest) /\ Len(xs) = Len(rs)
  <2>1. \A d \in 1..Len(rs) : xs[d] \in PostRequest
    BY <1>4 DEF xs
  <2>2. Len(rs) \in Nat OBVIOUS
  <2> QED BY <1>5, <2>1, <2>2
<1>7. Orphans(xs) = {} BY <1>2, <1>4 DEF Orphans, xs
<1> QED BY <1>2, <1>4, <1>6, <1>7 DEF xs

LEMMA OrphansAre ==
    ASSUME NEW rs \in Seq(PostRequest), \A d \in DOMAIN rs : Formed(rs[d])
    PROVE  Orphans(rs) \subseteq Post /\ Changing(rs) \subseteq Post
<1>1. \A d \in DOMAIN rs : rs[d] \in PostRequest OBVIOUS
<1>2. \A d \in DOMAIN rs : rs[d].left \subseteq Post /\ (rs[d].op # "list" => rs[d].post \in Post)
                           /\ (rs[d].row => rs[d].op # "list")
  BY <1>1 DEF PostRequest, Formed
<1>3. Orphans(rs) \subseteq Post BY <1>2 DEF Orphans
<1>4. Changing(rs) \subseteq Post BY <1>2 DEF Changing
<1> QED BY <1>3, <1>4

(***************************************************************************)
(* Loading: the marks of what was asked before are gone, and the rows.     *)
(***************************************************************************)
Cleared(rs, here) ==
    [c \in DOMAIN rs |-> [rs[c] EXCEPT !.row = IF here THEN FALSE ELSE @, !.last = FALSE]]

LEMMA ClearedAre ==
    ASSUME NEW rs \in Seq(PostRequest), NEW here \in BOOLEAN
    PROVE  /\ Cleared(rs, here) \in Seq(PostRequest) /\ Len(Cleared(rs, here)) = Len(rs)
           /\ DOMAIN Cleared(rs, here) = DOMAIN rs
           /\ \A d \in DOMAIN rs :
                  /\ Same(Cleared(rs, here)[d], rs[d]) /\ ~Cleared(rs, here)[d].last
                  /\ Cleared(rs, here)[d].row => rs[d].row /\ ~here
                  /\ rs[d].row => here \/ Cleared(rs, here)[d].row
<1> DEFINE xs == Cleared(rs, here)
<1>1. \A d \in DOMAIN rs : rs[d] \in PostRequest OBVIOUS
<1>2. DOMAIN xs = 1..Len(rs) /\ xs = [d \in 1..Len(rs) |-> xs[d]] BY DEF Cleared
<1>3. ASSUME NEW d \in DOMAIN rs
      PROVE  /\ xs[d] \in PostRequest /\ Same(xs[d], rs[d]) /\ ~xs[d].last
             /\ (xs[d].row => rs[d].row /\ ~here) /\ (rs[d].row => here \/ xs[d].row)
  <2>1. rs[d] \in PostRequest BY <1>1
  <2>2. rs[d].row \in BOOLEAN BY <2>1 DEF PostRequest
  <2>3. PICK b \in BOOLEAN : b = IF here THEN FALSE ELSE rs[d].row
    BY <2>2
  <2>4. xs[d] = [rs[d] EXCEPT !.row = b, !.last = FALSE] BY <2>3 DEF Cleared
  <2> HIDE DEF xs
  <2>5. xs[d] \in PostRequest /\ Same(xs[d], rs[d]) /\ xs[d].row = b /\ xs[d].last = FALSE
    BY <2>1, <2>4, RelabelledIs
  <2> QED BY <2>3, <2>5
<1> HIDE DEF xs
<1>4. xs \in Seq(PostRequest) /\ Len(xs) = Len(rs)
  <2>1. \A d \in 1..Len(rs) : xs[d] \in PostRequest BY <1>3
  <2>2. Len(rs) \in Nat OBVIOUS
  <2> QED BY <1>2, <2>1, <2>2
<1> HIDE DEF xs
<1>5. \A d \in DOMAIN rs :
          /\ Same(xs[d], rs[d]) /\ ~xs[d].last
          /\ xs[d].row => rs[d].row /\ ~here
          /\ rs[d].row => here \/ xs[d].row
  BY <1>3, Zenon
<1>6. DOMAIN xs = DOMAIN rs BY <1>2
<1> QED BY <1>4, <1>5, <1>6, Zenon DEF xs

(* The queue after a load: what was there, cleared, and the new request.   *)
Queued(rs, here, q, per) == Append(Cleared(rs, here), LoadCall(q, per))

(* The rows that a redraw may have cut off from a change.                  *)
Muddle(rs, here, m) == IF here THEN m \cup Orphans(rs) ELSE m

LoadQueued(xs, rs, here, q, n, pl, st) ==
    /\ xs \in Seq(PostRequest)
    /\ Pending(xs, n, pl, st)
    /\ \A d \in DOMAIN xs : xs[d].last => xs[d].op = "list" /\ xs[d].query = q
    /\ \E d \in DOMAIN xs : xs[d].last
    /\ here \/ Orphans(rs) = {} => Orphans(xs) = {}
    /\ Len(rs) < Slots => Len(xs) <= Slots

LEMMA LoadedQueue ==
    ASSUME NEW rs \in Seq(PostRequest), NEW here \in BOOLEAN, NEW q \in ListQuery,
           NEW per \in 1..Total, NEW m, NEW pl, NEW st, Pending(rs, m, pl, st)
    PROVE  LoadQueued(Queued(rs, here, q, per), rs, here, q, Muddle(rs, here, m), pl, st)
<1> DEFINE ys == Cleared(rs, here)
           r == LoadCall(q, per)
           k == Len(ys) + 1
           n == Muddle(rs, here, m)
           xs == Queued(rs, here, q, per)
<1>1. /\ ys \in Seq(PostRequest) /\ Len(ys) = Len(rs) /\ DOMAIN ys = DOMAIN rs
      /\ \A d \in DOMAIN rs :
             /\ Same(ys[d], rs[d]) /\ ~ys[d].last
             /\ (ys[d].row => rs[d].row /\ ~here) /\ (rs[d].row => here \/ ys[d].row)
  BY ClearedAre, Zenon
<1>2. /\ r \in PostRequest
      /\ r.op = "list" /\ r.query = q /\ r.per = per /\ r.last /\ ~r.row /\ r.reply = "none"
      /\ r.left = {} /\ r.post = 0
  <2>1. r \in PostRequest /\ Loads(r, q, per) BY LoadCallIs
  <2> HIDE DEF r
  <2> QED BY <2>1 DEF Loads
<1>3. xs = Append(ys, r) BY Zenon DEF Queued
<1>31. n = IF here THEN m \cup Orphans(rs) ELSE m BY Zenon DEF Muddle
<1> HIDE DEF ys, r, xs, n
<1>4. \A d \in DOMAIN rs : rs[d].row => (here /\ rs[d].post \in Orphans(rs)) \/ ys[d].row
  BY <1>1 DEF Orphans
<1>5. Pending(ys, n, pl, st)
  <2>1. \A d \in DOMAIN rs : /\ Same(ys[d], rs[d]) /\ (ys[d].row => rs[d].row)
                             /\ (rs[d].row => ys[d].row \/ rs[d].post \in n)
    BY <1>1, <1>4, <1>31
  <2>2. m \subseteq n BY <1>31
  <2> QED BY <1>1, <2>1, <2>2, RelabelledPending
<1>6. Formed(r) /\ \A p : ~Changes(r, p) BY <1>2 DEF Formed, Changes
<1>7. Pending(xs, n, pl, st)
  <2>1. /\ n \subseteq n /\ (r.op = "status" => r.row)
        /\ \A d \in DOMAIN ys : \A p \in Post : Changes(ys[d], p) /\ Changes(r, p) => p \in n
    BY <1>2, <1>6
  <2>2. Pending(Append(ys, r), n, pl, st)
    BY <1>1, <1>2, <1>5, <1>6, <2>1, AppendedPending, Zenon
  <2> QED BY <1>3, <2>2
<1>8. /\ xs \in Seq(PostRequest) /\ Len(xs) = Len(ys) + 1
      /\ DOMAIN xs = DOMAIN ys \cup {k} /\ k \notin DOMAIN ys /\ xs[k] = r
      /\ \A d \in DOMAIN ys : xs[d] = ys[d]
  <2>1. /\ Append(ys, r) \in Seq(PostRequest) /\ Len(Append(ys, r)) = Len(ys) + 1
        /\ DOMAIN Append(ys, r) = DOMAIN ys \cup {Len(ys) + 1} /\ Len(ys) + 1 \notin DOMAIN ys
        /\ Append(ys, r)[Len(ys) + 1] = r
        /\ \A d \in DOMAIN ys : Append(ys, r)[d] = ys[d]
    BY <1>1, <1>2, AppendedAre
  <2> QED BY <1>3, <2>1, Zenon
<1> HIDE DEF k
<1>9. \A d \in DOMAIN xs : xs[d].last => xs[d].op = "list" /\ xs[d].query = q
  BY <1>1, <1>2, <1>8
<1>10. \E d \in DOMAIN xs : xs[d].last BY <1>2, <1>8
<1>11. here \/ Orphans(rs) = {} => Orphans(xs) = {}
  <2>1. Orphans(rs) = {} => \A d \in DOMAIN rs : ~rs[d].row BY DEF Orphans
  <2>2. \A d \in DOMAIN xs : d \in DOMAIN rs \/ ~xs[d].row BY <1>1, <1>2, <1>8, Zenon
  <2>3. \A d \in DOMAIN rs : xs[d] = ys[d] /\ (ys[d].row => rs[d].row /\ ~here)
    BY <1>1, <1>8, Zenon
  <2>4. here \/ Orphans(rs) = {} => \A d \in DOMAIN xs : ~xs[d].row
    BY <2>1, <2>2, <2>3, Zenon
  <2> QED BY <2>4 DEF Orphans
<1>12. Len(xs) = Len(rs) + 1 BY <1>1, <1>8
<1>13. Len(rs) < Slots => Len(xs) <= Slots BY <1>12, ListSizes
<1> QED BY <1>7, <1>8, <1>9, <1>10, <1>11, <1>12, <1>13, Zenon DEF xs, n, LoadQueued

(* The list is loaded, of the requests or all but one that was answered.   *)
LEMMA LoadListKeeps ==
    ASSUME ListInv, NEW rs \in Seq(PostRequest), NEW q \in ListQuery, LoadList(rs, q),
           Len(rs) < Slots, Pending(rs, muddled, place, stored),
           Orphans(requests) = {} => Orphans(rs) = {},
           q.filter = statusFilter', statusFilter' = statusFilter \/ present,
           present \/ haunted,
           perPage' \in 1..Total, UserShapes', measuring' \subseteq Post,
           Counted',
           UNCHANGED <<place, stored, present, room, resizing, listing, pagination, keys, astray,
                       haunted,
                       miscounted>>
    PROVE  ListInv'
<1>1. ListShapes /\ UserShapes /\ ListFlags /\ Pending(rs, muddled, place, stored) /\ Painting /\ LastLoad
  BY Zenon DEF ListInv
<1>2. present \in BOOLEAN /\ muddled \subseteq Post /\ painted.rows \in Rows
      /\ painted \in [kind : {"loading", "live", "trash"}, rows : Rows]
  BY <1>1 DEF ListShapes, ListFlags
<1>3. /\ busy' = TRUE /\ url' = q
      /\ painted' = IF present THEN [kind |-> "loading", rows |-> NoRows] ELSE painted
      /\ muddled' = Muddle(rs, present, muddled)
      /\ requests' = Queued(rs, present, q, perPage')
  BY Zenon DEF LoadList, Cleared, LoadCall, Muddle, Queued
<1>4. PICK per \in 1..Total : per = perPage' BY Zenon
<1>5. /\ requests' \in Seq(PostRequest) /\ Len(requests') <= Slots
      /\ Pending(requests', muddled', place, stored)
      /\ \A d \in DOMAIN requests' : requests'[d].last =>
             requests'[d].op = "list" /\ requests'[d].query = q
      /\ \E d \in DOMAIN requests' : requests'[d].last
      /\ present \/ Orphans(rs) = {} => Orphans(requests') = {}
  <2>1. LoadQueued(Queued(rs, present, q, per), rs, present, q, Muddle(rs, present, muddled),
                   place, stored)
    BY <1>1, <1>2, LoadedQueue
  <2>2. LoadQueued(requests', rs, present, q, muddled', place, stored)
    BY <1>3, <1>4, <2>1, Zenon
  <2> QED BY <2>2, Zenon DEF LoadQueued
<1>6. muddled' \subseteq Post
  BY <1>1, <1>2, <1>3, OrphansAre DEF Pending, Muddle
<1>7. painted' \in [kind : {"loading", "live", "trash"}, rows : Rows]
  BY <1>2, <1>3, NoRowsIs
<1>9. ListShapes'
  BY <1>1, <1>3, <1>5, <1>6, <1>7, Zenon DEF ListShapes
<1>10. ListFlags' BY <1>1, <1>3, Zenon DEF ListFlags
<1>11. Pending(requests, muddled, place, stored)'
  BY <1>5, Zenon
<1>12. Painting'
  <2>1. present' => painted'.kind = "loading" BY <1>3
  <2>2. painted'.kind = "loading" => Orphans(requests') = {}
    BY <1>1, <1>3, <1>5 DEF Painting
  <2>3. painted'.kind # "loading" => painted'.kind = KindOf(statusFilter')
    BY <1>1, <1>3 DEF Painting
  <2>4. ~present' => ~keys' BY <1>1 DEF Painting
  <2> QED BY <1>3, <2>1, <2>2, <2>3, <2>4, Zenon DEF Painting
<1>13. LastLoad'
  <2>1. Lasts(requests, present, url, statusFilter)'
    BY <1>3, <1>5 DEF Lasts
  <2>2. ~astray' /\ painted'.kind # "loading" => pagination'.query.filter = statusFilter'
    BY <1>1, <1>3 DEF LastLoad
  <2> QED BY <1>3, <1>5, <2>1, <2>2, Zenon DEF LastLoad
<1>14. RowsHold' BY <1>3, Zenon DEF RowsHold
<1>15. LeftAlone' BY Zenon DEF LeftAlone
<1>16. Counted' /\ UserShapes' OBVIOUS
<1> QED BY <1>9, <1>10, <1>11, <1>12, <1>13, <1>14, <1>15, <1>16, Zenon DEF ListInv

(***************************************************************************)
(* The rows.                                                               *)
(***************************************************************************)
(* Rows drawn from a listing that is true, of posts whose status is not    *)
(* being changed.                                                          *)
LEMMA FreshRows ==
    ASSUME NEW rs, NEW m, NEW pl, NEW st, NEW li, NEW f, Orphans(rs) = {},
           \A d \in DOMAIN rs : rs[d].op = "status" => rs[d].post \in m,
           \A p \in Has(li) \ m : pl[p] = PlaceOf(f) /\ li[p] = st[p]
    PROVE  RowsTrue(rs, m, pl, st, li, li, f)
<1> SUFFICES ASSUME NEW p \in Has(li) \ m PROVE RowIsTrue(rs, p, pl, st, li, li, f)
  BY DEF RowsTrue
<1>1. pl[p] = PlaceOf(f) /\ li[p] # "none" /\ li[p] = st[p] BY DEF Has
<1>2. \A d \in DOMAIN rs : ~(rs[d].op = "status" /\ rs[d].post = p) OBVIOUS
<1> QED BY <1>1, <1>2 DEF RowIsTrue

(* Rows drawn anew, from a listing that stays.                             *)
LEMMA DrawnRows ==
    ASSUME NEW rs \in Seq(PostRequest), NEW m, NEW pl, NEW st, NEW li, NEW pa, NEW f,
           RowsTrue(rs, m, pl, st, li, pa, f), RowsHeld(rs, m)
    PROVE  RowsTrue(Detached(rs), m \cup Orphans(rs), pl, st, li, li, f)
<1> DEFINE xs == Detached(rs)
<1>1. /\ DOMAIN xs = DOMAIN rs /\ Orphans(xs) = {}
      /\ \A d \in DOMAIN rs : Same(xs[d], rs[d])
  BY DetachedAre
<1> HIDE DEF xs
<1> SUFFICES ASSUME \A d \in DOMAIN xs : ~Bulky(xs[d]),
                    NEW p \in Has(li) \ (m \cup Orphans(rs))
             PROVE  RowIsTrue(xs, p, pl, st, li, li, f)
  BY <1>1 DEF RowsTrue, xs
<1>2. \A d \in DOMAIN rs : ~Bulky(rs[d]) BY <1>1, SameChanges
<1>3. RowIsTrue(rs, p, pl, st, li, pa, f) BY <1>2 DEF RowsTrue
<1>4. \A d \in DOMAIN rs : ~(rs[d].op = "status" /\ rs[d].post = p)
  BY DEF RowsHeld, Orphans
<1>5. \A d \in DOMAIN rs : /\ xs[d].op = rs[d].op /\ xs[d].post = rs[d].post
                           /\ xs[d].reply = rs[d].reply
  BY <1>1 DEF Same
<1>6. CASE \E d \in DOMAIN rs : Moves(rs[d]) /\ rs[d].post = p /\ rs[d].reply = "ok"
  BY <1>1, <1>5, <1>6 DEF RowIsTrue, Moves
<1>7. CASE ~\E d \in DOMAIN rs : Moves(rs[d]) /\ rs[d].post = p /\ rs[d].reply = "ok"
  <2>1. /\ pl[p] = PlaceOf(f) /\ li[p] # "none"
        /\ (\A c \in DOMAIN rs : rs[c].op \in {"status", "cycle"} /\ rs[c].post = p =>
                                     rs[c].op = "cycle" /\ rs[c].reply # "ok") => li[p] = st[p]
    BY <1>3, <1>7 DEF RowIsTrue
  <2>2. (\A c \in DOMAIN xs : xs[c].op \in {"status", "cycle"} /\ xs[c].post = p =>
                                  xs[c].op = "cycle" /\ xs[c].reply # "ok") => li[p] = st[p]
    BY <1>1, <1>5, <2>1
  <2>3. \A d \in DOMAIN xs : ~(xs[d].op = "status" /\ xs[d].post = p) BY <1>1, <1>4, <1>5
  <2> QED BY <2>1, <2>2, <2>3 DEF RowIsTrue
<1> QED BY <1>6, <1>7

(* A change that is asked for, but not by the select of a row.             *)
LEMMA AppendedRows ==
    ASSUME NEW rs \in Seq(PostRequest), NEW r \in PostRequest, NEW m, NEW n, NEW pl, NEW st,
           NEW li, NEW pa, NEW f, RowsTrue(rs, m, pl, st, li, pa, f), m \subseteq n,
           r.op # "status", ~r.row, r.reply = "none"
    PROVE  RowsTrue(Append(rs, r), n, pl, st, li, pa, f)
<1> DEFINE xs == Append(rs, r)
           k == Len(rs) + 1
<1>1. /\ DOMAIN xs = DOMAIN rs \cup {k} /\ k \notin DOMAIN rs /\ xs[k] = r
      /\ \A d \in DOMAIN rs : xs[d] = rs[d]
  BY AppendedAre
<1> HIDE DEF xs, k
<1>2. Orphans(xs) = Orphans(rs) BY <1>1 DEF Orphans
<1> SUFFICES ASSUME \A d \in DOMAIN xs : ~Bulky(xs[d]),
                    NEW p \in (Has(li) \cup Has(pa) \cup Orphans(rs)) \ n
             PROVE  RowIsTrue(xs, p, pl, st, li, pa, f)
  BY <1>2 DEF RowsTrue, xs
<1>3. \A d \in DOMAIN rs : ~Bulky(rs[d]) BY <1>1
<1>4. RowIsTrue(rs, p, pl, st, li, pa, f) BY <1>3 DEF RowsTrue
<1>5. CASE \E d \in DOMAIN rs : Moves(rs[d]) /\ rs[d].post = p /\ rs[d].reply = "ok"
  BY <1>1, <1>5 DEF RowIsTrue
<1>6. CASE ~\E d \in DOMAIN rs : Moves(rs[d]) /\ rs[d].post = p /\ rs[d].reply = "ok"
  BY <1>1, <1>4, <1>6 DEF RowIsTrue
<1> QED BY <1>5, <1>6

(* A status chosen in a row, of a post that nothing else is changing.      *)
LEMMA ChosenRows ==
    ASSUME NEW rs \in Seq(PostRequest), NEW r \in PostRequest, NEW m, NEW n, NEW pl, NEW st,
           NEW li, NEW pa, NEW pb, NEW f, RowsTrue(rs, m, pl, st, li, pa, f), m \subseteq n,
           r.op = "status", r.row, r.reply = "none", r.post \in Has(pa), r.want # "none",
           r.was = li[r.post], pb[r.post] = r.want, \A p \in Post \ {r.post} : pb[p] = pa[p],
           r.post \in Changing(rs) => r.post \in n, Orphans(rs) \subseteq Post
    PROVE  RowsTrue(Append(rs, r), n, pl, st, li, pb, f)
<1> DEFINE xs == Append(rs, r)
           k == Len(rs) + 1
<1>1. /\ DOMAIN xs = DOMAIN rs \cup {k} /\ k \notin DOMAIN rs /\ xs[k] = r
      /\ \A d \in DOMAIN rs : xs[d] = rs[d]
  BY AppendedAre
<1> HIDE DEF xs, k
<1>2. Orphans(xs) = Orphans(rs) \cup {r.post} BY <1>1 DEF Orphans
<1>3. Has(pb) = Has(pa) BY DEF Has
<1> SUFFICES ASSUME \A d \in DOMAIN xs : ~Bulky(xs[d]),
                    NEW p \in (Has(li) \cup Has(pa) \cup Orphans(rs)) \ n
             PROVE  RowIsTrue(xs, p, pl, st, li, pb, f)
  BY <1>2, <1>3 DEF RowsTrue, xs
<1>4. \A d \in DOMAIN rs : ~Bulky(rs[d]) BY <1>1
<1>5. RowIsTrue(rs, p, pl, st, li, pa, f) BY <1>4 DEF RowsTrue
<1>6. CASE p = r.post
  <2>1. \A d \in DOMAIN rs : rs[d].op # "list" => rs[d].post # p
    BY <1>6 DEF Changing
  <2>2. \A d \in DOMAIN rs : ~(Moves(rs[d]) /\ rs[d].post = p) BY <2>1 DEF Moves
  <2>3. pl[p] = PlaceOf(f) /\ li[p] # "none" /\ li[p] = st[p]
    BY <1>5, <2>1, <2>2 DEF RowIsTrue
  <2>4. \A d \in DOMAIN xs : xs[d].op = "status" /\ xs[d].post = p =>
            xs[d].was = li[p] /\ pb[p] = xs[d].want
    BY <1>1, <1>6, <2>1
  <2>5. ~\A d \in DOMAIN xs : xs[d].op \in {"status", "cycle"} /\ xs[d].post = p =>
                                  xs[d].op = "cycle" /\ xs[d].reply # "ok"
    BY <1>1, <1>6
  <2> QED BY <2>3, <2>4, <2>5 DEF RowIsTrue
<1>7. CASE p # r.post
  <2>1. \A d \in DOMAIN xs : xs[d].post = p => d \in DOMAIN rs /\ xs[d] = rs[d]
    BY <1>1, <1>7
  <2>2. pb[p] = pa[p] BY <1>7 DEF Has
  <2>3. CASE \E d \in DOMAIN rs : Moves(rs[d]) /\ rs[d].post = p /\ rs[d].reply = "ok"
    BY <1>1, <2>3 DEF RowIsTrue
  <2>4. CASE ~\E d \in DOMAIN rs : Moves(rs[d]) /\ rs[d].post = p /\ rs[d].reply = "ok"
    BY <1>1, <1>5, <2>1, <2>2, <2>4 DEF RowIsTrue
  <2> QED BY <2>3, <2>4
<1> QED BY <1>6, <1>7

(* A request that is answered and left nothing to the rows.                *)
LEMMA RemovedRows ==
    ASSUME NEW rs \in Seq(PostRequest), NEW c \in DOMAIN rs, NEW m, NEW pl, NEW st, NEW li,
           NEW pa, NEW f, RowsTrue(rs, m, pl, st, li, pa, f), rs[c].reply # "ok",
           rs[c].op \in {"trash", "restore", "purge"}
    PROVE  RowsTrue(RemoveAt(rs, c), m, pl, st, li, pa, f)
<1> DEFINE xs == RemoveAt(rs, c)
<1>1. /\ \A d \in DOMAIN xs : \E e \in DOMAIN rs \ {c} : xs[d] = rs[e]
      /\ \A e \in DOMAIN rs \ {c} : \E d \in DOMAIN xs : xs[d] = rs[e]
  BY RemovedFrom
<1> HIDE DEF xs
<1> SUFFICES ASSUME \A d \in DOMAIN xs : ~Bulky(xs[d]),
                    NEW p \in (Has(li) \cup Has(pa) \cup Orphans(xs)) \ m
             PROVE  RowIsTrue(xs, p, pl, st, li, pa, f)
  BY DEF RowsTrue, xs
<1>2. \A d \in DOMAIN rs : ~Bulky(rs[d])
  <2>1. ~Bulky(rs[c]) BY DEF Bulky
  <2> QED BY <1>1, <2>1
<1>3. Orphans(xs) \subseteq Orphans(rs) BY <1>1 DEF Orphans
<1>4. RowIsTrue(rs, p, pl, st, li, pa, f) BY <1>2, <1>3 DEF RowsTrue
<1>5. CASE \E d \in DOMAIN rs : Moves(rs[d]) /\ rs[d].post = p /\ rs[d].reply = "ok"
  <2>1. PICK d \in DOMAIN rs : Moves(rs[d]) /\ rs[d].post = p /\ rs[d].reply = "ok" BY <1>5
  <2>2. PICK e \in DOMAIN xs : xs[e] = rs[d] BY <1>1, <2>1
  <2> QED BY <2>1, <2>2 DEF RowIsTrue
<1>6. CASE ~\E d \in DOMAIN rs : Moves(rs[d]) /\ rs[d].post = p /\ rs[d].reply = "ok"
  <2>1. /\ pl[p] = PlaceOf(f) /\ li[p] # "none"
        /\ \A d \in DOMAIN rs :
               rs[d].op = "status" /\ rs[d].post = p =>
                   /\ rs[d].was = li[p] /\ pa[p] = rs[d].want
                   /\ rs[d].reply # "ok" => li[p] = st[p]
        /\ (\A d \in DOMAIN rs : rs[d].op \in {"status", "cycle"} /\ rs[d].post = p =>
                                     rs[d].op = "cycle" /\ rs[d].reply # "ok") =>
               li[p] = st[p] /\ pa[p] = st[p]
    BY <1>4, <1>6 DEF RowIsTrue
  <2>2. \A d \in DOMAIN xs :
            xs[d].op = "status" /\ xs[d].post = p =>
                /\ xs[d].was = li[p] /\ pa[p] = xs[d].want
                /\ xs[d].reply # "ok" => li[p] = st[p]
    BY <1>1, <2>1
  <2>3. ASSUME \A d \in DOMAIN xs : xs[d].op \in {"status", "cycle"} /\ xs[d].post = p =>
                                        xs[d].op = "cycle" /\ xs[d].reply # "ok"
        PROVE  li[p] = st[p] /\ pa[p] = st[p]
    <3>1. \A d \in DOMAIN rs : rs[d].op \in {"status", "cycle"} /\ rs[d].post = p =>
                                   rs[d].op = "cycle" /\ rs[d].reply # "ok"
      BY <1>1, <2>3
    <3> QED BY <2>1, <3>1
  <2> QED BY <2>1, <2>2, <2>3 DEF RowIsTrue
<1> QED BY <1>5, <1>6

(* A status that was changed, or not, in the listing lj and the rows pb    *)
(* that its answer leaves.                                                 *)
LEMMA AnsweredRows ==
    ASSUME NEW rs \in Seq(PostRequest), NEW c \in DOMAIN rs, NEW m, NEW pl, NEW st,
           NEW li, NEW lj, NEW pa, NEW pb, NEW f,
           RowsTrue(rs, m, pl, st, li, pa, f), Pending(rs, m, pl, st),
           rs[c].op \in {"status", "cycle"}, rs[c].reply # "none",
           \A p \in Post \ {rs[c].post} : lj[p] = li[p] /\ pb[p] = pa[p],
           lj[rs[c].post] = IF rs[c].reply = "ok" /\ li[rs[c].post] # "none" THEN rs[c].want
                            ELSE li[rs[c].post],
           pb[rs[c].post] = IF rs[c].op = "cycle" THEN lj[rs[c].post]
                            ELSE IF rs[c].row /\ rs[c].reply # "ok" THEN rs[c].was
                            ELSE pa[rs[c].post]
    PROVE  RowsTrue(RemoveAt(rs, c), m, pl, st, lj, pb, f)
<1> DEFINE xs == RemoveAt(rs, c)
           r == rs[c]
<1>1. /\ \A d \in DOMAIN xs : \E e \in DOMAIN rs \ {c} : xs[d] = rs[e]
      /\ \A e \in DOMAIN rs \ {c} : \E d \in DOMAIN xs : xs[d] = rs[e]
  BY RemovedFrom
<1> HIDE DEF xs
<1>2. /\ \A d \in DOMAIN rs : Formed(rs[d])
      /\ Overlaps(rs, m) /\ RowsHeld(rs, m) /\ Replied(rs, m, st)
  BY DEF Pending
<1>3. r.post \in Post /\ r.want # "none"
  BY <1>2 DEF Formed, Status
<1> SUFFICES ASSUME \A d \in DOMAIN xs : ~Bulky(xs[d]),
                    NEW p \in (Has(lj) \cup Has(pb) \cup Orphans(xs)) \ m
             PROVE  RowIsTrue(xs, p, pl, st, lj, pb, f)
  BY DEF RowsTrue, xs
<1>4. \A d \in DOMAIN rs : ~Bulky(rs[d])
  <2>1. ~Bulky(rs[c]) BY DEF Bulky
  <2> QED BY <1>1, <2>1
<1>5. Orphans(xs) \subseteq Orphans(rs) BY <1>1 DEF Orphans
<1>6. Orphans(rs) \subseteq Post BY <1>2, OrphansAre
<1>7. Has(lj) = Has(li) BY <1>3 DEF Has
<1>8. p \in Post BY <1>5, <1>6 DEF Has
<1>9. CASE p = r.post
  <2>1. \A d \in DOMAIN rs \ {c} : rs[d].op # "list" => rs[d].post # p
    BY <1>2, <1>8, <1>9 DEF Overlaps, Changes
  <2>2. \A d \in DOMAIN xs : rs[c].op # "list" /\ (xs[d].op # "list" => xs[d].post # p)
    BY <1>1, <2>1
  <2>3. p \in Has(li) \cup Has(pa) \cup Orphans(rs)
    <3>1. r.row => p \in Orphans(rs) BY <1>9 DEF Orphans
    <3>2. p \in Has(pb) => pb[p] # "none" BY DEF Has
    <3>3. p \in Has(lj) => lj[p] # "none" BY DEF Has
    <3> QED BY <1>5, <1>7, <1>8, <1>9, <3>1, <3>2, <3>3 DEF Has
  <2>4. RowIsTrue(rs, p, pl, st, li, pa, f) BY <1>4, <2>3 DEF RowsTrue
  <2>5. \A d \in DOMAIN rs : ~(Moves(rs[d]) /\ rs[d].post = p) BY <2>1 DEF Moves
  <2>6. /\ pl[p] = PlaceOf(f) /\ li[p] # "none"
        /\ r.op = "status" => /\ r.was = li[p] /\ pa[p] = r.want
                              /\ r.reply # "ok" => li[p] = st[p]
    BY <1>9, <2>4, <2>5 DEF RowIsTrue
  <2>7. r.op = "cycle" /\ r.reply # "ok" => li[p] = st[p]
    BY <1>9, <2>1, <2>4, <2>5 DEF RowIsTrue
  <2>8. r.reply = "ok" => st[p] = r.want BY <1>2, <1>9 DEF Replied
  <2>9. r.op = "status" => r.row BY <1>2, <1>9 DEF RowsHeld
  <2>10. lj[p] = st[p] /\ lj[p] # "none" /\ pb[p] = st[p]
    BY <1>3, <1>9, <2>6, <2>7, <2>8, <2>9
  <2> QED BY <2>2, <2>6, <2>10 DEF RowIsTrue
<1>10. CASE p # r.post
  <2>1. lj[p] = li[p] /\ pb[p] = pa[p] BY <1>8, <1>10
  <2>2. p \in Has(li) \cup Has(pa) \cup Orphans(rs) BY <1>5, <2>1 DEF Has
  <2>3. RowIsTrue(rs, p, pl, st, li, pa, f) BY <1>4, <2>2 DEF RowsTrue
  <2>4. CASE \E d \in DOMAIN rs : Moves(rs[d]) /\ rs[d].post = p /\ rs[d].reply = "ok"
    <3>1. PICK d \in DOMAIN rs : Moves(rs[d]) /\ rs[d].post = p /\ rs[d].reply = "ok" BY <2>4
    <3>2. PICK e \in DOMAIN xs : xs[e] = rs[d] BY <1>1, <1>10, <3>1
    <3> QED BY <3>1, <3>2 DEF RowIsTrue
  <2>5. CASE ~\E d \in DOMAIN rs : Moves(rs[d]) /\ rs[d].post = p /\ rs[d].reply = "ok"
    <3>1. /\ pl[p] = PlaceOf(f) /\ li[p] # "none"
          /\ \A d \in DOMAIN rs :
                 rs[d].op = "status" /\ rs[d].post = p =>
                     /\ rs[d].was = li[p] /\ pa[p] = rs[d].want
                     /\ rs[d].reply # "ok" => li[p] = st[p]
          /\ (\A d \in DOMAIN rs : rs[d].op \in {"status", "cycle"} /\ rs[d].post = p =>
                                       rs[d].op = "cycle" /\ rs[d].reply # "ok") =>
                 li[p] = st[p] /\ pa[p] = st[p]
      BY <2>3, <2>5 DEF RowIsTrue
    <3>2. \A d \in DOMAIN xs :
              xs[d].op = "status" /\ xs[d].post = p =>
                  /\ xs[d].was = lj[p] /\ pb[p] = xs[d].want
                  /\ xs[d].reply # "ok" => lj[p] = st[p]
      BY <1>1, <2>1, <3>1
    <3>3. ASSUME \A d \in DOMAIN xs : xs[d].op \in {"status", "cycle"} /\ xs[d].post = p =>
                                          xs[d].op = "cycle" /\ xs[d].reply # "ok"
          PROVE  lj[p] = st[p] /\ pb[p] = st[p]
      <4>1. \A d \in DOMAIN rs : rs[d].op \in {"status", "cycle"} /\ rs[d].post = p =>
                                     rs[d].op = "cycle" /\ rs[d].reply # "ok"
        BY <1>1, <1>10, <3>3
      <4> QED BY <2>1, <3>1, <4>1
    <3> QED BY <2>1, <3>1, <3>2, <3>3 DEF RowIsTrue
  <2> QED BY <2>4, <2>5
<1> QED BY <1>9, <1>10

(***************************************************************************)
(* Kinds of steps.                                                         *)
(***************************************************************************)
(* One that leaves the queue and the screen.                               *)
LEMMA OtherListKeeps ==
    ASSUME ListInv, UserShapes', measuring' \subseteq Post, Counted', LeftAlone',
           UNCHANGED <<place, stored, present, url, statusFilter, listing, pagination, painted,
                       muddled, requests, busy, astray, keys, haunted, miscounted>>
    PROVE  ListInv'
<1>1. /\ ListShapes /\ ListFlags /\ Pending(requests, muddled, place, stored)
      /\ Painting /\ LastLoad /\ RowsHold
  BY Zenon DEF ListInv
<1>2. ListShapes' BY <1>1, Zenon DEF ListShapes
<1>3. ListFlags' BY <1>1, Zenon DEF ListFlags
<1>4. Pending(requests, muddled, place, stored)' BY <1>1, Zenon
<1>5. Painting' BY <1>1, Zenon DEF Painting
<1>6. LastLoad' BY <1>1, Zenon DEF LastLoad
<1>7. RowsHold' BY <1>1, Zenon DEF RowsHold
<1>8. UserShapes' /\ Counted' /\ LeftAlone' OBVIOUS
<1> QED BY <1>2, <1>3, <1>4, <1>5, <1>6, <1>7, <1>8, Zenon DEF ListInv

(* Marks, after a request that is no load.                                 *)
LEMMA AppendedMarks ==
    ASSUME NEW rs \in Seq(PostRequest), NEW r \in PostRequest, ~r.last,
           NEW here, NEW u, NEW f, Lasts(rs, here, u, f)
    PROVE  /\ Lasts(Append(rs, r), here, u, f)
           /\ (\E d \in DOMAIN rs : rs[d].last) => \E d \in DOMAIN Append(rs, r) : Append(rs, r)[d].last
           /\ ~r.row => Orphans(Append(rs, r)) = Orphans(rs)
<1> DEFINE xs == Append(rs, r)
           k == Len(rs) + 1
<1>1. /\ DOMAIN xs = DOMAIN rs \cup {k} /\ k \notin DOMAIN rs /\ xs[k] = r
      /\ \A d \in DOMAIN rs : xs[d] = rs[d]
  BY AppendedAre
<1> HIDE DEF xs, k
<1>2. Lasts(xs, here, u, f) BY <1>1 DEF Lasts
<1>3. ~r.row => Orphans(xs) = Orphans(rs) BY <1>1 DEF Orphans
<1>4. (\E d \in DOMAIN rs : rs[d].last) => \E d \in DOMAIN xs : xs[d].last BY <1>1
<1> QED BY <1>2, <1>3, <1>4 DEF xs

(* A change that is asked for.                                             *)
LEMMA AskedKeeps ==
    ASSUME ListInv, NEW r \in PostRequest, requests' = Append(requests, r), Len(requests) < Slots,
           Formed(r), r.reply = "none", ~r.last,
           r.op = "status" => r.row, r.row => painted.kind # "loading",
           muddled \subseteq muddled', muddled' \subseteq Post,
           \A d \in DOMAIN requests : \A p \in Post :
               Changes(requests[d], p) /\ Changes(r, p) => p \in muddled',
           painted'.kind = painted.kind,
           painted' \in [kind : {"loading", "live", "trash"}, rows : Rows],
           RowsHold', present \/ haunted, UserShapes', Counted',
           UNCHANGED <<place, stored, present, url, statusFilter, listing, pagination, measuring,
                       busy, astray, keys, haunted, miscounted>>
    PROVE  ListInv'
<1>1. /\ ListShapes /\ ListFlags /\ Pending(requests, muddled, place, stored)
      /\ Painting /\ LastLoad
  BY Zenon DEF ListInv
<1>2. requests \in Seq(PostRequest) BY <1>1, Zenon DEF ListShapes
<1>3. /\ requests' \in Seq(PostRequest) /\ Len(requests') = Len(requests) + 1
      /\ Len(requests) \in Nat
  BY <1>2, AppendedAre
<1>4. Len(requests') <= Slots
  <2>1. PICK k \in Nat : k = Len(requests) BY <1>3, Zenon
  <2>2. k < Slots /\ Len(requests') = k + 1 BY <1>3, <2>1, Zenon
  <2>3. k + 1 <= Slots BY <2>2, ListSizes
  <2> QED BY <2>2, <2>3, Zenon
<1>5. ListShapes' BY <1>1, <1>3, <1>4, Zenon DEF ListShapes
<1>6. ListFlags' BY <1>1, Zenon DEF ListFlags
<1>7. Pending(requests, muddled, place, stored)'
  <2>1. PICK n : n = muddled' BY Zenon
  <2>2. Pending(Append(requests, r), n, place, stored)
    <3>1. /\ muddled \subseteq n
          /\ \A d \in DOMAIN requests : \A p \in Post :
                 Changes(requests[d], p) /\ Changes(r, p) => p \in n
      BY <2>1, Zenon
    <3> QED BY <1>1, <1>2, <3>1, AppendedPending
  <2> QED BY <2>1, <2>2, Zenon
<1>8. LastLoad'
  <2>1. Lasts(requests, present, url, statusFilter) BY <1>1, Zenon DEF LastLoad
  <2>2. /\ Lasts(Append(requests, r), present, url, statusFilter)
        /\ (\E d \in DOMAIN requests : requests[d].last) =>
               \E d \in DOMAIN Append(requests, r) : Append(requests, r)[d].last
    BY <1>2, <2>1, AppendedMarks
  <2> QED BY <1>1, <2>2, Zenon DEF LastLoad
<1>9. Painting'
  <2>1. painted'.kind = "loading" => Orphans(requests') = {}
    <3>1. Lasts(requests, present, url, statusFilter) BY <1>1, Zenon DEF LastLoad
    <3>2. ~r.row => Orphans(Append(requests, r)) = Orphans(requests)
      BY <1>2, <3>1, AppendedMarks
    <3>3. painted.kind = "loading" => Orphans(requests) = {} BY <1>1, Zenon DEF Painting
    <3> QED BY <3>2, <3>3, Zenon
  <2> QED BY <1>1, <2>1, Zenon DEF Painting
<1>10. LeftAlone' BY Zenon DEF LeftAlone
<1>11. RowsHold' /\ UserShapes' /\ Counted' OBVIOUS
<1> QED BY <1>5, <1>6, <1>7, <1>8, <1>9, <1>10, <1>11, Zenon DEF ListInv

(* Marks, after an answer that is no list.                                 *)
LEMMA RemovedMarks ==
    ASSUME NEW rs \in Seq(PostRequest), NEW c \in DOMAIN rs,
           NEW here, NEW u, NEW f, Lasts(rs, here, u, f)
    PROVE  /\ Lasts(RemoveAt(rs, c), here, u, f)
           /\ (\E d \in DOMAIN rs : rs[d].last) /\ rs[c].op # "list" =>
                  \E d \in DOMAIN RemoveAt(rs, c) : RemoveAt(rs, c)[d].last
           /\ Orphans(RemoveAt(rs, c)) \subseteq Orphans(rs)
           /\ \A d \in DOMAIN RemoveAt(rs, c) :
                  \E e \in DOMAIN rs \ {c} : RemoveAt(rs, c)[d] = rs[e]
<1> DEFINE xs == RemoveAt(rs, c)
<1>1. /\ \A d \in DOMAIN xs : \E e \in DOMAIN rs \ {c} : xs[d] = rs[e]
      /\ \A e \in DOMAIN rs \ {c} : \E d \in DOMAIN xs : xs[d] = rs[e]
  BY RemovedFrom
<1> HIDE DEF xs
<1>2. Lasts(xs, here, u, f) BY <1>1 DEF Lasts
<1>3. Orphans(xs) \subseteq Orphans(rs) BY <1>1 DEF Orphans
<1>4. ASSUME NEW e \in DOMAIN rs, rs[e].last, rs[c].op # "list"
      PROVE  \E d \in DOMAIN xs : xs[d].last
  <2>1. e # c BY <1>4 DEF Lasts
  <2> QED BY <1>1, <1>4, <2>1
<1> QED BY <1>1, <1>2, <1>3, <1>4 DEF xs

(* An answer that is no list, and is not drawn.                            *)
LEMMA HeardKeeps ==
    ASSUME ListInv, NEW c \in DOMAIN requests, requests' = RemoveAt(requests, c),
           requests[c].op # "list",
           painted'.kind = painted.kind, listing' \in Rows,
           painted' \in [kind : {"loading", "live", "trash"}, rows : Rows],
           RowsHold', UserShapes', Counted', UNCHANGED <<dialog, typed>>,
           UNCHANGED <<place, stored, present, url, statusFilter, pagination, resizing, measuring,
                       muddled, busy, astray, keys, haunted, miscounted>>
    PROVE  ListInv'
<1>1. /\ ListShapes /\ ListFlags /\ Pending(requests, muddled, place, stored)
      /\ Painting /\ LastLoad /\ LeftAlone
  BY Zenon DEF ListInv
<1>2. requests \in Seq(PostRequest) /\ Len(requests) <= Slots BY <1>1, Zenon DEF ListShapes
<1>3. /\ RemoveAt(requests, c) \in Seq(PostRequest)
      /\ Len(RemoveAt(requests, c)) = Len(requests) - 1
  BY <1>2, RemovedAre
<1>4. Len(RemoveAt(requests, c)) <= Slots
  <2>1. Len(requests) \in Nat BY <1>2
  <2> QED BY <1>2, <1>3, <2>1, ListSizes
<1>5. ListShapes' BY <1>1, <1>3, <1>4, Zenon DEF ListShapes
<1>6. ListFlags' BY <1>1, Zenon DEF ListFlags
<1>7. Pending(requests, muddled, place, stored)'
  <2>1. Pending(RemoveAt(requests, c), muddled, place, stored) BY <1>1, <1>2, RemovedPending
  <2> QED BY <2>1, Zenon
<1>8. Lasts(requests, present, url, statusFilter) BY <1>1, Zenon DEF LastLoad
<1>9. /\ Lasts(RemoveAt(requests, c), present, url, statusFilter)
      /\ (\E d \in DOMAIN requests : requests[d].last) =>
             \E d \in DOMAIN RemoveAt(requests, c) : RemoveAt(requests, c)[d].last
      /\ Orphans(RemoveAt(requests, c)) \subseteq Orphans(requests)
      /\ \A d \in DOMAIN RemoveAt(requests, c) :
             \E e \in DOMAIN requests \ {c} : RemoveAt(requests, c)[d] = requests[e]
  BY <1>2, <1>8, RemovedMarks
<1>10. LastLoad' BY <1>1, <1>9, Zenon DEF LastLoad
<1>11. Painting'
  <2>1. painted.kind = "loading" => Orphans(requests) = {} BY <1>1, Zenon DEF Painting
  <2>2. painted.kind = "loading" => Orphans(RemoveAt(requests, c)) = {} BY <1>9, <2>1
  <2> QED BY <1>1, <2>2, Zenon DEF Painting
<1>12. LeftAlone'
  <2>1. (\A d \in DOMAIN requests : requests[d].op \in {"list", "status", "cycle"}) =>
            \A d \in DOMAIN requests' : requests'[d].op \in {"list", "status", "cycle"}
    BY <1>9, Zenon
  <2> QED BY <1>1, <2>1, Zenon DEF LeftAlone
<1>13. RowsHold' /\ UserShapes' /\ Counted' OBVIOUS
<1> QED BY <1>5, <1>6, <1>7, <1>10, <1>11, <1>12, <1>13, Zenon DEF ListInv

LEMMA DetachedPending ==
    ASSUME NEW rs \in Seq(PostRequest), NEW m, NEW pl, NEW st, Pending(rs, m, pl, st)
    PROVE  Pending(Detached(rs), m \cup Orphans(rs), pl, st)
<1> DEFINE xs == Detached(rs)
           n == m \cup Orphans(rs)
<1>1. /\ DOMAIN xs = DOMAIN rs
      /\ \A d \in DOMAIN rs : Same(xs[d], rs[d]) /\ ~xs[d].row
  BY DetachedAre
<1>2. \A d \in DOMAIN rs : rs[d].row => rs[d].post \in n BY DEF Orphans
<1>3. m \subseteq n OBVIOUS
<1> HIDE DEF xs, n
<1>4. \A d \in DOMAIN rs : /\ Same(xs[d], rs[d]) /\ (xs[d].row => rs[d].row)
                           /\ (rs[d].row => xs[d].row \/ rs[d].post \in n)
  BY <1>1, <1>2
<1>5. \A d \in DOMAIN rs : \A p \in m : Changes(rs[d], p) => p \in n BY <1>3
<1>6. Pending(xs, n, pl, st) BY <1>1, <1>4, <1>5, RelabelledPending
<1> QED BY <1>6 DEF xs, n

LEMMA DetachedMarks ==
    ASSUME NEW rs \in Seq(PostRequest), NEW here, NEW u, NEW f, Lasts(rs, here, u, f)
    PROVE  /\ Lasts(Detached(rs), here, u, f)
           /\ (\E d \in DOMAIN rs : rs[d].last) => \E d \in DOMAIN Detached(rs) : Detached(rs)[d].last
<1> DEFINE xs == Detached(rs)
<1>1. /\ DOMAIN xs = DOMAIN rs
      /\ \A d \in DOMAIN rs : Same(xs[d], rs[d]) /\ xs[d].last = rs[d].last
  BY DetachedAre
<1> HIDE DEF xs
<1>2. Lasts(xs, here, u, f) BY <1>1 DEF Lasts, Same
<1>3. (\E d \in DOMAIN rs : rs[d].last) => \E d \in DOMAIN xs : xs[d].last BY <1>1
<1> QED BY <1>2, <1>3 DEF xs

LEMMA RowsCount ==
    ASSUME NEW li \in Rows
    PROVE  Cardinality(Has(li)) \in 0..Total
<1>1. Has(li) \in SUBSET Post BY DEF Has
<1> QED BY <1>1, CountOfPosts

LEMMA MeasuringIs ==
    ASSUME NEW li, measuring \subseteq Post
    PROVE  Measuring(li) \subseteq Post
  BY DEF Measuring

(* A redraw, of the requests or of all but one that was answered.          *)
LEMMA DrawKeeps ==
    ASSUME ListInv, NEW rs \in Seq(PostRequest), Draw(rs), Len(rs) <= Slots,
           Pending(rs, muddled, place, stored),
           Lasts(rs, present, url, statusFilter),
           (\E d \in DOMAIN requests : requests[d].last) => \E d \in DOMAIN rs : rs[d].last,
           Orphans(rs) \subseteq Orphans(requests),
           \A d \in DOMAIN rs : \E e \in DOMAIN requests : rs[d] = requests[e],
           listing' \in Rows, NEW pa,
           present /\ ~astray /\ ~busy =>
               RowsTrue(rs, muddled, place, stored, listing', pa, statusFilter),
           UserShapes', Counted',
           UNCHANGED <<place, stored, present, url, statusFilter, pagination, busy, astray, dialog,
                       typed, resizing, haunted, miscounted>>
    PROVE  ListInv'
<1>1. /\ ListShapes /\ UserShapes /\ ListFlags /\ Painting /\ LastLoad /\ LeftAlone
  BY Zenon DEF ListInv
<1>2. present \in BOOLEAN /\ busy \in BOOLEAN /\ keys \in BOOLEAN BY <1>1 DEF ListFlags
<1>3. UserShapes' /\ Counted' OBVIOUS
<1>4. statusFilter' = statusFilter /\ busy' = busy /\ statusFilter \in {"", "trash"}
  BY <1>1, Zenon DEF UserShapes
<1>5. CASE ~present
  <2>1. /\ requests' = rs /\ UNCHANGED <<painted, keys, measuring, muddled>>
    BY <1>5, Zenon DEF Draw, painting
  <2>2. ListShapes' BY <1>1, <2>1, Zenon DEF ListShapes
  <2>3. ListFlags' BY <1>1, <2>1, Zenon DEF ListFlags
  <2>4. Pending(requests, muddled, place, stored)' BY <2>1, Zenon
  <2>5. Painting'
    <3>1. painted.kind = "loading" => Orphans(rs) = {} BY <1>1 DEF Painting
    <3> QED BY <1>1, <2>1, <3>1, Zenon DEF Painting
  <2>6. LastLoad' BY <1>1, <2>1, Zenon DEF LastLoad
  <2>7. RowsHold' BY <1>5, Zenon DEF RowsHold
  <2>8. LeftAlone'
    <3>1. (\A d \in DOMAIN requests : requests[d].op \in {"list", "status", "cycle"}) =>
              \A d \in DOMAIN requests' : requests'[d].op \in {"list", "status", "cycle"}
      BY <2>1, Zenon
    <3> QED BY <1>1, <2>1, <3>1, Zenon DEF LeftAlone
  <2> QED BY <1>3, <2>2, <2>3, <2>4, <2>5, <2>6, <2>7, <2>8, Zenon DEF ListInv
<1>6. CASE present
  <2>1. /\ painted' = IF busy THEN [kind |-> "loading", rows |-> NoRows]
                      ELSE [kind |-> KindOf(statusFilter), rows |-> listing']
        /\ requests' = Detached(rs)
        /\ muddled' = (muddled \cup Orphans(rs))
        /\ keys' \in BOOLEAN
        /\ measuring' = IF busy THEN measuring ELSE Measuring(listing')
    <3>1. /\ painted' = IF busy' THEN [kind |-> "loading", rows |-> NoRows]
                        ELSE [kind |-> IF statusFilter' = "trash" THEN "trash" ELSE "live",
                              rows |-> listing']
          /\ requests' = Detached(rs)
          /\ muddled' = (muddled \cup Orphans(rs))
          /\ keys' = (keys \/ ~busy')
          /\ measuring' = IF busy' THEN measuring ELSE Measuring(listing')
      BY <1>6, Zenon DEF Draw
    <3>2. (IF statusFilter' = "trash" THEN "trash" ELSE "live") = KindOf(statusFilter)
      BY <1>4, Zenon DEF KindOf
    <3>3. keys' \in BOOLEAN BY <3>1, Zenon
    <3>4. CASE busy
      <4>1. painted' = [kind |-> "loading", rows |-> NoRows] /\ measuring' = measuring
        BY <1>4, <3>1, <3>4, Zenon
      <4> QED BY <3>1, <3>3, <3>4, <4>1, Zenon
    <3>5. CASE ~busy
      <4>1. /\ painted' = [kind |-> KindOf(statusFilter), rows |-> listing']
            /\ measuring' = Measuring(listing')
        <5>1. ~busy'
          <6>1. busy = FALSE BY <1>2, <3>5, Zenon
          <6>2. busy' = FALSE BY <1>4, <6>1, Zenon
          <6> QED BY <6>2, Zenon
        <5> QED BY <3>1, <3>2, <5>1
      <4> QED BY <3>1, <3>3, <3>5, <4>1, Zenon
    <3> QED BY <1>2, <3>4, <3>5
  <2>2. /\ Detached(rs) \in Seq(PostRequest) /\ Len(Detached(rs)) = Len(rs)
        /\ Orphans(Detached(rs)) = {}
    BY DetachedAre
  <2>3. ListShapes'
    <3>1. PICK li \in Rows : li = listing' BY Zenon
    <3>2. [kind |-> "loading", rows |-> NoRows]
              \in [kind : {"loading", "live", "trash"}, rows : Rows]
      BY NoRowsIs
    <3>3. [kind |-> KindOf(statusFilter), rows |-> li]
              \in [kind : {"loading", "live", "trash"}, rows : Rows]
      BY DEF KindOf
    <3>4. painted' \in [kind : {"loading", "live", "trash"}, rows : Rows]
      BY <2>1, <3>1, <3>2, <3>3, Zenon
    <3>6. measuring \subseteq Post BY <1>1, Zenon DEF ListShapes
    <3>5. Measuring(li) \subseteq Post BY <3>6, MeasuringIs
    <3>7. measuring' \subseteq Post BY <2>1, <3>1, <3>5, <3>6, Zenon
    <3>8. muddled \cup Orphans(rs) \subseteq Post
      <4>1. muddled \subseteq Post BY <1>1, Zenon DEF ListShapes
      <4>2. Orphans(rs) \subseteq Post BY OrphansAre DEF Pending
      <4> QED BY <4>1, <4>2
    <3> QED BY <1>1, <2>1, <2>2, <3>4, <3>7, <3>8, Zenon DEF ListShapes
  <2>4. ListFlags'
    <3> QED BY <1>1, <2>1, Zenon DEF ListFlags
  <2>5. Pending(requests, muddled, place, stored)'
    <3>1. Pending(Detached(rs), muddled \cup Orphans(rs), place, stored) BY DetachedPending
    <3> QED BY <2>1, <3>1, Zenon
  <2>6. painted'.kind = IF busy THEN "loading" ELSE KindOf(statusFilter)
    BY <1>2, <2>1
  <2>7. ~busy => painted'.rows = listing'
    BY <2>1
  <2>8. Painting'
    <3>1. KindOf(statusFilter) # "loading" BY DEF KindOf
    <3>2. busy <=> painted'.kind = "loading" BY <1>2, <2>6, <3>1
    <3>3. painted'.kind # "loading" => painted'.kind = KindOf(statusFilter) BY <2>6
    <3>4. present' => (busy' <=> painted'.kind = "loading") BY <1>4, <3>2, Zenon
    <3>5. painted'.kind = "loading" => Orphans(requests') = {} BY <2>1, <2>2, Zenon
    <3>6. painted'.kind # "loading" => painted'.kind = KindOf(statusFilter') BY <1>4, <3>3, Zenon
    <3>7. present' BY <1>6, Zenon
    <3> QED BY <3>4, <3>5, <3>6, <3>7, Zenon DEF Painting
  <2>9. LastLoad'
    <3>1. /\ Lasts(Detached(rs), present, url, statusFilter)
          /\ (\E d \in DOMAIN rs : rs[d].last) =>
                 \E d \in DOMAIN Detached(rs) : Detached(rs)[d].last
      BY DetachedMarks
    <3>2. ~busy \/ painted'.kind # "loading" => ~busy BY <2>6
    <3> QED BY <1>1, <2>1, <3>1, <3>2, Zenon DEF LastLoad
  <2>10. RowsHold'
    <3>1. PICK li : li = listing' BY Zenon
    <3>2. ASSUME ~astray, ~busy
          PROVE  RowsTrue(Detached(rs), muddled \cup Orphans(rs), place, stored, li, li, statusFilter)
      <4>1. RowsTrue(rs, muddled, place, stored, li, pa, statusFilter)
        BY <1>6, <3>1, <3>2, Zenon
      <4>2. RowsHeld(rs, muddled) BY DEF Pending
      <4> QED BY <4>1, <4>2, DrawnRows
    <3> QED BY <2>1, <2>7, <3>1, <3>2, Zenon DEF RowsHold
  <2>11. LeftAlone' BY <1>6, Zenon DEF LeftAlone
  <2> QED BY <1>3, <2>3, <2>4, <2>5, <2>8, <2>9, <2>10, <2>11, Zenon DEF ListInv
<1> QED BY <1>2, <1>5, <1>6

(***************************************************************************)
(* The filters and the pages.                                              *)
(***************************************************************************)
Ask(f, w, p) == [filter |-> f, words |-> w, page |-> p]

LEMMA AskIs ==
    ASSUME NEW f \in {"", "trash"}, NEW w \in Words, NEW p \in 0..(Total + 1)
    PROVE  Ask(f, w, p) \in ListQuery /\ Ask(f, w, p).filter = f
  BY DEF Ask, ListQuery

LEMMA ListActCounts ==
    ASSUME UserShapes
    PROVE  /\ acts \in 0..MaxListActs
           /\ ListAct => acts' \in 0..MaxListActs
<1>1. acts \in 0..MaxListActs BY Zenon DEF UserShapes
<1>2. PICK k \in 0..MaxListActs : k = acts BY <1>1
<1>3. k < MaxListActs => k + 1 \in 0..MaxListActs BY ListSizes
<1> QED BY <1>1, <1>2, <1>3 DEF ListAct

LEMMA LoadStep ==
    ASSUME ListInv, NEW f \in {"", "trash"}, NEW w \in Words, NEW p \in 0..(Total + 1),
           LoadList(requests, Ask(f, w, p)), Room, present \/ haunted, f = statusFilter \/ present,
           statusFilter' = f, words' = w, atPage' = 1, perPage' \in 1..Total, fitted' \in BOOLEAN,
           measuring' \subseteq Post, typed' \in {"none", "", "text"},
           acts' \in 0..MaxListActs,
           UNCHANGED <<place, stored, present, room, resizing, listing, pagination, keys, picking,
                       picked, dialog, astray, haunted, miscounted>>
    PROVE  ListInv'
<1>1. /\ ListShapes /\ UserShapes /\ Pending(requests, muddled, place, stored) /\ Counted
  BY Zenon DEF ListInv
<1>2. requests \in Seq(PostRequest) /\ Len(requests) < Slots BY <1>1, Zenon DEF ListShapes, Room
<1>3. Ask(f, w, p) \in ListQuery /\ Ask(f, w, p).filter = f BY AskIs
<1>4. UserShapes' BY <1>1, Zenon DEF UserShapes
<1>5. measuring' \subseteq Post OBVIOUS
<1>6. Counted' BY <1>1, Zenon DEF Counted
<1>7. statusFilter' = statusFilter \/ present OBVIOUS
<1>8. Ask(f, w, p).filter = statusFilter' BY <1>3
<1> QED BY <1>1, <1>2, <1>3, <1>4, <1>5, <1>6, <1>7, <1>8, LoadListKeeps, Zenon

LEMMA StateIs ==
    ASSUME NEW f, NEW w, NEW p, statusFilter' = f, words' = w, atPage' = p
    PROVE  /\ State = Ask(f, w, p)
           /\ \A n : [State EXCEPT !.page = n] = Ask(f, w, n)
  BY DEF State, Ask

LEMMA ChangeFilterKeeps ==
    ASSUME ListInv, NEW s \in {"", "trash"}, ChangeFilter(s)
    PROVE  ListInv'
<1>1. UserShapes /\ ListShapes BY Zenon DEF ListInv
<1>2. /\ ListAct /\ Room /\ present /\ statusFilter' = s /\ atPage' = 1
      /\ UNCHANGED <<words, perPage, fitted, room, resizing, place, stored, present, listing,
                     pagination, keys, measuring, picking, picked, dialog, typed, astray, haunted,
                     miscounted>>
  BY Zenon DEF ChangeFilter, Free, fit, postStore, selection
<1>3. words \in Words /\ words' = words /\ perPage' \in 1..Total /\ fitted' \in BOOLEAN
      /\ typed' \in {"none", "", "text"} /\ measuring' \subseteq Post
  BY <1>1, <1>2, Zenon DEF UserShapes, ListShapes
<1>4. LoadList(requests, Ask(s, words, 1))
  <2>1. State = Ask(s, words, 1) BY <1>2, StateIs
  <2>2. LoadList(requests, State) BY Zenon DEF ChangeFilter
  <2> QED BY <2>1, <2>2, Zenon
<1>5. acts' \in 0..MaxListActs BY <1>1, <1>2, ListActCounts, Zenon
<1>6. 1 \in 0..(Total + 1) BY PageNumbers
<1> QED BY <1>2, <1>3, <1>4, <1>5, <1>6, LoadStep, Zenon

LEMMA ChangeTagKeeps == ASSUME ListInv, ChangeTag PROVE ListInv'
<1>1. UserShapes /\ ListShapes BY Zenon DEF ListInv
<1>2. /\ ListAct /\ Room /\ present /\ words' = (words \ {"tag"}) \cup ({"tag"} \ words)
      /\ atPage' = 1
      /\ UNCHANGED <<statusFilter, perPage, fitted, room, resizing, place, stored, present, listing,
                     pagination, keys, measuring, picking, picked, dialog, typed, astray, haunted,
                     miscounted>>
  BY Zenon DEF ChangeTag, Free, fit, postStore, selection
<1>3. statusFilter \in {"", "trash"} /\ perPage' \in 1..Total /\ fitted' \in BOOLEAN
      /\ typed' \in {"none", "", "text"} /\ measuring' \subseteq Post /\ words \in Words
  BY <1>1, <1>2, Zenon DEF UserShapes, ListShapes
<1>4. PICK w \in Words : w = words'
  <2>1. (words \ {"tag"}) \cup ({"tag"} \ words) \in Words BY <1>3 DEF Words
  <2> QED BY <1>2, <2>1, Zenon
<1>5. LoadList(requests, Ask(statusFilter, w, 1))
  <2>1. State = Ask(statusFilter, w, 1) BY <1>2, <1>4, StateIs
  <2>2. LoadList(requests, State) BY Zenon DEF ChangeTag
  <2> QED BY <2>1, <2>2, Zenon
<1>6. acts' \in 0..MaxListActs BY <1>1, <1>2, ListActCounts, Zenon
<1>7. 1 \in 0..(Total + 1) BY PageNumbers
<1> QED BY <1>2, <1>3, <1>4, <1>5, <1>6, <1>7, LoadStep, Zenon

LEMMA SearchFiresKeeps == ASSUME ListInv, SearchFires PROVE ListInv'
<1>1. UserShapes /\ ListShapes /\ LeftAlone BY Zenon DEF ListInv
<1>2. /\ Room /\ typed # "none" /\ words' = (words \ {"text"}) \cup ({typed} \ {""})
      /\ atPage' = 1 /\ typed' = "none"
      /\ UNCHANGED <<statusFilter, perPage, fitted, room, resizing, place, stored, present, listing,
                     pagination, keys, measuring, picking, picked, dialog, acts, astray, haunted,
                     miscounted>>
  BY Zenon DEF SearchFires, fit, postStore, selection
<1>3. statusFilter \in {"", "trash"} /\ perPage' \in 1..Total /\ fitted' \in BOOLEAN
      /\ typed' \in {"none", "", "text"} /\ measuring' \subseteq Post /\ words \in Words
      /\ typed \in {"none", "", "text"} /\ acts' \in 0..MaxListActs
  BY <1>1, <1>2, Zenon DEF UserShapes, ListShapes
<1>4. PICK w \in Words : w = words'
  <2>1. (words \ {"text"}) \cup ({typed} \ {""}) \in Words BY <1>2, <1>3 DEF Words
  <2> QED BY <1>2, <2>1, Zenon
<1>5. LoadList(requests, Ask(statusFilter, w, 1))
  <2>1. State = Ask(statusFilter, w, 1) BY <1>2, <1>4, StateIs
  <2>2. LoadList(requests, State) BY Zenon DEF SearchFires
  <2> QED BY <2>1, <2>2, Zenon
<1>6. present \/ haunted BY <1>1, <1>2, Zenon DEF LeftAlone
<1>7. 1 \in 0..(Total + 1) BY PageNumbers
<1> QED BY <1>2, <1>3, <1>4, <1>5, <1>6, <1>7, LoadStep, Zenon

LEMMA TurnToKeeps == ASSUME ListInv, NEW p \in Post, TurnTo(p) PROVE ListInv'
<1>1. UserShapes /\ ListShapes /\ ListFlags /\ Painting BY Zenon DEF ListInv
<1>2. /\ ListAct /\ Room /\ keys
      /\ UNCHANGED <<statusFilter, words, atPage, perPage, fitted, room, resizing, place, stored,
                     present, listing, pagination, keys, measuring, picking, picked, dialog, typed,
                     astray, haunted, miscounted>>
  BY Zenon DEF TurnTo, fit, queried, postStore, selection
<1>3. statusFilter \in {"", "trash"} /\ perPage' \in 1..Total /\ fitted' \in BOOLEAN
      /\ typed' \in {"none", "", "text"} /\ measuring' \subseteq Post /\ words \in Words
      /\ atPage' = 1
  BY <1>1, <1>2, Zenon DEF UserShapes, ListShapes
<1>4. LoadList(requests, Ask(statusFilter, words, p))
  <2>1. [State EXCEPT !.page = p] = Ask(statusFilter, words, p)
    <3>1. statusFilter' = statusFilter /\ words' = words BY <1>2, Zenon
    <3> QED BY <1>3, <3>1, StateIs
  <2>2. LoadList(requests, [State EXCEPT !.page = p]) BY Zenon DEF TurnTo
  <2> QED BY <2>1, <2>2, Zenon
<1>5. acts' \in 0..MaxListActs BY <1>1, <1>2, ListActCounts, Zenon
<1>6. present BY <1>1, <1>2, Zenon DEF Painting
<1>7. p \in 0..(Total + 1) BY PageNumbers DEF Post
<1> QED BY <1>2, <1>3, <1>4, <1>5, <1>6, <1>7, LoadStep, Zenon

(* The rows that a window fits, of those that were there.                  *)
LEMMA Quotient ==
    ASSUME NEW a \in Nat, NEW b \in Nat \ {0}, NEW n \in Nat, a <= n * b
    PROVE  a \div b \in 0..n
<1> DEFINE d == a \div b
<1>1. d \in Nat /\ d * b <= a OBVIOUS
<1> HIDE DEF d
<1>2. ASSUME d > n PROVE FALSE
  <2>1. d >= n + 1 BY <1>1, <1>2
  <2>2. d * b >= (n + 1) * b BY <1>1, <2>1
  <2>3. (n + 1) * b = n * b + b OBVIOUS
  <2>4. n * b \in Nat /\ d * b \in Nat BY <1>1
  <2> QED BY <1>1, <2>2, <2>3, <2>4
<1>3. d \in 0..n BY <1>1, <1>2
<1> QED BY <1>3 DEF d

LEMMA FitsIs ==
    ASSUME NEW m \in 0..Total, NEW r \in 1..Total, NEW n \in 0..Total
    PROVE  Larger(1, (m * r) \div Larger(r, n)) \in 1..Total
<1> DEFINE b == Larger(r, n)
           d == (m * r) \div b
<1>1. b \in Nat \ {0} /\ r <= b BY ListSizes DEF Larger
<1> HIDE DEF b
<1>2. m * r \in Nat /\ m * r <= m * b BY <1>1, ListSizes
<1>3. m \in Nat /\ m <= Total BY ListSizes
<1>4. d \in 0..m BY <1>1, <1>2, <1>3, Quotient
<1> HIDE DEF d
<1>5. Larger(1, d) \in 1..Total BY <1>3, <1>4, ListSizes DEF Larger
<1> QED BY <1>5 DEF d, b

LEMMA FirstIs ==
    ASSUME NEW a, a = 1, NEW k \in 1..Total, NEW n \in 1..Total
    PROVE  ((a - 1) * k) \div n + 1 = 1
<1>1. (a - 1) * k = 0 BY ListSizes
<1>2. 0 \div n = 0 BY ListSizes
<1> QED BY <1>1, <1>2

LEMMA RefitKeeps ==
    ASSUME ListInv, Room, present \/ haunted, NEW n \in Post, NEW fits \in Post, Refit(n, fits)
    PROVE  ListInv'
<1> DEFINE first == ((atPage - 1) * perPage) \div fits + 1
<1>1. /\ UserShapes /\ ListShapes /\ LeftAlone /\ Counted BY Zenon DEF ListInv
<1>2. /\ fitted' = TRUE /\ measuring' = measuring \ {n}
      /\ UNCHANGED <<place, stored, present, room, resizing, listing, pagination, keys, picking,
                     picked, dialog, typed, acts, astray, haunted, miscounted>>
  BY Zenon DEF Refit, postStore, selection
<1>3. \/ /\ perPage' = fits /\ UNCHANGED <<statusFilter, words, atPage>>
         /\ LoadList(requests, [State EXCEPT !.page = IF fitted THEN first ELSE atPage])
      \/ UNCHANGED <<url, statusFilter, words, atPage, perPage, busy, painted, muddled, requests>>
  BY Zenon DEF Refit, queried
<1>4. /\ statusFilter \in {"", "trash"} /\ words \in Words /\ atPage = 1 /\ perPage \in 1..Total
      /\ typed \in {"none", "", "text"} /\ acts \in 0..MaxListActs
  BY <1>1, Zenon DEF UserShapes
<1>5. measuring' \subseteq Post
  <2>1. measuring \subseteq Post BY <1>1, Zenon DEF ListShapes
  <2> QED BY <1>2, <2>1
<1>6. fits \in 1..Total BY Zenon DEF Post
<1>7. first = 1 BY <1>4, <1>6, FirstIs, Zenon
<1> HIDE DEF first
<1>8. CASE /\ perPage' = fits /\ UNCHANGED <<statusFilter, words, atPage>>
           /\ LoadList(requests, [State EXCEPT !.page = IF fitted THEN first ELSE atPage])
  <2>1. (IF fitted THEN first ELSE atPage) = 1 BY <1>4, <1>7, Zenon
  <2>2. [State EXCEPT !.page = 1] = Ask(statusFilter, words, 1)
    <3>1. statusFilter' = statusFilter /\ words' = words /\ atPage' = atPage BY <1>8, Zenon
    <3> QED BY <3>1, StateIs
  <2>3. LoadList(requests, Ask(statusFilter, words, 1)) BY <1>8, <2>1, <2>2, Zenon
  <2>4. 1 \in 0..(Total + 1) /\ TRUE \in BOOLEAN BY PageNumbers
  <2>5. /\ statusFilter' = statusFilter /\ words' = words /\ atPage' = 1 /\ perPage' \in 1..Total
        /\ fitted' \in BOOLEAN
        /\ typed' \in {"none", "", "text"} /\ acts' \in 0..MaxListActs
    BY <1>2, <1>4, <1>6, <1>8, <2>4, Zenon
  <2> QED BY <1>2, <1>4, <1>5, <2>3, <2>4, <2>5, LoadStep, Zenon
<1>9. CASE UNCHANGED <<url, statusFilter, words, atPage, perPage, busy, painted, muddled, requests>>
  <2>1. UserShapes'
    <3>1. fitted' \in BOOLEAN BY <1>2, Zenon
    <3> QED BY <1>1, <1>2, <1>9, <3>1, Zenon DEF UserShapes
  <2>2. Counted' BY <1>1, <1>2, Zenon DEF Counted
  <2>3. LeftAlone' BY <1>2, Zenon DEF LeftAlone
  <2> QED BY <1>2, <1>5, <1>9, <2>1, <2>2, <2>3, OtherListKeeps, Zenon
<1> QED BY <1>3, <1>8, <1>9, Zenon

LEMMA MeasureRowsKeeps == ASSUME ListInv, NEW n \in Post, MeasureRows(n) PROVE ListInv'
<1> DEFINE fits == Larger(1, (n * room) \div Larger(room, Cardinality(Has(painted.rows))))
<1>1. UserShapes /\ ListShapes BY Zenon DEF ListInv
<1>2. Room /\ present /\ Refit(n, fits) BY Zenon DEF MeasureRows
<1>3. fits \in Post
  <2>1. painted.rows \in Rows BY <1>1 DEF ListShapes
  <2>2. Cardinality(Has(painted.rows)) \in 0..Total BY <2>1, RowsCount
  <2>3. room \in 1..Total BY <1>1, Zenon DEF UserShapes
  <2>4. n \in 0..Total BY ListSizes DEF Post
  <2>5. fits \in 1..Total BY <2>2, <2>3, <2>4, FitsIs
  <2> QED BY <2>5, Zenon DEF Post
<1> HIDE DEF fits
<1> QED BY <1>2, <1>3, RefitKeeps, Zenon

(* A frame that comes after the page was left.                             *)
LEMMA MeasureElsewhereKeeps ==
    ASSUME ListInv, NEW n \in Post, NEW fits \in Post, MeasureElsewhere(n, fits)
    PROVE  ListInv'
<1>1. /\ UserShapes /\ ListShapes /\ LeftAlone /\ Counted BY Zenon DEF ListInv
<1>2. Room /\ ~present /\ n \in measuring BY Zenon DEF MeasureElsewhere
<1>3. haunted BY <1>1, <1>2 DEF LeftAlone
<1>4. CASE Refit(n, fits) BY <1>2, <1>3, <1>4, RefitKeeps, Zenon
<1>5. CASE /\ measuring' = measuring \ {n}
           /\ UNCHANGED <<place, stored, present, url, statusFilter, words, atPage, perPage, fitted,
                          room, resizing, busy, listing, pagination, painted, keys, muddled,
                          picking, picked, dialog, typed, requests, acts, astray, haunted,
                          miscounted>>
  <2>1. UserShapes' BY <1>1, <1>5, Zenon DEF UserShapes
  <2>2. measuring \subseteq Post BY <1>1, Zenon DEF ListShapes
  <2>3. measuring' \subseteq Post BY <1>5, <2>2
  <2>4. Counted' BY <1>1, <1>5, Zenon DEF Counted
  <2>5. LeftAlone' BY <1>3, <1>5, Zenon DEF LeftAlone
  <2> QED BY <1>5, <2>1, <2>3, <2>4, <2>5, OtherListKeeps, Zenon
<1> QED
  BY <1>4, <1>5, Zenon DEF MeasureElsewhere, postStore, queried, fit, loaded, selection

LEMMA TypeWordsKeeps ==
    ASSUME ListInv, NEW text \in {"", "text"}, TypeWords(text)
    PROVE  ListInv'
<1>1. UserShapes /\ ListShapes /\ LeftAlone /\ Counted BY Zenon DEF ListInv
<1>2. /\ ListAct /\ present /\ typed' = text
      /\ UNCHANGED <<place, stored, present, url, statusFilter, words, atPage, perPage, fitted,
                     room, resizing, busy, listing, pagination, painted, keys, measuring, muddled,
                     picking, picked, dialog, requests, astray, haunted, miscounted>>
  BY Zenon DEF TypeWords, Free, postStore, queried, fit, loaded, painting, selection
<1>3. acts' \in 0..MaxListActs BY <1>1, <1>2, ListActCounts, Zenon
<1>4. typed' \in {"none", "", "text"} BY <1>2
<1>5. UserShapes' BY <1>1, <1>2, <1>3, <1>4, Zenon DEF UserShapes
<1>6. measuring' \subseteq Post BY <1>1, <1>2, Zenon DEF ListShapes
<1>7. Counted' /\ LeftAlone' BY <1>1, <1>2, Zenon DEF Counted, LeftAlone
<1> QED BY <1>2, <1>5, <1>6, <1>7, OtherListKeeps, Zenon

LEMMA ResizeKeeps == ASSUME ListInv, NEW n \in Post, Resize(n) PROVE ListInv'
<1>1. UserShapes /\ ListShapes /\ LeftAlone /\ Counted BY Zenon DEF ListInv
<1>2. /\ ListAct /\ present /\ room' = n /\ resizing' = TRUE
      /\ UNCHANGED <<place, stored, present, url, statusFilter, words, atPage, perPage, fitted,
                     busy, listing, pagination, painted, keys, measuring, muddled, picking,
                     picked, dialog, typed, requests, astray, haunted, miscounted>>
  BY Zenon DEF Resize, postStore, queried, loaded, painting, selection
<1>3. acts' \in 0..MaxListActs BY <1>1, <1>2, ListActCounts, Zenon
<1>4. room' \in 1..Total /\ resizing' \in BOOLEAN BY <1>2, Zenon DEF Post
<1>5. UserShapes' BY <1>1, <1>2, <1>3, <1>4, Zenon DEF UserShapes
<1>6. measuring' \subseteq Post BY <1>1, <1>2, Zenon DEF ListShapes
<1>7. Counted' /\ LeftAlone' BY <1>1, <1>2, Zenon DEF Counted, LeftAlone
<1> QED BY <1>2, <1>5, <1>6, <1>7, OtherListKeeps, Zenon

LEMMA ResizeFiresKeeps == ASSUME ListInv, ResizeFires PROVE ListInv'
<1>1. UserShapes /\ ListShapes /\ LeftAlone /\ Counted BY Zenon DEF ListInv
<1>2. /\ resizing /\ resizing' = FALSE
      /\ measuring' = IF busy THEN measuring ELSE Measuring(listing)
      /\ UNCHANGED <<place, stored, present, url, statusFilter, words, atPage, perPage, fitted,
                     room, busy, listing, pagination, painted, keys, muddled, picking, picked,
                     dialog, typed, requests, acts, astray, haunted, miscounted>>
  BY Zenon DEF ResizeFires, postStore, queried, loaded, selection
<1>3. UserShapes'
  <2>1. resizing' \in BOOLEAN BY <1>2, Zenon
  <2> QED BY <1>1, <1>2, <2>1, Zenon DEF UserShapes
<1>4. measuring' \subseteq Post
  <2>1. measuring \subseteq Post BY <1>1, Zenon DEF ListShapes
  <2>2. Measuring(listing) \subseteq Post BY <2>1, MeasuringIs
  <2> QED BY <1>2, <2>1, <2>2, Zenon
<1>5. present \/ haunted BY <1>1, <1>2, Zenon DEF LeftAlone
<1>6. LeftAlone' BY <1>2, <1>5, Zenon DEF LeftAlone
<1>7. Counted' BY <1>1, <1>2, Zenon DEF Counted
<1> QED BY <1>2, <1>3, <1>4, <1>6, <1>7, OtherListKeeps, Zenon

(***************************************************************************)
(* Changes that are asked for.                                             *)
(***************************************************************************)
Chosen(p, s, old) == [Call("status", p) EXCEPT !.want = s, !.was = old, !.row = TRUE]

LEMMA ChosenIs ==
    ASSUME NEW p \in Post, NEW s \in Status, NEW old \in Status \cup {"none"},
           NEW r, r = Chosen(p, s, old)
    PROVE  /\ r \in PostRequest /\ Formed(r) /\ r.op = "status" /\ r.post = p /\ r.left = {}
           /\ r.want = s /\ r.was = old /\ r.row /\ ~r.last /\ r.reply = "none"
<1>1. p \in 0..Total /\ "status" \in PostOps BY PageNumbers DEF Post, PostOps
<1> DEFINE k == Call("status", p)
<1>2. /\ k \in PostRequest /\ k.op = "status" /\ k.post = p /\ k.left = {} /\ ~k.last
      /\ k.reply = "none"
  BY <1>1, CallIs, Zenon
<1>3. r = [k EXCEPT !.want = s, !.was = old, !.row = TRUE] BY DEF Chosen
<1> HIDE DEF k
<1>4. r \in PostRequest BY <1>2, <1>3 DEF PostRequest
<1>5. /\ r.op = "status" /\ r.post = p /\ r.left = {} /\ r.want = s /\ r.was = old /\ r.row
      /\ ~r.last /\ r.reply = "none"
  BY <1>2, <1>3 DEF PostRequest
<1> QED BY <1>4, <1>5 DEF Formed

Wanting(op, p, want) == [Call(op, p) EXCEPT !.want = want]

LEMMA WantingIs ==
    ASSUME NEW op \in {"cycle", "trash", "restore", "purge"}, NEW p \in Post,
           NEW want \in Status \cup {"none"}, op = "cycle" => want \in Status,
           NEW r, r = Wanting(op, p, want)
    PROVE  /\ r \in PostRequest /\ Formed(r) /\ r.op = op /\ r.post = p /\ r.left = {}
           /\ ~r.row /\ ~r.last /\ r.reply = "none"
<1>1. p \in 0..Total /\ op \in PostOps BY PageNumbers DEF Post, PostOps
<1> DEFINE k == Call(op, p)
<1>2. /\ k \in PostRequest /\ k.op = op /\ k.post = p /\ k.left = {} /\ ~k.last
      /\ k.reply = "none" /\ ~k.row
  BY <1>1, CallIs, Zenon
<1>3. r = [k EXCEPT !.want = want] BY DEF Wanting
<1> HIDE DEF k
<1>4. r \in PostRequest BY <1>2, <1>3 DEF PostRequest
<1>5. /\ r.op = op /\ r.post = p /\ r.left = {} /\ r.want = want /\ ~r.row
      /\ ~r.last /\ r.reply = "none"
  BY <1>2, <1>3 DEF PostRequest
<1> QED BY <1>4, <1>5 DEF Formed

LEMMA PlainIs ==
    ASSUME NEW op \in {"trash", "purge"}, NEW p \in Post, NEW r, r = Call(op, p)
    PROVE  /\ r \in PostRequest /\ Formed(r) /\ r.op = op /\ r.post = p /\ r.left = {}
           /\ ~r.row /\ ~r.last /\ r.reply = "none"
<1>1. p \in 0..Total /\ op \in PostOps BY PageNumbers DEF Post, PostOps
<1>2. /\ r \in PostRequest /\ r.op = op /\ r.post = p /\ r.left = {} /\ ~r.last
      /\ r.reply = "none" /\ ~r.row
  BY <1>1, CallIs, Zenon
<1> QED BY <1>2 DEF Formed

(* The first of a bulk change, of at least one post.                       *)
LEMMA BulkIs ==
    ASSUME NEW op \in {"bulk status", "bulk trash"}, NEW s \in Status \cup {"none"},
           op = "bulk status" => s \in Status, UserShapes, picked # {},
           NEW r, r = Bulk(op, s)
    PROVE  /\ r \in PostRequest /\ Formed(r) /\ r.op = op /\ {r.post} \cup r.left = picked
           /\ ~r.row /\ ~r.last /\ r.reply = "none"
<1> DEFINE p == CHOOSE q \in picked : TRUE
           k == Call(op, p)
<1>1. picked \subseteq Post BY Zenon DEF UserShapes
<1>2. p \in picked BY Zenon
<1>3. r = [k EXCEPT !.left = picked \ {p}, !.want = s] BY Zenon DEF Bulk
<1> HIDE DEF p
<1>4. p \in Post /\ p \in 0..Total /\ op \in PostOps
  BY <1>1, <1>2, PageNumbers DEF Post, PostOps
<1>5. /\ k \in PostRequest /\ k.op = op /\ k.post = p /\ ~k.last /\ k.reply = "none" /\ ~k.row
  BY <1>4, CallIs, Zenon
<1> HIDE DEF k
<1>6. picked \ {p} \in SUBSET Post BY <1>1
<1>7. r \in PostRequest BY <1>3, <1>5, <1>6 DEF PostRequest
<1>8. /\ r.op = op /\ r.post = p /\ r.left = picked \ {p} /\ r.want = s /\ ~r.row
      /\ ~r.last /\ r.reply = "none"
  BY <1>3, <1>5 DEF PostRequest
<1> QED BY <1>2, <1>4, <1>7, <1>8 DEF Formed

LEMMA TouchedIs ==
    ASSUME NEW rs, NEW d \in DOMAIN rs, NEW p, Changes(rs[d], p)
    PROVE  p \in Changing(rs)
  BY DEF Changes, Changing

LEMMA ChangeStatusKeeps ==
    ASSUME ListInv, NEW p \in Post, NEW s \in Status, ChangeStatus(p, s)
    PROVE  ListInv'
<1> DEFINE r == Chosen(p, s, listing[p])
           n == IF Touched(p) THEN muddled \cup {p} ELSE muddled
           pb == [painted.rows EXCEPT ![p] = s]
<1>1. /\ ListShapes /\ UserShapes /\ Pending(requests, muddled, place, stored) /\ RowsHold
      /\ Counted
  BY Zenon DEF ListInv
<1>2. /\ ListAct /\ Room /\ present /\ painted.kind = "live" /\ p \in Has(painted.rows)
      /\ painted' = [painted EXCEPT !.rows[p] = s]
      /\ requests' = Append(requests, r)
      /\ muddled' = n
      /\ UNCHANGED <<place, stored, present, url, statusFilter, words, atPage, perPage, fitted,
                     room, resizing, busy, listing, pagination, keys, measuring, picking, picked,
                     dialog, typed, astray, haunted, miscounted>>
  BY Zenon DEF ChangeStatus, Live, Free, Chosen, postStore, queried, fit, loaded, selection
<1>3. /\ requests \in Seq(PostRequest) /\ muddled \subseteq Post /\ listing \in Rows
      /\ painted \in [kind : {"loading", "live", "trash"}, rows : Rows]
  BY <1>1, Zenon DEF ListShapes
<1>4. listing[p] \in Status \cup {"none"} BY <1>3 DEF Rows
<1>5. /\ r \in PostRequest /\ Formed(r) /\ r.op = "status" /\ r.post = p /\ r.left = {}
      /\ r.want = s /\ r.was = listing[p] /\ r.row /\ ~r.last /\ r.reply = "none"
  BY <1>4, ChosenIs
<1>6. /\ pb \in Rows /\ pb[p] = s /\ \A q \in Post \ {p} : pb[q] = painted.rows[q]
  BY <1>3 DEF Rows
<1>7. painted.kind # "loading" /\ painted'.kind = painted.kind /\ painted'.rows = pb
      /\ painted' \in [kind : {"loading", "live", "trash"}, rows : Rows]
  BY <1>2, <1>3, <1>6
<1>8. /\ muddled \subseteq n /\ n \subseteq Post
      /\ p \in Changing(requests) => p \in n
  BY <1>3 DEF Touched
<1> HIDE DEF r, n, pb
<1>9. \A d \in DOMAIN requests : \A q \in Post :
          Changes(requests[d], q) /\ Changes(r, q) => q \in n
  BY <1>5, <1>8, TouchedIs DEF Changes
<1>10. RowsHold'
  <2>1. ASSUME ~astray, ~busy
        PROVE  RowsTrue(Append(requests, r), n, place, stored, listing, pb, statusFilter)
    <3>1. RowsTrue(requests, muddled, place, stored, listing, painted.rows, statusFilter)
      BY <1>1, <1>2, <2>1, Zenon DEF RowsHold
    <3>2. Orphans(requests) \subseteq Post BY <1>1, <1>3, OrphansAre DEF Pending
    <3>3. r.want # "none" BY <1>5 DEF Status
    <3> QED BY <1>2, <1>3, <1>5, <1>6, <1>8, <3>1, <3>2, <3>3, ChosenRows
  <2> QED BY <1>2, <1>7, <2>1, Zenon DEF RowsHold
<1>11. acts' \in 0..MaxListActs BY <1>1, <1>2, ListActCounts, Zenon
<1>12. UserShapes' BY <1>1, <1>2, <1>11, Zenon DEF UserShapes
<1>13. Counted' BY <1>1, <1>2, Zenon DEF Counted
<1>14. muddled \subseteq muddled' /\ muddled' \subseteq Post BY <1>2, <1>8, Zenon
<1>15. \A d \in DOMAIN requests : \A q \in Post :
          Changes(requests[d], q) /\ Changes(r, q) => q \in muddled'
  BY <1>2, <1>9, Zenon
<1>16. Len(requests) < Slots BY <1>2, Zenon DEF Room
<1> QED BY <1>2, <1>5, <1>7, <1>10, <1>12, <1>13, <1>14, <1>15, <1>16, AskedKeeps, Zenon

(* A change that is asked for, but not by the select of a row.             *)
LEMMA ChangeAskedKeeps ==
    ASSUME ListInv, NEW r \in PostRequest, requests' = Append(requests, r), Room,
           Formed(r), r.op # "status", ~r.row, ~r.last, r.reply = "none",
           NEW ps \in SUBSET Post, {r.post} \cup r.left = ps,
           muddled' = muddled \cup {p \in ps : Touched(p)},
           present \/ haunted, UserShapes', Counted',
           UNCHANGED <<place, stored, present, url, statusFilter, listing, pagination, painted,
                       measuring, busy, astray, keys, haunted, miscounted>>
    PROVE  ListInv'
<1> DEFINE n == muddled \cup {p \in ps : Touched(p)}
<1>1. ListShapes /\ RowsHold BY Zenon DEF ListInv
<1>2. /\ requests \in Seq(PostRequest) /\ muddled \subseteq Post
      /\ painted \in [kind : {"loading", "live", "trash"}, rows : Rows]
  BY <1>1, Zenon DEF ListShapes
<1>3. muddled \subseteq n /\ n \subseteq Post BY <1>2, Zenon
<1>4. \A d \in DOMAIN requests : \A q \in Post :
          Changes(requests[d], q) /\ Changes(r, q) => q \in n
  <2> SUFFICES ASSUME NEW d \in DOMAIN requests, NEW q \in Post,
                      Changes(requests[d], q), Changes(r, q)
               PROVE  q \in n
    BY Zenon
  <2>1. q \in ps BY Zenon DEF Changes
  <2>2. Touched(q) BY TouchedIs, Zenon DEF Touched
  <2> QED BY <2>1, <2>2, Zenon
<1> HIDE DEF n
<1>5. muddled' = n BY Zenon DEF n
<1>6. RowsHold'
  <2>1. ASSUME present, ~astray, ~busy
        PROVE  RowsTrue(Append(requests, r), n, place, stored, listing, painted.rows, statusFilter)
    <3>1. RowsTrue(requests, muddled, place, stored, listing, painted.rows, statusFilter)
      BY <1>1, <2>1, Zenon DEF RowsHold
    <3> QED BY <1>2, <1>3, <3>1, AppendedRows, Zenon
  <2> QED BY <1>5, <2>1, Zenon DEF RowsHold
<1>7. muddled \subseteq muddled' /\ muddled' \subseteq Post BY <1>3, <1>5, Zenon
<1>8. \A d \in DOMAIN requests : \A q \in Post :
          Changes(requests[d], q) /\ Changes(r, q) => q \in muddled'
  BY <1>4, <1>5, Zenon
<1>9. /\ Len(requests) < Slots /\ painted'.kind = painted.kind
      /\ painted' \in [kind : {"loading", "live", "trash"}, rows : Rows]
      /\ (r.op = "status" => r.row) /\ (r.row => painted.kind # "loading")
  BY <1>2, Zenon DEF Room
<1> QED BY <1>6, <1>7, <1>8, <1>9, AskedKeeps, Zenon

LEMMA SendPostKeeps ==
    ASSUME ListInv, NEW p \in Post, NEW op \in {"cycle", "restore"}, SendPost(op, p)
    PROVE  ListInv'
<1> DEFINE want == IF op = "cycle" THEN "published" ELSE "none"
           r == Wanting(op, p, want)
<1>1. UserShapes /\ Counted BY Zenon DEF ListInv
<1>2. /\ ListAct /\ Room /\ present
      /\ requests' = Append(requests, r)
      /\ muddled' = IF Touched(p) THEN muddled \cup {p} ELSE muddled
      /\ UNCHANGED <<place, stored, present, url, statusFilter, words, atPage, perPage, fitted,
                     room, resizing, busy, listing, pagination, painted, keys, measuring, picking,
                     picked, dialog, typed, astray, haunted, miscounted>>
  BY Zenon DEF SendPost, Live, Trashed, Free, Wanting, postStore, queried, fit, loaded, selection
<1>3. want \in Status \cup {"none"} /\ (op = "cycle" => want \in Status)
      /\ op \in {"cycle", "trash", "restore", "purge"}
  BY DEF Status
<1> HIDE DEF want
<1>4. /\ r \in PostRequest /\ Formed(r) /\ r.op = op /\ r.post = p /\ r.left = {}
      /\ ~r.row /\ ~r.last /\ r.reply = "none"
  BY <1>3, WantingIs
<1> HIDE DEF r
<1>5. {r.post} \cup r.left = {p} /\ {p} \in SUBSET Post /\ r.op # "status" BY <1>4
<1>6. muddled' = muddled \cup {q \in {p} : Touched(q)}
  <2>1. (IF Touched(p) THEN muddled \cup {p} ELSE muddled) = muddled \cup {q \in {p} : Touched(q)}
    OBVIOUS
  <2> QED BY <1>2, <2>1, Zenon
<1>7. acts' \in 0..MaxListActs BY <1>1, <1>2, ListActCounts, Zenon
<1>8. UserShapes' /\ Counted' BY <1>1, <1>2, <1>7, Zenon DEF UserShapes, Counted
<1> QED BY <1>2, <1>4, <1>5, <1>6, <1>8, ChangeAskedKeeps, Zenon

LEMMA BulkApplyKeeps ==
    ASSUME ListInv, NEW s \in Status, BulkApply(s)
    PROVE  ListInv'
<1> DEFINE r == Bulk("bulk status", s)
<1>1. UserShapes /\ Counted BY Zenon DEF ListInv
<1>2. /\ ListAct /\ Room /\ present /\ picked # {}
      /\ requests' = Append(requests, r)
      /\ muddled' = muddled \cup {p \in picked : Touched(p)}
      /\ UNCHANGED <<place, stored, present, url, statusFilter, words, atPage, perPage, fitted,
                     room, resizing, busy, listing, pagination, painted, keys, measuring, picking,
                     picked, dialog, typed, astray, haunted, miscounted>>
  BY Zenon DEF BulkApply, Free, postStore, queried, fit, loaded, selection
<1>3. /\ r \in PostRequest /\ Formed(r) /\ r.op = "bulk status" /\ {r.post} \cup r.left = picked
      /\ ~r.row /\ ~r.last /\ r.reply = "none"
  <2>1. s \in Status \cup {"none"} /\ "bulk status" \in {"bulk status", "bulk trash"} OBVIOUS
  <2> QED BY <1>1, <1>2, <2>1, BulkIs, Zenon
<1> HIDE DEF r
<1>4. picked \in SUBSET Post /\ r.op # "status" BY <1>1, <1>3 DEF UserShapes
<1>5. acts' \in 0..MaxListActs BY <1>1, <1>2, ListActCounts, Zenon
<1>6. UserShapes' /\ Counted' BY <1>1, <1>2, <1>5, Zenon DEF UserShapes, Counted
<1> QED BY <1>2, <1>3, <1>4, <1>6, ChangeAskedKeeps, Zenon

LEMMA AskPostKeeps ==
    ASSUME ListInv, NEW p \in 0..Total, NEW kind \in {"trash", "purge", "bulk"}, AskPost(kind, p)
    PROVE  ListInv'
<1> DEFINE count == IF kind = "bulk" THEN Cardinality(picked) ELSE 1
<1>1. UserShapes /\ ListShapes /\ Counted BY Zenon DEF ListInv
<1>2. /\ ListAct /\ present
      /\ dialog' = [kind |-> kind, post |-> p, count |-> count, cut |-> FALSE]
      /\ UNCHANGED <<place, stored, present, url, statusFilter, words, atPage, perPage, fitted,
                     room, resizing, busy, listing, pagination, painted, keys, measuring, muddled,
                     picking, picked, typed, requests, astray, haunted, miscounted>>
  BY Zenon DEF AskPost, Live, Trashed, Free, postStore, queried, fit, loaded, painting, selection
<1>3. kind # "bulk" => p \in Post
  BY Zenon DEF AskPost, Live, Trashed, Has
<1>4. count \in 0..Total
  <2>1. picked \in SUBSET Post BY <1>1 DEF UserShapes
  <2>2. Cardinality(picked) \in 0..Total BY <2>1, CountOfPosts
  <2> QED BY <2>2, PageNumbers, Zenon
<1>5. kind = "bulk" => count = Cardinality(picked) BY Zenon
<1> HIDE DEF count
<1>6. acts' \in 0..MaxListActs BY <1>1, <1>2, ListActCounts, Zenon
<1>7. PICK d : d = dialog' /\ d = [kind |-> kind, post |-> p, count |-> count, cut |-> FALSE]
  BY <1>2, Zenon
<1>8. /\ d \in [kind : {"none", "trash", "purge", "bulk"}, post : 0..Total, count : 0..Total,
                cut : BOOLEAN]
      /\ d.kind = kind /\ d.post = p /\ d.count = count
  BY <1>4, <1>7
<1>9. UserShapes' BY <1>1, <1>2, <1>6, <1>7, <1>8, Zenon DEF UserShapes
<1>10. Counted'
  <2>1. /\ d.kind = "bulk" /\ ~d.cut => d.count = Cardinality(picked)
        /\ d.kind \in {"trash", "purge"} => d.post \in Post
        /\ d.kind # "none"
    BY <1>3, <1>5, <1>8
  <2>2. ~miscounted BY <1>1, Zenon DEF Counted
  <2> QED BY <1>2, <1>7, <2>1, <2>2, Zenon DEF Counted
<1>11. LeftAlone' BY <1>2, Zenon DEF LeftAlone
<1>12. measuring' \subseteq Post BY <1>1, <1>2, Zenon DEF ListShapes
<1> QED BY <1>2, <1>9, <1>10, <1>11, <1>12, OtherListKeeps, Zenon

LEMMA NoDialogIs ==
    /\ NoDialog \in [kind : {"none", "trash", "purge", "bulk"}, post : 0..Total, count : 0..Total,
                     cut : BOOLEAN]
    /\ NoDialog.kind = "none"
  BY PageNumbers DEF NoDialog

LEMMA CancelDialogKeeps == ASSUME ListInv, CancelDialog PROVE ListInv'
<1>1. UserShapes /\ ListShapes /\ Counted /\ LeftAlone BY Zenon DEF ListInv
<1>2. /\ dialog' = NoDialog
      /\ UNCHANGED <<place, stored, present, url, statusFilter, words, atPage, perPage, fitted,
                     room, resizing, busy, listing, pagination, painted, keys, measuring, muddled,
                     picking, picked, typed, requests, acts, astray, haunted, miscounted>>
  BY Zenon DEF CancelDialog, postStore, queried, fit, loaded, painting, selection
<1>3. UserShapes' BY <1>1, <1>2, NoDialogIs, Zenon DEF UserShapes
<1>4. Counted'
  <2>1. NoDialog.kind # "bulk" /\ NoDialog.kind \notin {"trash", "purge"} BY NoDialogIs
  <2>2. ~miscounted BY <1>1, Zenon DEF Counted
  <2> QED BY <1>2, <2>1, <2>2, Zenon DEF Counted
<1>5. LeftAlone' BY <1>1, <1>2, Zenon DEF LeftAlone
<1>6. measuring' \subseteq Post BY <1>1, <1>2, Zenon DEF ListShapes
<1> QED BY <1>2, <1>3, <1>4, <1>5, <1>6, OtherListKeeps, Zenon

LEMMA ConfirmDialogKeeps == ASSUME ListInv, ConfirmDialog PROVE ListInv'
<1>1. UserShapes /\ ListShapes /\ ListFlags /\ Counted /\ LeftAlone
      /\ Pending(requests, muddled, place, stored)
  BY Zenon DEF ListInv
<1>2. /\ Room /\ dialog # NoDialog /\ dialog' = NoDialog
      /\ UNCHANGED <<place, stored, present, listing, pagination, keys, measuring, typed, acts,
                     astray, haunted>>
  BY Zenon DEF ConfirmDialog, postStore
<1>3. dialog.kind \in {"trash", "purge", "bulk"} /\ (present \/ haunted)
  <2>1. dialog.kind # "none" BY <1>1, <1>2, Zenon DEF Counted
  <2>2. present \/ haunted BY <1>1, <1>2, Zenon DEF LeftAlone
  <2>3. dialog.kind \in {"none", "trash", "purge", "bulk"} BY <1>1 DEF UserShapes
  <2> QED BY <2>1, <2>2, <2>3, Zenon
<1>4. miscounted' = miscounted
  <2>1. ~miscounted /\ ~(dialog.kind = "bulk" /\ ~dialog.cut /\ dialog.count # Cardinality(picked))
    BY <1>1, Zenon DEF Counted
  <2>2. miscounted' = (\/ miscounted
                       \/ /\ dialog.kind = "bulk" /\ ~dialog.cut
                          /\ dialog.count # Cardinality(picked))
    BY Zenon DEF ConfirmDialog
  <2>3. ~miscounted' BY <2>1, <2>2, Zenon
  <2>4. miscounted' \in BOOLEAN BY <2>2, Zenon
  <2>5. miscounted = FALSE /\ miscounted' = FALSE
    BY <1>1, <2>1, <2>3, <2>4, Zenon DEF ListFlags
  <2> QED BY <2>5, Zenon
<1>5. Counted'
  <2>1. NoDialog.kind # "bulk" /\ NoDialog.kind \notin {"trash", "purge"} BY NoDialogIs
  <2>2. ~miscounted' BY <1>1, <1>4, Zenon DEF Counted
  <2> QED BY <1>2, <2>1, <2>2, Zenon DEF Counted
<1>6. CASE dialog.kind = "bulk" /\ picked = {}
  <2>1. /\ picking' = FALSE /\ picked' = {}
        /\ UNCHANGED <<statusFilter, words, atPage, perPage, fitted, room, resizing>>
        /\ LoadList(requests, State)
    BY <1>6, Zenon DEF ConfirmDialog, BulkEnds, queried, fit
  <2>2. /\ statusFilter \in {"", "trash"} /\ words \in Words /\ atPage = 1
        /\ perPage \in 1..Total
    BY <1>1, Zenon DEF UserShapes
  <2>3. State = Ask(statusFilter, words, 1)
    <3>1. statusFilter' = statusFilter /\ words' = words /\ atPage' = 1 BY <2>1, <2>2, Zenon
    <3> QED BY <3>1, StateIs
  <2>4. Ask(statusFilter, words, 1) \in ListQuery
        /\ Ask(statusFilter, words, 1).filter = statusFilter
    BY <2>2, PageNumbers, AskIs
  <2>5. UserShapes'
    <3>1. FALSE \in BOOLEAN /\ {} \subseteq Post OBVIOUS
    <3> QED BY <1>1, <1>2, <2>1, <3>1, NoDialogIs, Zenon DEF UserShapes
  <2>6. requests \in Seq(PostRequest) /\ Len(requests) < Slots /\ measuring' \subseteq Post
    BY <1>1, <1>2, Zenon DEF ListShapes, Room
  <2>7. LoadList(requests, Ask(statusFilter, words, 1)) BY <2>1, <2>3, Zenon
  <2>8. perPage' \in 1..Total /\ statusFilter' = statusFilter BY <2>1, <2>2, Zenon
  <2>9. Ask(statusFilter, words, 1).filter = statusFilter' BY <2>4, <2>8, Zenon
  <2>10. UNCHANGED <<place, stored, present, room, resizing, listing, pagination, keys, astray,
                     haunted, miscounted>>
    BY <1>2, <1>4, <2>1, Zenon
  <2>11. /\ statusFilter' = statusFilter \/ present
         /\ Orphans(requests) = {} => Orphans(requests) = {}
    BY <2>8, Zenon
  <2> QED
    BY <1>1, <1>3, <1>5, <2>4, <2>5, <2>6, <2>7, <2>8, <2>9, <2>10, <2>11, LoadListKeeps, Zenon
<1>7. CASE ~(dialog.kind = "bulk" /\ picked = {})
  <2> DEFINE r == IF dialog.kind = "bulk" THEN Bulk("bulk trash", "none")
                  ELSE Call(dialog.kind, dialog.post)
             ps == IF dialog.kind = "bulk" THEN picked ELSE {dialog.post}
  <2>1. /\ requests' = Append(requests, r)
        /\ muddled' = muddled \cup {p \in ps : Touched(p)}
        /\ UNCHANGED <<url, statusFilter, words, atPage, perPage, fitted, room, resizing, busy,
                       painted, picking, picked>>
    BY <1>7, Zenon DEF ConfirmDialog, queried, fit, selection
  <2>2. /\ r \in PostRequest /\ Formed(r) /\ r.op # "status" /\ {r.post} \cup r.left = ps
        /\ ~r.row /\ ~r.last /\ r.reply = "none" /\ ps \in SUBSET Post
    <3>1. CASE dialog.kind = "bulk"
      <4>1. r = Bulk("bulk trash", "none") /\ ps = picked /\ picked # {} BY <1>7, <3>1
      <4>2. "none" \in Status \cup {"none"} /\ "bulk trash" \in {"bulk status", "bulk trash"}
        OBVIOUS
      <4> HIDE DEF r, ps
      <4>3. /\ r \in PostRequest /\ Formed(r) /\ r.op = "bulk trash" /\ {r.post} \cup r.left = picked
            /\ ~r.row /\ ~r.last /\ r.reply = "none"
        BY <1>1, <4>1, <4>2, BulkIs
      <4>4. picked \in SUBSET Post BY <1>1 DEF UserShapes
      <4> QED BY <4>1, <4>3, <4>4
    <3>2. CASE dialog.kind # "bulk"
      <4>1. r = Call(dialog.kind, dialog.post) /\ ps = {dialog.post} BY <3>2
      <4>2. dialog.kind \in {"trash", "purge"} /\ dialog.post \in Post
        BY <1>1, <1>3, <3>2 DEF Counted
      <4> HIDE DEF r, ps
      <4>3. /\ r \in PostRequest /\ Formed(r) /\ r.op = dialog.kind /\ r.post = dialog.post
            /\ r.left = {} /\ ~r.row /\ ~r.last /\ r.reply = "none"
        BY <4>1, <4>2, PlainIs
      <4> QED BY <4>1, <4>2, <4>3
    <3> QED BY <3>1, <3>2
  <2> HIDE DEF r, ps
  <2>3. UserShapes' BY <1>1, <1>2, <2>1, NoDialogIs, Zenon DEF UserShapes
  <2> QED BY <1>2, <1>3, <1>4, <1>5, <2>1, <2>2, <2>3, ChangeAskedKeeps, Zenon
<1> QED BY <1>6, <1>7

(***************************************************************************)
(* Selection.                                                              *)
(***************************************************************************)
LEMMA SelectKeeps ==
    ASSUME ListInv, NEW mode \in BOOLEAN, NEW ids \in SUBSET Post, Select(mode, ids),
           dialog = NoDialog
    PROVE  ListInv'
<1>1. UserShapes /\ ListShapes /\ RowsHold /\ LastLoad
      /\ Pending(requests, muddled, place, stored) /\ Counted
  BY Zenon DEF ListInv
<1>2. /\ picking' = mode /\ picked' = ids /\ Draw(requests)
      /\ UNCHANGED <<statusFilter, words, atPage, busy, listing, pagination, place, stored,
                     present, url, perPage, fitted, room, resizing, dialog, typed, acts, astray,
                     haunted, miscounted>>
  BY Zenon DEF Select, postStore, queried, loaded, fit
<1>3. requests \in Seq(PostRequest) /\ Len(requests) <= Slots /\ listing \in Rows
  BY <1>1, Zenon DEF ListShapes
<1>4. UserShapes' BY <1>1, <1>2, Zenon DEF UserShapes
<1>5. Counted'
  <2>1. NoDialog.kind # "bulk" /\ NoDialog.kind \notin {"trash", "purge"} BY NoDialogIs
  <2>2. dialog' = NoDialog /\ ~miscounted' BY <1>1, <1>2, Zenon DEF Counted
  <2> QED BY <2>1, <2>2, Zenon DEF Counted
<1>6. Lasts(requests, present, url, statusFilter) BY <1>1, Zenon DEF LastLoad
<1>7. listing' \in Rows BY <1>2, <1>3, Zenon
<1>8. present /\ ~astray /\ ~busy =>
          RowsTrue(requests, muddled, place, stored, listing', painted.rows, statusFilter)
  <2>1. present /\ ~astray /\ ~busy =>
            RowsTrue(requests, muddled, place, stored, listing, painted.rows, statusFilter)
    BY <1>1, Zenon DEF RowsHold
  <2> QED BY <1>2, <2>1, Zenon
<1>9. /\ Orphans(requests) \subseteq Orphans(requests)
      /\ \A d \in DOMAIN requests : \E e \in DOMAIN requests : requests[d] = requests[e]
  BY Zenon
<1> QED BY <1>1, <1>2, <1>3, <1>4, <1>5, <1>6, <1>7, <1>8, <1>9, DrawKeeps, Zenon

LEMMA ToggledIs ==
    ASSUME UserShapes, NEW p \in Post
    PROVE  ToggledPost(p) \in SUBSET Post /\ (ToggledPost(p) # {}) \in BOOLEAN
<1>1. picked \subseteq Post BY Zenon DEF UserShapes
<1> QED BY <1>1 DEF ToggledPost

LEMMA ToggleModeKeeps == ASSUME ListInv, ToggleMode PROVE ListInv'
<1>1. UserShapes BY Zenon DEF ListInv
<1>2. dialog = NoDialog /\ Select(~picking, {}) BY Zenon DEF ToggleMode, Free
<1>4. (~picking) \in BOOLEAN /\ {} \in SUBSET Post BY Zenon
<1> QED BY <1>2, <1>4, SelectKeeps, Zenon

LEMMA PickCardKeeps == ASSUME ListInv, NEW p \in Post, PickCard(p) PROVE ListInv'
<1>1. UserShapes BY Zenon DEF ListInv
<1>2. dialog = NoDialog /\ Select(ToggledPost(p) # {}, ToggledPost(p))
  BY Zenon DEF PickCard, Live, Free
<1>4. ToggledPost(p) \in SUBSET Post /\ (ToggledPost(p) # {}) \in BOOLEAN BY <1>1, ToggledIs
<1> QED BY <1>2, <1>4, SelectKeeps, Zenon

LEMMA PickAllKeeps == ASSUME ListInv, NEW checked \in BOOLEAN, PickAll(checked) PROVE ListInv'
<1> DEFINE ids == IF checked THEN Has(listing) ELSE {}
<1>1. UserShapes BY Zenon DEF ListInv
<1>2. dialog = NoDialog /\ Select(ids # {}, ids) BY Zenon DEF PickAll, Free
<1>4. ids \in SUBSET Post /\ (ids # {}) \in BOOLEAN BY Zenon DEF Has
<1> HIDE DEF ids
<1> QED BY <1>2, <1>4, SelectKeeps, Zenon

LEMMA PickRowKeeps == ASSUME ListInv, NEW p \in Post, PickRow(p) PROVE ListInv'
<1>1. UserShapes /\ ListShapes /\ LeftAlone /\ Counted BY Zenon DEF ListInv
<1>2. dialog = NoDialog /\ present BY Zenon DEF PickRow, Live, Free
<1>4. ToggledPost(p) \in SUBSET Post BY <1>1, ToggledIs
<1>5. CASE ToggledPost(p) = {}
  <2>1. Select(FALSE, {}) BY <1>5, Zenon DEF PickRow
  <2>2. FALSE \in BOOLEAN /\ {} \in SUBSET Post OBVIOUS
  <2> QED BY <1>2, <2>1, <2>2, SelectKeeps, Zenon
<1>6. CASE ToggledPost(p) # {}
  <2>1. /\ picked' = ToggledPost(p)
        /\ UNCHANGED <<place, stored, present, url, statusFilter, words, atPage, perPage, fitted,
                       room, resizing, busy, listing, pagination, painted, keys, measuring, muddled,
                       picking, dialog, typed, requests, acts, astray, haunted, miscounted>>
    BY <1>6, Zenon DEF PickRow, postStore, queried, fit, loaded, painting
  <2>2. UserShapes' BY <1>1, <1>4, <2>1, Zenon DEF UserShapes
  <2>3. Counted'
    <3>1. NoDialog.kind # "bulk" /\ NoDialog.kind \notin {"trash", "purge"} BY NoDialogIs
    <3>2. dialog' = NoDialog /\ ~miscounted' BY <1>1, <1>2, <2>1, Zenon DEF Counted
    <3> QED BY <3>1, <3>2, Zenon DEF Counted
  <2>4. LeftAlone' BY <1>2, <2>1, Zenon DEF LeftAlone
  <2>5. measuring' \subseteq Post BY <1>1, <2>1, Zenon DEF ListShapes
  <2> QED BY <2>1, <2>2, <2>3, <2>4, <2>5, OtherListKeeps, Zenon
<1> QED BY <1>5, <1>6

(***************************************************************************)
(* The server answers.                                                     *)
(***************************************************************************)
(* The same request, but for what was answered and what is stale since.    *)
Alike(x, r) ==
    /\ x.op = r.op /\ x.post = r.post /\ x.left = r.left /\ x.want = r.want /\ x.was = r.was
    /\ x.row = r.row /\ x.query = r.query /\ x.per = r.per /\ x.last = r.last

LEMMA AlikeQueue ==
    ASSUME NEW rs, NEW xs, DOMAIN xs = DOMAIN rs, \A d \in DOMAIN rs : Alike(xs[d], rs[d])
    PROVE  /\ (\A d \in DOMAIN rs : Formed(rs[d])) => \A d \in DOMAIN xs : Formed(xs[d])
           /\ \A m : Overlaps(rs, m) => Overlaps(xs, m)
           /\ \A m : RowsHeld(rs, m) => RowsHeld(xs, m)
           /\ Orphans(xs) = Orphans(rs)
           /\ \A here, u, f : Lasts(rs, here, u, f) => Lasts(xs, here, u, f)
           /\ (\E d \in DOMAIN rs : rs[d].last) => \E d \in DOMAIN xs : xs[d].last
<1>1. (\A d \in DOMAIN rs : Formed(rs[d])) => \A d \in DOMAIN xs : Formed(xs[d])
  BY DEF Alike, Formed
<1>2. \A d \in DOMAIN rs : \A p : Changes(xs[d], p) <=> Changes(rs[d], p)
  BY DEF Alike, Changes
<1>3. \A m : Overlaps(rs, m) => Overlaps(xs, m) BY <1>2 DEF Overlaps
<1>4. \A m : RowsHeld(rs, m) => RowsHeld(xs, m) BY DEF RowsHeld, Alike
<1>5. Orphans(xs) = Orphans(rs) BY DEF Orphans, Alike
<1>6. \A here, u, f : Lasts(rs, here, u, f) => Lasts(xs, here, u, f) BY DEF Lasts, Alike
<1>7. (\E d \in DOMAIN rs : rs[d].last) => \E d \in DOMAIN xs : xs[d].last BY DEF Alike
<1> QED BY <1>1, <1>3, <1>4, <1>5, <1>6, <1>7

(* An answer that failed, or lists posts: no row is touched.               *)
LEMMA AlikeRows ==
    ASSUME NEW rs, NEW xs, DOMAIN xs = DOMAIN rs, \A d \in DOMAIN rs : Alike(xs[d], rs[d]),
           \A d \in DOMAIN rs : rs[d].op # "list" => (xs[d].reply = "ok" <=> rs[d].reply = "ok"),
           NEW m, NEW pl, NEW st, NEW li, NEW pa, NEW f, RowsTrue(rs, m, pl, st, li, pa, f)
    PROVE  RowsTrue(xs, m, pl, st, li, pa, f)
<1> SUFFICES ASSUME \A d \in DOMAIN xs : ~Bulky(xs[d]),
                    NEW p \in (Has(li) \cup Has(pa) \cup Orphans(xs)) \ m
             PROVE  RowIsTrue(xs, p, pl, st, li, pa, f)
  BY DEF RowsTrue
<1>1. \A d \in DOMAIN rs : ~Bulky(rs[d]) BY DEF Alike, Bulky
<1>2. Orphans(xs) = Orphans(rs) BY AlikeQueue
<1>3. RowIsTrue(rs, p, pl, st, li, pa, f) BY <1>1, <1>2 DEF RowsTrue
<1>4. \A d \in DOMAIN rs :
          /\ xs[d].op = rs[d].op /\ xs[d].post = rs[d].post /\ xs[d].want = rs[d].want
          /\ xs[d].was = rs[d].was /\ (Moves(xs[d]) <=> Moves(rs[d]))
  BY DEF Alike, Moves
<1>5. CASE \E d \in DOMAIN rs : Moves(rs[d]) /\ rs[d].post = p /\ rs[d].reply = "ok"
  <2>1. PICK d \in DOMAIN rs : Moves(rs[d]) /\ rs[d].post = p /\ rs[d].reply = "ok" BY <1>5
  <2>2. rs[d].op # "list" BY <2>1 DEF Moves
  <2> QED BY <1>4, <2>1, <2>2 DEF RowIsTrue
<1>6. CASE ~\E d \in DOMAIN rs : Moves(rs[d]) /\ rs[d].post = p /\ rs[d].reply = "ok"
  <2>1. /\ pl[p] = PlaceOf(f) /\ li[p] # "none"
        /\ \A d \in DOMAIN rs :
               rs[d].op = "status" /\ rs[d].post = p =>
                   /\ rs[d].was = li[p] /\ pa[p] = rs[d].want
                   /\ rs[d].reply # "ok" => li[p] = st[p]
        /\ (\A d \in DOMAIN rs : rs[d].op \in {"status", "cycle"} /\ rs[d].post = p =>
                                     rs[d].op = "cycle" /\ rs[d].reply # "ok") =>
               li[p] = st[p] /\ pa[p] = st[p]
    BY <1>3, <1>6 DEF RowIsTrue
  <2>2. \A d \in DOMAIN xs :
            xs[d].op = "status" /\ xs[d].post = p =>
                /\ xs[d].was = li[p] /\ pa[p] = xs[d].want
                /\ xs[d].reply # "ok" => li[p] = st[p]
    BY <1>4, <2>1
  <2>3. ASSUME \A d \in DOMAIN xs : xs[d].op \in {"status", "cycle"} /\ xs[d].post = p =>
                                        xs[d].op = "cycle" /\ xs[d].reply # "ok"
        PROVE  li[p] = st[p] /\ pa[p] = st[p]
    <3>1. \A d \in DOMAIN rs : rs[d].op \in {"status", "cycle"} /\ rs[d].post = p =>
                                   rs[d].op = "cycle" /\ rs[d].reply # "ok"
      BY <1>4, <2>3
    <3> QED BY <2>1, <3>1
  <2> QED BY <2>1, <2>2, <2>3 DEF RowIsTrue
<1> QED BY <1>5, <1>6

(* A change that the server made.                                          *)
Made(rs, xs, c) ==
    /\ DOMAIN xs = DOMAIN rs /\ \A d \in DOMAIN rs : Alike(xs[d], rs[d])
    /\ rs[c].op # "list" /\ rs[c].reply = "none" /\ xs[c].reply = "ok"
    /\ \A d \in DOMAIN rs \ {c} :
           /\ xs[d].reply = rs[d].reply /\ xs[d].data = rs[d].data
           /\ rs[d].op = "list" /\ rs[d].reply = "ok" => xs[d].stale = rs[d].stale \cup {rs[c].post}

Moved(r, pl, st, pl2, st2) ==
    /\ \A p \in Post \ {r.post} : pl2[p] = pl[p] /\ st2[p] = st[p]
    /\ r.op \in {"status", "cycle"} => pl2 = pl /\ st2[r.post] = r.want

LEMMA MadePending ==
    ASSUME NEW rs, NEW xs, NEW c \in DOMAIN rs, Made(rs, xs, c), NEW m,
           NEW pl, NEW st, NEW pl2, NEW st2, Moved(rs[c], pl, st, pl2, st2),
           Pending(rs, m, pl, st)
    PROVE  Pending(xs, m, pl2, st2)
<1>1. /\ \A d \in DOMAIN rs : Formed(rs[d])
      /\ Overlaps(rs, m) /\ RowsHeld(rs, m) /\ Replied(rs, m, st) /\ DataRead(rs, pl, st)
  BY DEF Pending
<1>2. /\ DOMAIN xs = DOMAIN rs /\ \A d \in DOMAIN rs : Alike(xs[d], rs[d])
      /\ rs[c].op # "list" /\ rs[c].reply = "none" /\ xs[c].reply = "ok"
      /\ \A d \in DOMAIN rs \ {c} :
             /\ xs[d].reply = rs[d].reply /\ xs[d].data = rs[d].data
             /\ rs[d].op = "list" /\ rs[d].reply = "ok" =>
                    xs[d].stale = rs[d].stale \cup {rs[c].post}
  BY DEF Made
<1>3. (\A d \in DOMAIN xs : Formed(xs[d])) /\ Overlaps(xs, m) /\ RowsHeld(xs, m)
  BY <1>1, <1>2, AlikeQueue
<1>4. Replied(xs, m, st2)
  <2> SUFFICES ASSUME NEW d \in DOMAIN xs, xs[d].op \in {"status", "cycle"}, xs[d].reply = "ok",
                      xs[d].post \notin m
               PROVE  st2[xs[d].post] = xs[d].want
    BY DEF Replied
  <2>1. rs[d].op = xs[d].op /\ rs[d].post = xs[d].post /\ rs[d].want = xs[d].want
    BY <1>2 DEF Alike
  <2>2. CASE d = c BY <2>1, <2>2 DEF Moved
  <2>3. CASE d # c
    <3>1. st[rs[d].post] = rs[d].want BY <1>1, <1>2, <2>1, <2>3 DEF Replied
    <3>2. rs[d].post \in Post BY <1>1, <1>2, <2>1 DEF Formed
    <3>3. rs[d].post # rs[c].post
      BY <1>1, <1>2, <2>1, <2>3, <3>2 DEF Overlaps, Changes
    <3> QED BY <2>1, <3>1, <3>2, <3>3 DEF Moved
  <2> QED BY <2>2, <2>3
<1>5. DataRead(xs, pl2, st2)
  <2> SUFFICES ASSUME NEW d \in DOMAIN xs, xs[d].op = "list", xs[d].reply = "ok",
                      NEW p \in Has(xs[d].data) \ xs[d].stale
               PROVE  pl2[p] = PlaceOf(xs[d].query.filter) /\ xs[d].data[p] = st2[p]
    BY DEF DataRead
  <2>1. d \in DOMAIN rs \ {c} /\ rs[d].op = "list" /\ xs[d].query = rs[d].query
    BY <1>2 DEF Alike
  <2>2. rs[d].reply = "ok" /\ xs[d].data = rs[d].data
        /\ xs[d].stale = rs[d].stale \cup {rs[c].post}
    BY <1>2, <2>1
  <2>3. p \in Post \ {rs[c].post} /\ p \in Has(rs[d].data) \ rs[d].stale BY <2>2 DEF Has
  <2>4. pl[p] = PlaceOf(rs[d].query.filter) /\ rs[d].data[p] = st[p]
    BY <1>1, <2>1, <2>2, <2>3 DEF DataRead
  <2> QED BY <2>1, <2>2, <2>3, <2>4 DEF Moved
<1> QED BY <1>3, <1>4, <1>5 DEF Pending

LEMMA MadeRows ==
    ASSUME NEW rs, NEW xs, NEW c \in DOMAIN rs, Made(rs, xs, c), NEW m,
           NEW pl, NEW st, NEW pl2, NEW st2, Moved(rs[c], pl, st, pl2, st2),
           Pending(rs, m, pl, st), rs \in Seq(PostRequest),
           NEW li, NEW pa, NEW f, RowsTrue(rs, m, pl, st, li, pa, f)
    PROVE  RowsTrue(xs, m, pl2, st2, li, pa, f)
<1> DEFINE r == rs[c]
<1>1. (\A d \in DOMAIN rs : Formed(rs[d])) /\ Overlaps(rs, m)
  BY DEF Pending
<1>2. /\ DOMAIN xs = DOMAIN rs /\ \A d \in DOMAIN rs : Alike(xs[d], rs[d])
      /\ r.op # "list" /\ r.reply = "none" /\ xs[c].reply = "ok"
      /\ \A d \in DOMAIN rs \ {c} : xs[d].reply = rs[d].reply
  BY DEF Made
<1> SUFFICES ASSUME \A d \in DOMAIN xs : ~Bulky(xs[d]),
                    NEW p \in (Has(li) \cup Has(pa) \cup Orphans(xs)) \ m
             PROVE  RowIsTrue(xs, p, pl2, st2, li, pa, f)
  BY DEF RowsTrue
<1>3. \A d \in DOMAIN rs : ~Bulky(rs[d]) BY <1>2 DEF Alike, Bulky
<1>4. Orphans(xs) = Orphans(rs) /\ Orphans(rs) \subseteq Post BY <1>1, <1>2, AlikeQueue, OrphansAre
<1>5. RowIsTrue(rs, p, pl, st, li, pa, f) BY <1>3, <1>4 DEF RowsTrue
<1>6. p \in Post BY <1>4 DEF Has
<1>7. \A d \in DOMAIN rs :
          /\ xs[d].op = rs[d].op /\ xs[d].post = rs[d].post /\ xs[d].want = rs[d].want
          /\ xs[d].was = rs[d].was /\ (Moves(xs[d]) <=> Moves(rs[d]))
  BY <1>2 DEF Alike, Moves
<1>8. CASE p = r.post /\ Moves(r)
  BY <1>2, <1>7, <1>8 DEF RowIsTrue
<1>9. CASE p = r.post /\ ~Moves(r)
  <2>1. r.op \in {"status", "cycle"}
    <3>1. r \in PostRequest OBVIOUS
    <3>2. ~Bulky(r) BY <1>3
    <3> QED BY <1>2, <1>9, <3>1, <3>2 DEF PostRequest, Bulky, Moves
  <2>2. pl2 = pl /\ st2[p] = r.want BY <1>9, <2>1 DEF Moved
  <2>3. \A d \in DOMAIN rs \ {c} : rs[d].op # "list" => rs[d].post # p
    BY <1>1, <1>2, <1>6, <1>9 DEF Overlaps, Changes
  <2>4. \A d \in DOMAIN rs : ~(Moves(rs[d]) /\ rs[d].post = p) BY <1>9, <2>3 DEF Moves
  <2>5. /\ pl[p] = PlaceOf(f) /\ li[p] # "none"
        /\ r.op = "status" => r.was = li[p] /\ pa[p] = r.want
    BY <1>5, <1>9, <2>4 DEF RowIsTrue
  <2>6. \A d \in DOMAIN xs : xs[d].op = "status" /\ xs[d].post = p =>
                                 /\ xs[d].was = li[p] /\ pa[p] = xs[d].want
                                 /\ xs[d].reply = "ok"
    BY <1>2, <1>7, <2>3, <2>5
  <2>7. xs[c].op \in {"status", "cycle"} /\ xs[c].post = p /\ xs[c].reply = "ok" /\ c \in DOMAIN xs
    BY <1>2, <1>7, <1>9, <2>1
  <2> QED BY <2>2, <2>5, <2>6, <2>7 DEF RowIsTrue
<1>10. CASE p # r.post
  <2>1. pl2[p] = pl[p] /\ st2[p] = st[p] BY <1>6, <1>10 DEF Moved
  <2>2. \A d \in DOMAIN rs : rs[d].post = p => xs[d].reply = rs[d].reply BY <1>2, <1>10
  <2>3. CASE \E d \in DOMAIN rs : Moves(rs[d]) /\ rs[d].post = p /\ rs[d].reply = "ok"
    BY <1>2, <1>7, <2>2, <2>3 DEF RowIsTrue
  <2>4. CASE ~\E d \in DOMAIN rs : Moves(rs[d]) /\ rs[d].post = p /\ rs[d].reply = "ok"
    <3>1. /\ pl[p] = PlaceOf(f) /\ li[p] # "none"
          /\ \A d \in DOMAIN rs :
                 rs[d].op = "status" /\ rs[d].post = p =>
                     /\ rs[d].was = li[p] /\ pa[p] = rs[d].want
                     /\ rs[d].reply # "ok" => li[p] = st[p]
          /\ (\A d \in DOMAIN rs : rs[d].op \in {"status", "cycle"} /\ rs[d].post = p =>
                                       rs[d].op = "cycle" /\ rs[d].reply # "ok") =>
                 li[p] = st[p] /\ pa[p] = st[p]
      BY <1>5, <2>4 DEF RowIsTrue
    <3>2. \A d \in DOMAIN xs :
              xs[d].op = "status" /\ xs[d].post = p =>
                  /\ xs[d].was = li[p] /\ pa[p] = xs[d].want
                  /\ xs[d].reply # "ok" => li[p] = st2[p]
      BY <1>2, <1>7, <2>1, <2>2, <3>1
    <3>3. ASSUME \A d \in DOMAIN xs : xs[d].op \in {"status", "cycle"} /\ xs[d].post = p =>
                                          xs[d].op = "cycle" /\ xs[d].reply # "ok"
          PROVE  li[p] = st2[p] /\ pa[p] = st2[p]
      <4>1. \A d \in DOMAIN rs : rs[d].op \in {"status", "cycle"} /\ rs[d].post = p =>
                                     rs[d].op = "cycle" /\ rs[d].reply # "ok"
        BY <1>2, <1>7, <2>2, <3>3
      <4> QED BY <2>1, <3>1, <4>1
    <3> QED BY <2>1, <3>1, <3>2, <3>3 DEF RowIsTrue
  <2> QED BY <2>3, <2>4
<1> QED BY <1>8, <1>9, <1>10

LEMMA ServedKeeps ==
    ASSUME ListInv, requests' \in Seq(PostRequest), Len(requests') = Len(requests),
           DOMAIN requests' = DOMAIN requests,
           \A d \in DOMAIN requests : Alike(requests'[d], requests[d]),
           place' \in [Post -> {"list", "trash", "gone"}], stored' \in [Post -> Status],
           Pending(requests, muddled, place, stored)', RowsHold', acts' \in 0..MaxListActs,
           muddled' \subseteq Post,
           UNCHANGED <<present, url, statusFilter, words, atPage, perPage, fitted, room, resizing,
                       busy, listing, pagination, painted, keys, measuring, picking, picked, dialog,
                       typed, astray, haunted, miscounted>>
    PROVE  ListInv'
<1>1. ListShapes /\ UserShapes /\ ListFlags /\ Painting /\ LastLoad /\ LeftAlone /\ Counted
  BY Zenon DEF ListInv
<1>2. PICK xs : xs = requests' BY Zenon
<1>3. DOMAIN xs = DOMAIN requests /\ \A d \in DOMAIN requests : Alike(xs[d], requests[d])
  BY <1>2, Zenon
<1>4. /\ Orphans(xs) = Orphans(requests)
      /\ \A here, u, f : Lasts(requests, here, u, f) => Lasts(xs, here, u, f)
      /\ (\E d \in DOMAIN requests : requests[d].last) => \E d \in DOMAIN xs : xs[d].last
  BY <1>3, AlikeQueue, Zenon
<1>5. (\A d \in DOMAIN requests : requests[d].op \in {"list", "status", "cycle"}) =>
          \A d \in DOMAIN xs : xs[d].op \in {"list", "status", "cycle"}
  BY <1>3, Zenon DEF Alike
<1>6. Len(requests') <= Slots BY <1>1, Zenon DEF ListShapes
<1>7. ListShapes' BY <1>1, <1>6, Zenon DEF ListShapes
<1>8. ListFlags' BY <1>1, Zenon DEF ListFlags
<1>9. UserShapes' BY <1>1, Zenon DEF UserShapes
<1>10. Painting' BY <1>1, <1>2, <1>4, Zenon DEF Painting
<1>11. LastLoad' BY <1>1, <1>2, <1>4, Zenon DEF LastLoad
<1>12. LeftAlone' BY <1>1, <1>2, <1>5, Zenon DEF LeftAlone
<1>13. Counted' BY <1>1, Zenon DEF Counted
<1>14. Pending(requests, muddled, place, stored)' /\ RowsHold' OBVIOUS
<1> QED
  BY <1>7, <1>8, <1>9, <1>10, <1>11, <1>12, <1>13, <1>14, Zenon DEF ListInv

(* What the server has after a change.                                     *)
LEMMA EffectIs ==
    ASSUME ListShapes, NEW r \in PostRequest, Formed(r), r.op # "list", Effect(r)
    PROVE  /\ place' \in [Post -> {"list", "trash", "gone"}] /\ stored' \in [Post -> Status]
           /\ Moved(r, place, stored, place', stored')
<1>1. place \in [Post -> {"list", "trash", "gone"}] /\ stored \in [Post -> Status]
  BY Zenon DEF ListShapes
<1>2. r.post \in Post /\ (r.op \in {"status", "cycle", "bulk status"} => r.want \in Status)
  BY Zenon DEF Formed
<1>3. CASE r.op \in {"status", "cycle", "bulk status"}
  <2>1. stored' = [stored EXCEPT ![r.post] = r.want] /\ place' = place
    BY <1>3 DEF Effect
  <2> QED BY <1>1, <1>2, <1>3, <2>1 DEF Moved
<1>4. CASE r.op \notin {"status", "cycle", "bulk status"}
  <2>1. PICK to \in {"list", "trash", "gone"} :
            place' \in {place, [place EXCEPT ![r.post] = to]} /\ stored' = stored
    <3>1. CASE r.op \in {"trash", "bulk trash"}
      <4>1. place' \in {place, [place EXCEPT ![r.post] = "trash"]} /\ stored' = stored
        BY <1>4, <3>1 DEF Effect
      <4> QED BY <4>1
    <3>2. CASE r.op = "restore"
      <4>1. place' \in {place, [place EXCEPT ![r.post] = "list"]} /\ stored' = stored
        BY <1>4, <3>2 DEF Effect
      <4> QED BY <4>1
    <3>3. CASE r.op = "purge"
      <4>1. place' \in {place, [place EXCEPT ![r.post] = "gone"]} /\ stored' = stored
        BY <1>4, <3>3 DEF Effect
      <4> QED BY <4>1
    <3> QED BY <1>4, <3>1, <3>2, <3>3 DEF PostRequest
  <2>2. PICK pl : pl = place' BY Zenon
  <2>3. pl \in {place, [place EXCEPT ![r.post] = to]} BY <2>1, <2>2, Zenon
  <2>4. pl \in [Post -> {"list", "trash", "gone"}] /\ \A p \in Post \ {r.post} : pl[p] = place[p]
    BY <1>1, <1>2, <2>3
  <2>5. Moved(r, place, stored, pl, stored) BY <1>4, <2>4 DEF Moved
  <2> QED BY <1>1, <2>1, <2>2, <2>4, <2>5, Zenon
<1> QED BY <1>3, <1>4

LEMMA FailedIs ==
    ASSUME NEW r \in PostRequest, NEW x, x = [r EXCEPT !.reply = "failed"]
    PROVE  x \in PostRequest /\ Alike(x, r) /\ x.reply = "failed"
  BY DEF PostRequest, Alike

LEMMA DoneIs ==
    ASSUME NEW r \in PostRequest, NEW x, x = [r EXCEPT !.reply = "ok"]
    PROVE  x \in PostRequest /\ Alike(x, r) /\ x.reply = "ok"
  BY DEF PostRequest, Alike

LEMMA StaleIs ==
    ASSUME NEW r \in PostRequest, NEW p \in Post, NEW x, x = [r EXCEPT !.stale = @ \cup {p}]
    PROVE  /\ x \in PostRequest /\ Alike(x, r) /\ x.reply = r.reply /\ x.data = r.data
           /\ x.stale = r.stale \cup {p}
<1>1. r.stale \cup {p} \in SUBSET Post BY DEF PostRequest
<1> QED BY <1>1 DEF PostRequest, Alike

(* A list that was answered.                                               *)
Filled(r, n, rows) == [r EXCEPT !.reply = "ok", !.pages = n, !.data = rows]

LEMMA DataIs ==
    ASSUME NEW r \in PostRequest, NEW n \in 0..Total, NEW rows \in Rows
    PROVE  /\ Filled(r, n, rows) \in PostRequest /\ Alike(Filled(r, n, rows), r)
           /\ Filled(r, n, rows).reply = "ok" /\ Filled(r, n, rows).data = rows
  BY DEF Filled, PostRequest, Alike

(* The pages that n posts fill.                                            *)
LEMMA PagesFilled ==
    ASSUME NEW n \in 0..Total, NEW per \in 1..Total
    PROVE  (n + per - 1) \div per \in 0..Total
<1>1. per \in Nat \ {0} /\ n \in Nat /\ n + per - 1 \in Nat BY ListSizes
<1>2. CASE n = 0
  <2>1. per - 1 <= 0 * per + (per - 1) /\ (per - 1) \div per = 0 BY <1>1
  <2>2. n + per - 1 = per - 1 BY <1>2, <1>1
  <2> QED BY <2>1, <2>2, PageNumbers
<1>3. CASE n # 0
  <2>1. PICK k \in Nat : n = k + 1
    <3>1. n - 1 \in Nat /\ n = (n - 1) + 1 BY <1>1, <1>3
    <3> QED BY <3>1
  <2>2. PICK b \in Nat : per = b + 1
    <3>1. per - 1 \in Nat /\ per = (per - 1) + 1 BY <1>1
    <3> QED BY <3>1
  <2>3. n * per = k * b + k + b + 1 /\ k * b \in Nat BY <2>1, <2>2
  <2>4. n + per - 1 <= n * per BY <2>1, <2>2, <2>3
  <2>5. (n + per - 1) \div per \in 0..n BY <1>1, <2>4, Quotient
  <2>6. n \in Nat /\ n <= Total /\ Total \in Nat BY ListSizes
  <2> QED BY <2>5, <2>6
<1> QED BY <1>2, <1>3

(* A sequence whose elements are replaced.                                 *)
LEMMA ReplacedIs ==
    ASSUME NEW rs \in Seq(PostRequest), NEW xs, xs = [d \in DOMAIN rs |-> xs[d]],
           \A d \in DOMAIN rs : xs[d] \in PostRequest
    PROVE  xs \in Seq(PostRequest) /\ Len(xs) = Len(rs) /\ DOMAIN xs = DOMAIN rs
<1>1. Len(rs) \in Nat /\ DOMAIN rs = 1..Len(rs) OBVIOUS
<1>2. xs = [d \in 1..Len(rs) |-> xs[d]] /\ \A d \in 1..Len(rs) : xs[d] \in PostRequest BY <1>1
<1> QED BY <1>1, <1>2

(* A request that is refused or fails.                                     *)
LEMMA FailedKeeps ==
    ASSUME ListInv, NEW c \in DOMAIN requests, requests[c].reply = "none",
           requests' = [requests EXCEPT ![c].reply = "failed"],
           UNCHANGED <<place, stored>>, acts' \in 0..MaxListActs,
           UNCHANGED <<present, url, statusFilter, words, atPage, perPage, fitted, room, resizing,
                       busy, listing, pagination, painted, keys, measuring, muddled, picking,
                       picked, dialog, typed, astray, haunted, miscounted>>
    PROVE  ListInv'
<1> DEFINE xs == [requests EXCEPT ![c].reply = "failed"]
<1>1. ListShapes /\ Pending(requests, muddled, place, stored) /\ RowsHold BY Zenon DEF ListInv
<1>2. requests \in Seq(PostRequest) /\ place \in [Post -> {"list", "trash", "gone"}]
      /\ stored \in [Post -> Status]
  BY <1>1, Zenon DEF ListShapes
<1>3. \A d \in DOMAIN requests :
          /\ requests[d] \in PostRequest
          /\ xs[d] = IF d = c THEN [requests[d] EXCEPT !.reply = "failed"] ELSE requests[d]
  BY <1>2
<1>4. xs = [d \in DOMAIN requests |-> xs[d]] OBVIOUS
<1> HIDE DEF xs
<1>5. \A d \in DOMAIN requests :
          /\ xs[d] \in PostRequest /\ Alike(xs[d], requests[d])
          /\ xs[d].reply = "ok" <=> requests[d].reply = "ok"
          /\ xs[d].reply = "ok" => xs[d] = requests[d]
  <2> SUFFICES ASSUME NEW d \in DOMAIN requests
               PROVE  /\ xs[d] \in PostRequest /\ Alike(xs[d], requests[d])
                      /\ xs[d].reply = "ok" <=> requests[d].reply = "ok"
                      /\ xs[d].reply = "ok" => xs[d] = requests[d]
    BY Zenon
  <2>1. CASE d = c
    <3>1. xs[d] \in PostRequest /\ Alike(xs[d], requests[d]) /\ xs[d].reply = "failed"
      BY <1>3, <2>1, FailedIs
    <3> QED BY <2>1, <3>1
  <2>2. CASE d # c BY <1>3, <2>2 DEF Alike
  <2> QED BY <2>1, <2>2
<1>6. xs \in Seq(PostRequest) /\ Len(xs) = Len(requests) /\ DOMAIN xs = DOMAIN requests
  BY <1>2, <1>4, <1>5, ReplacedIs
<1>7. Pending(xs, muddled, place, stored)
  <2>1. (\A d \in DOMAIN xs : Formed(xs[d])) /\ Overlaps(xs, muddled) /\ RowsHeld(xs, muddled)
    BY <1>1, <1>5, <1>6, AlikeQueue, Zenon DEF Pending
  <2>2. Replied(xs, muddled, stored) BY <1>1, <1>5, <1>6, Zenon DEF Pending, Replied
  <2>3. DataRead(xs, place, stored)
    <3>1. DataRead(requests, place, stored) BY <1>1, Zenon DEF Pending
    <3> SUFFICES ASSUME NEW d \in DOMAIN xs, xs[d].op = "list", xs[d].reply = "ok"
                 PROVE  \A p \in Has(xs[d].data) \ xs[d].stale :
                            /\ place[p] = PlaceOf(xs[d].query.filter)
                            /\ xs[d].data[p] = stored[p]
      BY Zenon DEF DataRead
    <3>2. d \in DOMAIN requests /\ xs[d] = requests[d] BY <1>5, <1>6, Zenon
    <3> QED BY <3>1, <3>2, Zenon DEF DataRead
  <2> QED BY <2>1, <2>2, <2>3, Zenon DEF Pending
<1>8. present /\ ~astray /\ ~busy =>
          RowsTrue(xs, muddled, place, stored, listing, painted.rows, statusFilter)
  BY <1>1, <1>5, <1>6, AlikeRows, Zenon DEF RowsHold
<1>9. requests' = xs BY Zenon DEF xs
<1>10. Pending(requests, muddled, place, stored)' BY <1>7, <1>9, Zenon
<1>11. RowsHold' BY <1>8, <1>9, Zenon DEF RowsHold
<1>12. /\ requests' \in Seq(PostRequest) /\ Len(requests') = Len(requests)
       /\ DOMAIN requests' = DOMAIN requests
       /\ \A d \in DOMAIN requests : Alike(requests'[d], requests[d])
  BY <1>5, <1>6, <1>9, Zenon
<1>13. place' \in [Post -> {"list", "trash", "gone"}] /\ stored' \in [Post -> Status]
  BY <1>2, Zenon
<1>20. muddled' \subseteq Post BY <1>1, Zenon DEF ListShapes
<1> QED BY <1>10, <1>11, <1>12, <1>13, <1>20, ServedKeeps, Zenon

(* The posts of a page.                                                    *)
PageOf(r) == [p \in Post |-> IF p \in OnPage(r.query, r.per) THEN stored[p] ELSE "none"]
PagesOfList(r) == (Cardinality(Found(r.query)) + r.per - 1) \div r.per

LEMMA ListedKeeps ==
    ASSUME ListInv, NEW c \in DOMAIN requests, requests[c].reply = "none",
           requests[c].op = "list",
           requests' = [requests EXCEPT ![c] = [requests[c] EXCEPT !.reply = "ok",
                            !.pages = PagesOfList(requests[c]), !.data = PageOf(requests[c])]],
           UNCHANGED <<place, stored>>, acts' \in 0..MaxListActs,
           UNCHANGED <<present, url, statusFilter, words, atPage, perPage, fitted, room, resizing,
                       busy, listing, pagination, painted, keys, measuring, muddled, picking,
                       picked, dialog, typed, astray, haunted, miscounted>>
    PROVE  ListInv'
<1> DEFINE r == requests[c]
           n == PagesOfList(r)
           rows == PageOf(r)
           y == [r EXCEPT !.reply = "ok", !.pages = n, !.data = rows]
           xs == [requests EXCEPT ![c] = y]
<1>1. ListShapes /\ Pending(requests, muddled, place, stored) /\ RowsHold BY Zenon DEF ListInv
<1>2. requests \in Seq(PostRequest) /\ place \in [Post -> {"list", "trash", "gone"}]
      /\ stored \in [Post -> Status]
  BY <1>1, Zenon DEF ListShapes
<1>3. r \in PostRequest /\ r.op = "list" /\ r.reply = "none" BY <1>2
<1>4. r.per \in 1..Total
  <2>1. Formed(r) BY <1>1, Zenon DEF Pending
  <2> QED BY <1>3, <2>1, Zenon DEF Formed
<1>5. requests' = xs BY Zenon
<1> HIDE DEF r
<1>6. rows \in Rows /\ \A p \in Has(rows) : place[p] = PlaceOf(r.query.filter) /\ rows[p] = stored[p]
  <2>1. rows \in Rows BY <1>2 DEF Rows, PageOf
  <2>2. ASSUME NEW p \in Has(rows)
        PROVE  place[p] = PlaceOf(r.query.filter) /\ rows[p] = stored[p]
    <3>1. p \in Post /\ p \in OnPage(r.query, r.per) /\ rows[p] = stored[p] BY DEF Has, PageOf
    <3>2. Matches(r.query, p) BY <3>1, Zenon DEF OnPage, Found
    <3> QED BY <3>1, <3>2, Zenon DEF Matches, PlaceOf
  <2> QED BY <2>1, <2>2
<1>7. n \in 0..Total
  <2>1. Found(r.query) \in SUBSET Post BY Zenon DEF Found
  <2>2. Cardinality(Found(r.query)) \in 0..Total BY <2>1, CountOfPosts
  <2> QED BY <1>4, <2>2, PagesFilled DEF PagesOfList
<1>8. y \in PostRequest /\ Alike(y, r) /\ y.reply = "ok" /\ y.data = rows
  <2>1. y = Filled(r, n, rows) BY Zenon DEF Filled
  <2> HIDE DEF y, n, rows
  <2>2. r \in PostRequest /\ n \in 0..Total /\ rows \in Rows BY <1>3, <1>6, <1>7, Zenon
  <2>3. /\ Filled(r, n, rows) \in PostRequest /\ Alike(Filled(r, n, rows), r)
        /\ Filled(r, n, rows).reply = "ok" /\ Filled(r, n, rows).data = rows
    BY <2>2, DataIs, Zenon
  <2> QED BY <2>1, <2>3, Zenon
<1> HIDE DEF n, rows
<1> HIDE DEF y
<1>9. \A d \in DOMAIN requests : xs[d] = IF d = c THEN y ELSE requests[d]
  BY <1>2
<1>10. xs = [d \in DOMAIN requests |-> xs[d]] OBVIOUS
<1> HIDE DEF xs
<1>11. \A d \in DOMAIN requests :
          /\ xs[d] \in PostRequest /\ Alike(xs[d], requests[d])
          /\ requests[d].op # "list" => (xs[d].reply = "ok" <=> requests[d].reply = "ok")
          /\ d # c => xs[d] = requests[d]
  <2> SUFFICES ASSUME NEW d \in DOMAIN requests
               PROVE  /\ xs[d] \in PostRequest /\ Alike(xs[d], requests[d])
                      /\ requests[d].op # "list" =>
                             (xs[d].reply = "ok" <=> requests[d].reply = "ok")
                      /\ d # c => xs[d] = requests[d]
    BY Zenon
  <2>1. CASE d = c BY <1>3, <1>8, <1>9, <2>1 DEF r
  <2>2. CASE d # c
    <3>1. requests[d] \in PostRequest BY <1>2
    <3> QED BY <1>9, <2>2, <3>1 DEF Alike
  <2> QED BY <2>1, <2>2
<1>12. xs \in Seq(PostRequest) /\ Len(xs) = Len(requests) /\ DOMAIN xs = DOMAIN requests
  BY <1>2, <1>10, <1>11, ReplacedIs
<1>13. Pending(xs, muddled, place, stored)
  <2>1. (\A d \in DOMAIN xs : Formed(xs[d])) /\ Overlaps(xs, muddled) /\ RowsHeld(xs, muddled)
    BY <1>1, <1>11, <1>12, AlikeQueue, Zenon DEF Pending
  <2>2. xs[c].op = "list" /\ xs[c] = y /\ y.query = r.query
    BY <1>3, <1>8, <1>9 DEF Alike
  <2>3. Replied(xs, muddled, stored)
    <3>1. Replied(requests, muddled, stored) BY <1>1, Zenon DEF Pending
    <3>2. "list" \notin {"status", "cycle"} OBVIOUS
    <3> QED BY <1>11, <1>12, <2>2, <3>1, <3>2, Zenon DEF Replied
  <2>4. DataRead(xs, place, stored)
    <3>1. DataRead(requests, place, stored) BY <1>1, Zenon DEF Pending
    <3> SUFFICES ASSUME NEW d \in DOMAIN xs, xs[d].op = "list", xs[d].reply = "ok",
                        NEW p \in Has(xs[d].data) \ xs[d].stale
                 PROVE  place[p] = PlaceOf(xs[d].query.filter) /\ xs[d].data[p] = stored[p]
      BY Zenon DEF DataRead
    <3>2. CASE d = c
      <4>1. xs[d].data = rows /\ xs[d].query = r.query BY <1>8, <2>2, <3>2
      <4>2. p \in Has(rows) BY <4>1
      <4> QED BY <1>6, <4>1, <4>2
    <3>3. CASE d # c
      <4>1. d \in DOMAIN requests /\ xs[d] = requests[d] BY <1>11, <1>12, <3>3, Zenon
      <4>2. /\ requests[d].op = "list" /\ requests[d].reply = "ok"
            /\ p \in Has(requests[d].data) \ requests[d].stale
        BY <4>1, Zenon
      <4>3. place[p] = PlaceOf(requests[d].query.filter) /\ requests[d].data[p] = stored[p]
        BY <3>1, <4>1, <4>2, Zenon DEF DataRead
      <4> QED BY <4>1, <4>3, Zenon
    <3> QED BY <3>2, <3>3
  <2> QED BY <2>1, <2>3, <2>4, Zenon DEF Pending
<1>14. present /\ ~astray /\ ~busy =>
          RowsTrue(xs, muddled, place, stored, listing, painted.rows, statusFilter)
  BY <1>1, <1>11, <1>12, AlikeRows, Zenon DEF RowsHold
<1>15. Pending(requests, muddled, place, stored)' BY <1>5, <1>13, Zenon
<1>16. RowsHold' BY <1>5, <1>14, Zenon DEF RowsHold
<1>17. /\ requests' \in Seq(PostRequest) /\ Len(requests') = Len(requests)
       /\ DOMAIN requests' = DOMAIN requests
       /\ \A d \in DOMAIN requests : Alike(requests'[d], requests[d])
  BY <1>5, <1>11, <1>12, Zenon
<1>18. place' \in [Post -> {"list", "trash", "gone"}] /\ stored' \in [Post -> Status]
  BY <1>2, Zenon
<1>20. muddled' \subseteq Post BY <1>1, Zenon DEF ListShapes
<1> QED BY <1>15, <1>16, <1>17, <1>18, <1>20, ServedKeeps, Zenon

(* The requests after a change that the server made.                       *)
MadeQueue(rs, c) ==
    [d \in DOMAIN rs |->
        IF d = c THEN [rs[c] EXCEPT !.reply = "ok"]
        ELSE IF rs[d].op = "list" /\ rs[d].reply = "ok"
             THEN [rs[d] EXCEPT !.stale = @ \cup {rs[c].post}]
             ELSE rs[d]]

LEMMA MadeQueueIs ==
    ASSUME NEW rs \in Seq(PostRequest), NEW c \in DOMAIN rs, rs[c].op # "list",
           rs[c].reply = "none", Formed(rs[c])
    PROVE  /\ MadeQueue(rs, c) \in Seq(PostRequest) /\ Len(MadeQueue(rs, c)) = Len(rs)
           /\ Made(rs, MadeQueue(rs, c), c)
<1> DEFINE xs == MadeQueue(rs, c)
<1>1. \A d \in DOMAIN rs : rs[d] \in PostRequest OBVIOUS
<1>2. rs[c].post \in Post BY DEF Formed
<1>3. xs[c] = [rs[c] EXCEPT !.reply = "ok"] BY DEF MadeQueue
<1>4. \A d \in DOMAIN rs \ {c} :
          xs[d] = IF rs[d].op = "list" /\ rs[d].reply = "ok"
                  THEN [rs[d] EXCEPT !.stale = @ \cup {rs[c].post}] ELSE rs[d]
  BY DEF MadeQueue
<1>5. xs = [d \in DOMAIN rs |-> xs[d]] BY DEF MadeQueue
<1> HIDE DEF xs
<1>6. xs[c] \in PostRequest /\ Alike(xs[c], rs[c]) /\ xs[c].reply = "ok"
  BY <1>1, <1>3, DoneIs
<1>7. ASSUME NEW d \in DOMAIN rs \ {c}
      PROVE  /\ xs[d] \in PostRequest /\ Alike(xs[d], rs[d])
             /\ xs[d].reply = rs[d].reply /\ xs[d].data = rs[d].data
             /\ rs[d].op = "list" /\ rs[d].reply = "ok" => xs[d].stale = rs[d].stale \cup {rs[c].post}
  <2>1. CASE rs[d].op = "list" /\ rs[d].reply = "ok"
    <3>1. xs[d] = [rs[d] EXCEPT !.stale = @ \cup {rs[c].post}] BY <1>4, <2>1
    <3> QED BY <1>1, <1>2, <3>1, StaleIs
  <2>2. CASE ~(rs[d].op = "list" /\ rs[d].reply = "ok")
    <3>1. xs[d] = rs[d] BY <1>4, <2>2
    <3> QED BY <1>1, <2>2, <3>1 DEF Alike
  <2> QED BY <2>1, <2>2
<1>8. \A d \in DOMAIN rs : xs[d] \in PostRequest /\ Alike(xs[d], rs[d]) BY <1>6, <1>7
<1>9. xs \in Seq(PostRequest) /\ Len(xs) = Len(rs) /\ DOMAIN xs = DOMAIN rs
  BY <1>5, <1>8, ReplacedIs
<1>10. Made(rs, xs, c) BY <1>6, <1>7, <1>8, <1>9, Zenon DEF Made
<1> QED BY <1>9, <1>10, Zenon DEF xs

LEMMA MadeKeeps ==
    ASSUME ListInv, NEW c \in DOMAIN requests, requests[c].reply = "none",
           requests[c].op # "list", Effect(requests[c]),
           requests' = MadeQueue(requests, c), acts' \in 0..MaxListActs,
           UNCHANGED <<present, url, statusFilter, words, atPage, perPage, fitted, room, resizing,
                       busy, listing, pagination, painted, keys, measuring, muddled, picking,
                       picked, dialog, typed, astray, haunted, miscounted>>
    PROVE  ListInv'
<1> DEFINE xs == MadeQueue(requests, c)
<1>1. ListShapes /\ Pending(requests, muddled, place, stored) /\ RowsHold BY Zenon DEF ListInv
<1>2. requests \in Seq(PostRequest) BY <1>1, Zenon DEF ListShapes
<1>3. Formed(requests[c]) BY <1>1, Zenon DEF Pending
<1>4. /\ xs \in Seq(PostRequest) /\ Len(xs) = Len(requests) /\ Made(requests, xs, c)
  BY <1>2, <1>3, MadeQueueIs
<1> HIDE DEF xs
<1>5. requests[c] \in PostRequest BY <1>2
<1>6. /\ place' \in [Post -> {"list", "trash", "gone"}] /\ stored' \in [Post -> Status]
      /\ Moved(requests[c], place, stored, place', stored')
  BY <1>1, <1>3, <1>5, EffectIs, Zenon
<1>7. PICK pl, st : pl = place' /\ st = stored' BY Zenon
<1>8. Moved(requests[c], place, stored, pl, st) BY <1>6, <1>7, Zenon
<1>9. Pending(xs, muddled, pl, st) BY <1>1, <1>4, <1>8, MadePending, Zenon
<1>10. present /\ ~astray /\ ~busy =>
           RowsTrue(xs, muddled, pl, st, listing, painted.rows, statusFilter)
  BY <1>1, <1>2, <1>4, <1>8, MadeRows, Zenon DEF RowsHold
<1>11. requests' = xs BY Zenon DEF xs
<1>12. Pending(requests, muddled, place, stored)' BY <1>7, <1>9, <1>11, Zenon
<1>13. RowsHold' BY <1>7, <1>10, <1>11, Zenon DEF RowsHold
<1>14. DOMAIN xs = DOMAIN requests /\ \A d \in DOMAIN requests : Alike(xs[d], requests[d])
  BY <1>4, Zenon DEF Made
<1>15. /\ requests' \in Seq(PostRequest) /\ Len(requests') = Len(requests)
       /\ DOMAIN requests' = DOMAIN requests
       /\ \A d \in DOMAIN requests : Alike(requests'[d], requests[d])
  BY <1>4, <1>11, <1>14, Zenon
<1>20. muddled' \subseteq Post BY <1>1, Zenon DEF ListShapes
<1> QED BY <1>6, <1>12, <1>13, <1>15, <1>20, ServedKeeps, Zenon

LEMMA ServeKeeps ==
    ASSUME ListInv, NEW c \in 1..Slots, NEW fails \in BOOLEAN, Serve(c, fails)
    PROVE  ListInv'
<1>1. UserShapes BY Zenon DEF ListInv
<1>2. /\ c \in DOMAIN requests /\ requests[c].reply = "none"
      /\ UNCHANGED <<present, url, statusFilter, words, atPage, perPage, fitted, room, resizing,
                     busy, listing, pagination, painted, keys, measuring, muddled, picking, picked,
                     dialog, typed, astray, haunted, miscounted>>
  BY Zenon DEF Serve, queried, fit, loaded, painting, selection
<1>3. acts' \in 0..MaxListActs
  <2>1. (IF fails THEN ListAct ELSE UNCHANGED acts) BY Zenon DEF Serve
  <2>2. acts \in 0..MaxListActs /\ (ListAct => acts' \in 0..MaxListActs) BY <1>1, ListActCounts
  <2> QED BY <2>1, <2>2, Zenon
<1>4. CASE fails \/ Refused(requests[c])
  <2>1. requests' = [requests EXCEPT ![c].reply = "failed"] /\ UNCHANGED <<place, stored>>
    BY <1>4, Zenon DEF Serve, postStore
  <2> QED BY <1>2, <1>3, <2>1, FailedKeeps, Zenon
<1>5. CASE ~(fails \/ Refused(requests[c])) /\ requests[c].op = "list"
  <2>1. Effect(requests[c])
        /\ requests' = [requests EXCEPT ![c] = [requests[c] EXCEPT !.reply = "ok",
                            !.pages = PagesOfList(requests[c]), !.data = PageOf(requests[c])]]
    BY <1>5, Zenon DEF Serve, PagesOfList, PageOf
  <2>2. UNCHANGED <<place, stored>> BY <1>5, <2>1 DEF Effect, postStore
  <2> QED BY <1>2, <1>3, <1>5, <2>1, <2>2, ListedKeeps, Zenon
<1>6. CASE ~(fails \/ Refused(requests[c])) /\ requests[c].op # "list"
  <2>1. Effect(requests[c]) /\ requests' = MadeQueue(requests, c)
    BY <1>6, Zenon DEF Serve, MadeQueue
  <2> QED BY <1>2, <1>3, <1>6, <2>1, MadeKeeps, Zenon
<1> QED BY <1>4, <1>5, <1>6

(* An answer that is lost: its post is muddled from then on.               *)
LostOf(rs, c) == [rs EXCEPT ![c].reply = "failed"]

LEMMA LostQueue ==
    ASSUME NEW rs \in Seq(PostRequest), NEW c \in DOMAIN rs
    PROVE  /\ LostOf(rs, c) \in Seq(PostRequest) /\ Len(LostOf(rs, c)) = Len(rs)
           /\ DOMAIN LostOf(rs, c) = DOMAIN rs
           /\ \A d \in DOMAIN rs :
                  /\ Alike(LostOf(rs, c)[d], rs[d])
                  /\ d # c => LostOf(rs, c)[d] = rs[d]
           /\ LostOf(rs, c)[c].reply = "failed"
<1> DEFINE xs == LostOf(rs, c)
<1>1. \A d \in DOMAIN rs :
          /\ rs[d] \in PostRequest
          /\ xs[d] = IF d = c THEN [rs[d] EXCEPT !.reply = "failed"] ELSE rs[d]
  BY DEF LostOf
<1>2. xs = [d \in DOMAIN rs |-> xs[d]] BY DEF LostOf
<1> HIDE DEF xs
<1>3. ASSUME NEW d \in DOMAIN rs
      PROVE  /\ xs[d] \in PostRequest /\ Alike(xs[d], rs[d])
             /\ d # c => xs[d] = rs[d]
             /\ d = c => xs[d].reply = "failed"
  <2>1. CASE d = c
    <3>1. xs[d] \in PostRequest /\ Alike(xs[d], rs[d]) /\ xs[d].reply = "failed"
      BY <1>1, <2>1, FailedIs
    <3> QED BY <2>1, <3>1
  <2>2. CASE d # c BY <1>1, <2>2 DEF Alike
  <2> QED BY <2>1, <2>2
<1>4. xs \in Seq(PostRequest) /\ Len(xs) = Len(rs) /\ DOMAIN xs = DOMAIN rs
  BY <1>2, <1>3, ReplacedIs
<1> QED BY <1>3, <1>4 DEF xs

LEMMA LostPending ==
    ASSUME NEW rs \in Seq(PostRequest), NEW c \in DOMAIN rs, NEW m, NEW n, m \subseteq n,
           NEW pl, NEW st, Pending(rs, m, pl, st)
    PROVE  Pending(LostOf(rs, c), n, pl, st)
<1> DEFINE xs == LostOf(rs, c)
<1>1. /\ DOMAIN xs = DOMAIN rs
      /\ \A d \in DOMAIN rs : Alike(xs[d], rs[d]) /\ (d # c => xs[d] = rs[d])
      /\ xs[c].reply = "failed"
  BY LostQueue
<1> HIDE DEF xs
<1>2. (\A d \in DOMAIN xs : Formed(xs[d])) /\ Overlaps(xs, m) /\ RowsHeld(xs, m)
  BY <1>1, AlikeQueue, Zenon DEF Pending
<1>3. Overlaps(xs, n) /\ RowsHeld(xs, n) BY <1>2 DEF Overlaps, RowsHeld
<1>4. \A d \in DOMAIN xs : xs[d].reply = "ok" => d \in DOMAIN rs /\ xs[d] = rs[d] BY <1>1
<1>5. Replied(xs, n, st)
  <2>1. Replied(rs, m, st) BY Zenon DEF Pending
  <2> QED BY <1>4, <2>1 DEF Replied
<1>6. DataRead(xs, pl, st)
  <2>1. DataRead(rs, pl, st) BY Zenon DEF Pending
  <2> QED BY <1>4, <2>1 DEF DataRead
<1> QED BY <1>2, <1>3, <1>5, <1>6, Zenon DEF Pending, xs

LEMMA LostRows ==
    ASSUME NEW rs \in Seq(PostRequest), NEW c \in DOMAIN rs, rs[c].reply = "ok",
           NEW m, NEW n, m \subseteq n, rs[c].op # "list" => rs[c].post \in n,
           NEW pl, NEW st, NEW li, NEW pa, NEW f, RowsTrue(rs, m, pl, st, li, pa, f)
    PROVE  RowsTrue(LostOf(rs, c), n, pl, st, li, pa, f)
<1> DEFINE xs == LostOf(rs, c)
<1>1. /\ DOMAIN xs = DOMAIN rs
      /\ \A d \in DOMAIN rs : Alike(xs[d], rs[d]) /\ (d # c => xs[d] = rs[d])
  BY LostQueue
<1> HIDE DEF xs
<1> SUFFICES ASSUME \A d \in DOMAIN xs : ~Bulky(xs[d]),
                    NEW p \in (Has(li) \cup Has(pa) \cup Orphans(xs)) \ n
             PROVE  RowIsTrue(xs, p, pl, st, li, pa, f)
  BY DEF RowsTrue, xs
<1>2. \A d \in DOMAIN rs : ~Bulky(rs[d]) BY <1>1 DEF Alike, Bulky
<1>3. Orphans(xs) = Orphans(rs) BY <1>1, AlikeQueue
<1>4. RowIsTrue(rs, p, pl, st, li, pa, f) BY <1>2, <1>3 DEF RowsTrue
<1>5. \A d \in DOMAIN rs : rs[d].op # "list" /\ rs[d].post = p => xs[d] = rs[d]
  BY <1>1
<1>6. \A d \in DOMAIN rs : xs[d].op = rs[d].op /\ xs[d].post = rs[d].post
  BY <1>1 DEF Alike
<1>7. \A d \in DOMAIN rs : xs[d].op # "list" /\ xs[d].post = p => xs[d] = rs[d]
  BY <1>5, <1>6
<1>8. CASE \E d \in DOMAIN rs : Moves(rs[d]) /\ rs[d].post = p /\ rs[d].reply = "ok"
  <2>1. PICK d \in DOMAIN rs : Moves(rs[d]) /\ rs[d].post = p /\ rs[d].reply = "ok" BY <1>8
  <2>2. xs[d] = rs[d] BY <1>5, <2>1 DEF Moves
  <2> QED BY <1>1, <2>1, <2>2 DEF RowIsTrue
<1>9. CASE ~\E d \in DOMAIN rs : Moves(rs[d]) /\ rs[d].post = p /\ rs[d].reply = "ok"
  <2>1. /\ pl[p] = PlaceOf(f) /\ li[p] # "none"
        /\ \A d \in DOMAIN rs :
               rs[d].op = "status" /\ rs[d].post = p =>
                   /\ rs[d].was = li[p] /\ pa[p] = rs[d].want
                   /\ rs[d].reply # "ok" => li[p] = st[p]
        /\ (\A d \in DOMAIN rs : rs[d].op \in {"status", "cycle"} /\ rs[d].post = p =>
                                     rs[d].op = "cycle" /\ rs[d].reply # "ok") =>
               li[p] = st[p] /\ pa[p] = st[p]
    BY <1>4, <1>9 DEF RowIsTrue
  <2>2. \A d \in DOMAIN xs :
            xs[d].op = "status" /\ xs[d].post = p =>
                /\ xs[d].was = li[p] /\ pa[p] = xs[d].want
                /\ xs[d].reply # "ok" => li[p] = st[p]
    BY <1>1, <1>7, <2>1
  <2>3. ASSUME \A d \in DOMAIN xs : xs[d].op \in {"status", "cycle"} /\ xs[d].post = p =>
                                        xs[d].op = "cycle" /\ xs[d].reply # "ok"
        PROVE  li[p] = st[p] /\ pa[p] = st[p]
    <3>1. \A d \in DOMAIN rs : rs[d].op \in {"status", "cycle"} /\ rs[d].post = p =>
                                   rs[d].op = "cycle" /\ rs[d].reply # "ok"
      BY <1>1, <1>5, <2>3
    <3> QED BY <2>1, <3>1
  <2> QED BY <2>1, <2>2, <2>3 DEF RowIsTrue
<1> QED BY <1>8, <1>9

LEMMA LoseAnswerKeeps == ASSUME ListInv, NEW c \in 1..Slots, LoseAnswer(c) PROVE ListInv'
<1> DEFINE n == muddled \cup ({requests[c].post} \cap Post)
           xs == LostOf(requests, c)
<1>1. ListShapes /\ UserShapes /\ Pending(requests, muddled, place, stored) /\ RowsHold
  BY Zenon DEF ListInv
<1>2. /\ ListAct /\ c \in DOMAIN requests /\ requests[c].reply = "ok"
      /\ requests' = xs /\ muddled' = n
      /\ UNCHANGED <<place, stored, present, url, statusFilter, words, atPage, perPage, fitted,
                     room, resizing, busy, listing, pagination, painted, keys, measuring, picking,
                     picked, dialog, typed, astray, haunted, miscounted>>
  BY Zenon DEF LoseAnswer, LostOf, postStore, queried, fit, loaded, selection
<1>3. requests \in Seq(PostRequest) /\ place \in [Post -> {"list", "trash", "gone"}]
      /\ stored \in [Post -> Status] /\ muddled \subseteq Post
  BY <1>1, Zenon DEF ListShapes
<1>4. /\ xs \in Seq(PostRequest) /\ Len(xs) = Len(requests) /\ DOMAIN xs = DOMAIN requests
      /\ \A d \in DOMAIN requests : Alike(xs[d], requests[d])
  BY <1>2, <1>3, LostQueue
<1>5. muddled \subseteq n /\ n \subseteq Post BY <1>3
<1>6. requests[c].op # "list" => requests[c].post \in n
  <2>1. Formed(requests[c]) BY <1>1, <1>2, Zenon DEF Pending
  <2>2. requests[c] \in PostRequest BY <1>2, <1>3
  <2> QED BY <2>1, <2>2 DEF Formed, PostRequest
<1> HIDE DEF n
<1>7. Pending(xs, n, place, stored) BY <1>1, <1>2, <1>3, <1>5, LostPending, Zenon
<1>8. present /\ ~astray /\ ~busy =>
          RowsTrue(xs, n, place, stored, listing, painted.rows, statusFilter)
  <2>1. present /\ ~astray /\ ~busy =>
            RowsTrue(requests, muddled, place, stored, listing, painted.rows, statusFilter)
    BY <1>1, Zenon DEF RowsHold
  <2> QED BY <1>2, <1>3, <1>5, <1>6, <2>1, LostRows, Zenon
<1> HIDE DEF xs
<1>9. Pending(requests, muddled, place, stored)' BY <1>2, <1>7, Zenon
<1>10. RowsHold' BY <1>2, <1>8, Zenon DEF RowsHold
<1>11. acts' \in 0..MaxListActs BY <1>1, <1>2, ListActCounts, Zenon
<1>12. /\ requests' \in Seq(PostRequest) /\ Len(requests') = Len(requests)
       /\ DOMAIN requests' = DOMAIN requests
       /\ \A d \in DOMAIN requests : Alike(requests'[d], requests[d])
       /\ place' \in [Post -> {"list", "trash", "gone"}] /\ stored' \in [Post -> Status]
       /\ muddled' \subseteq Post
  BY <1>2, <1>3, <1>4, <1>5, Zenon
<1> QED BY <1>2, <1>9, <1>10, <1>11, <1>12, ServedKeeps, Zenon

(***************************************************************************)
(* Answers.                                                                *)
(***************************************************************************)
(* What is left of the requests when one is answered.                      *)
LEMMA RestOf ==
    ASSUME ListInv, NEW c \in DOMAIN requests
    PROVE  /\ requests \in Seq(PostRequest) /\ requests[c] \in PostRequest
           /\ RemoveAt(requests, c) \in Seq(PostRequest)
           /\ Len(RemoveAt(requests, c)) < Slots
           /\ Pending(RemoveAt(requests, c), muddled, place, stored)
           /\ Lasts(RemoveAt(requests, c), present, url, statusFilter)
           /\ Orphans(requests) = {} => Orphans(RemoveAt(requests, c)) = {}
<1>1. ListShapes /\ Pending(requests, muddled, place, stored) /\ LastLoad BY Zenon DEF ListInv
<1>2. requests \in Seq(PostRequest) /\ Len(requests) <= Slots BY <1>1, Zenon DEF ListShapes
<1>3. /\ RemoveAt(requests, c) \in Seq(PostRequest)
      /\ Len(RemoveAt(requests, c)) = Len(requests) - 1
  BY <1>2, RemovedAre
<1>4. Len(RemoveAt(requests, c)) < Slots
  <2>1. Len(requests) \in Nat BY <1>2
  <2> QED BY <1>2, <1>3, <2>1, ListSizes
<1>5. Pending(RemoveAt(requests, c), muddled, place, stored) BY <1>1, <1>2, RemovedPending
<1>6. Lasts(requests, present, url, statusFilter) BY <1>1, Zenon DEF LastLoad
<1>7. /\ Lasts(RemoveAt(requests, c), present, url, statusFilter)
      /\ Orphans(RemoveAt(requests, c)) \subseteq Orphans(requests)
  BY <1>2, <1>6, RemovedMarks
<1>8. requests[c] \in PostRequest BY <1>2
<1>9. Orphans(requests) = {} => Orphans(RemoveAt(requests, c)) = {} BY <1>7
<1> QED BY <1>2, <1>3, <1>4, <1>5, <1>7, <1>8, <1>9, Zenon

(* The list is loaded when a request was answered.                         *)
LEMMA LoadedAfter ==
    ASSUME ListInv, NEW c \in DOMAIN requests, LoadList(RemoveAt(requests, c), State),
           requests[c].op \notin {"list", "status", "cycle"}, UserShapes', Counted',
           UNCHANGED <<place, stored, present, statusFilter, words, atPage, perPage, room, resizing,
                       listing, pagination, keys, measuring, astray, haunted, miscounted>>
    PROVE  ListInv'
<1>1. UserShapes /\ ListShapes /\ LeftAlone BY Zenon DEF ListInv
<1>2. /\ statusFilter \in {"", "trash"} /\ words \in Words /\ atPage = 1 /\ perPage \in 1..Total
  BY <1>1, Zenon DEF UserShapes
<1>3. State = Ask(statusFilter, words, 1)
  <2>1. statusFilter' = statusFilter /\ words' = words /\ atPage' = 1 BY <1>2, Zenon
  <2> QED BY <2>1, StateIs
<1>4. /\ Ask(statusFilter, words, 1) \in ListQuery
      /\ Ask(statusFilter, words, 1).filter = statusFilter
  BY <1>2, PageNumbers, AskIs
<1>5. measuring' \subseteq Post BY <1>1, Zenon DEF ListShapes
<1>6. present \/ haunted BY <1>1, Zenon DEF LeftAlone
<1>7. LoadList(RemoveAt(requests, c), Ask(statusFilter, words, 1)) BY <1>3, Zenon
<1>8. /\ RemoveAt(requests, c) \in Seq(PostRequest)
      /\ Len(RemoveAt(requests, c)) < Slots
      /\ Pending(RemoveAt(requests, c), muddled, place, stored)
      /\ Orphans(requests) = {} => Orphans(RemoveAt(requests, c)) = {}
  BY RestOf
<1>9. /\ perPage' \in 1..Total /\ statusFilter' = statusFilter
      /\ Ask(statusFilter, words, 1).filter = statusFilter'
  BY <1>2, <1>4, Zenon
<1> QED BY <1>4, <1>5, <1>6, <1>7, <1>8, <1>9, LoadListKeeps, Zenon

LEMMA MoveAnsweredKeeps ==
    ASSUME ListInv, NEW c \in 1..Slots, MoveAnswered(c)
    PROVE  ListInv'
<1>1. UserShapes /\ ListShapes /\ Counted /\ RowsHold BY Zenon DEF ListInv
<1>2. /\ c \in DOMAIN requests /\ requests[c].op \in {"trash", "restore", "purge"}
      /\ UNCHANGED <<statusFilter, words, atPage, perPage, fitted, room, resizing, place, stored,
                     present, listing, pagination, keys, measuring, picking, picked, dialog, typed,
                     acts, astray, haunted, miscounted>>
  BY Zenon DEF MoveAnswered, AnsweredAs, queried, fit, postStore, selection
<1>3. UserShapes' /\ Counted' BY <1>1, <1>2, Zenon DEF UserShapes, Counted
<1>4. requests[c].op \notin {"list", "status", "cycle"} BY <1>2
<1>5. CASE requests[c].reply = "ok"
  <2>1. LoadList(RemoveAt(requests, c), State) BY <1>5, Zenon DEF MoveAnswered
  <2> QED BY <1>2, <1>3, <1>4, <2>1, LoadedAfter, Zenon
<1>6. CASE requests[c].reply # "ok"
  <2>1. /\ requests' = RemoveAt(requests, c) /\ UNCHANGED <<url, busy, painted, muddled>>
    BY <1>6, Zenon DEF MoveAnswered
  <2>2. requests \in Seq(PostRequest) BY <1>2, RestOf
  <2>3. present /\ ~astray /\ ~busy =>
            RowsTrue(RemoveAt(requests, c), muddled, place, stored, listing, painted.rows,
                     statusFilter)
    <3>1. present /\ ~astray /\ ~busy =>
              RowsTrue(requests, muddled, place, stored, listing, painted.rows, statusFilter)
      BY <1>1, Zenon DEF RowsHold
    <3> QED BY <1>2, <1>6, <2>2, <3>1, RemovedRows
  <2>4. RowsHold' BY <1>2, <2>1, <2>3, Zenon DEF RowsHold
  <2>5. requests[c].op # "list" BY <1>4
  <2>6. /\ painted'.kind = painted.kind /\ listing' \in Rows
        /\ painted' \in [kind : {"loading", "live", "trash"}, rows : Rows]
    BY <1>1, <1>2, <2>1, Zenon DEF ListShapes
  <2> QED BY <1>2, <1>3, <2>1, <2>4, <2>5, <2>6, HeardKeeps, Zenon
<1> QED BY <1>5, <1>6

(* A status that was answered: the listing and the rows it leaves.         *)
Heard(r, li) ==
    IF r.reply = "ok" /\ li[r.post] # "none" THEN [li EXCEPT ![r.post] = r.want] ELSE li

HeardIs(r, li, lj) ==
    /\ r.post \in Post /\ r.want \in Status /\ lj \in Rows
    /\ \A p \in Post \ {r.post} : lj[p] = li[p]
    /\ lj[r.post] = IF r.reply = "ok" /\ li[r.post] # "none" THEN r.want ELSE li[r.post]
    /\ r.was \in Status \cup {"none"} /\ r.reply \in {"ok", "failed"}

LEMMA HeardStatus ==
    ASSUME NEW r \in PostRequest, Formed(r), r.op \in {"status", "cycle"}, r.reply # "none",
           NEW li \in Rows
    PROVE  HeardIs(r, li, Heard(r, li))
<1> DEFINE lj == Heard(r, li)
<1> SUFFICES HeardIs(r, li, lj) OBVIOUS
<1>1. r.post \in Post /\ r.want \in Status BY Zenon DEF Formed
<1>2. r.was \in Status \cup {"none"} /\ r.reply \in {"ok", "failed"} BY DEF PostRequest
<1>3. CASE r.reply = "ok" /\ li[r.post] # "none"
  <2>1. lj = [li EXCEPT ![r.post] = r.want] BY <1>3 DEF Heard
  <2> HIDE DEF lj
  <2> QED BY <1>1, <1>2, <1>3, <2>1 DEF Rows, HeardIs
<1>4. CASE ~(r.reply = "ok" /\ li[r.post] # "none")
  <2>1. lj = li BY <1>4 DEF Heard
  <2> HIDE DEF lj
  <2> QED BY <1>1, <1>2, <1>4, <2>1 DEF HeardIs
<1> QED BY <1>3, <1>4

LEMMA StatusAnsweredKeeps ==
    ASSUME ListInv, NEW c \in 1..Slots, StatusAnswered(c)
    PROVE  ListInv'
<1> DEFINE r == requests[c]
           rs == RemoveAt(requests, c)
<1>1. /\ UserShapes /\ ListShapes /\ Counted /\ RowsHold /\ LastLoad
      /\ Pending(requests, muddled, place, stored)
  BY Zenon DEF ListInv
<1>2. /\ c \in DOMAIN requests /\ r.op \in {"status", "cycle"} /\ r.reply # "none"
      /\ listing' = IF r.reply = "ok" /\ listing[r.post] # "none"
                    THEN [listing EXCEPT ![r.post] = r.want] ELSE listing
      /\ UNCHANGED <<statusFilter, words, atPage, perPage, fitted, room, resizing, place, stored,
                     present, url, busy, pagination, picking, picked, dialog, typed, acts, astray,
                     haunted, miscounted>>
  BY Zenon DEF StatusAnswered, AnsweredAs, queried, fit, postStore, selection
<1>3. UserShapes' /\ Counted' BY <1>1, <1>2, Zenon DEF UserShapes, Counted
<1>4. /\ requests \in Seq(PostRequest) /\ r \in PostRequest /\ rs \in Seq(PostRequest)
      /\ Len(rs) < Slots /\ Pending(rs, muddled, place, stored)
      /\ Lasts(rs, present, url, statusFilter)
  BY <1>2, RestOf
<1>5. PICK lj : lj = listing' BY Zenon
<1>6. listing \in Rows /\ painted.rows \in Rows
      /\ painted \in [kind : {"loading", "live", "trash"}, rows : Rows]
  BY <1>1 DEF ListShapes
<1>7. Formed(r) BY <1>1, <1>2, Zenon DEF Pending
<1>8. /\ r.post \in Post /\ r.want \in Status /\ lj \in Rows
      /\ \A p \in Post \ {r.post} : lj[p] = listing[p]
      /\ lj[r.post] = IF r.reply = "ok" /\ listing[r.post] # "none" THEN r.want
                      ELSE listing[r.post]
      /\ r.was \in Status \cup {"none"} /\ r.reply \in {"ok", "failed"}
  <2>1. lj = Heard(r, listing) BY <1>2, <1>5, Zenon DEF Heard
  <2>2. HeardIs(r, listing, Heard(r, listing))
    BY <1>2, <1>4, <1>6, <1>7, HeardStatus, Zenon
  <2> QED BY <2>1, <2>2, Zenon DEF HeardIs
<1>9. present /\ ~astray /\ ~busy =>
          RowsTrue(requests, muddled, place, stored, listing, painted.rows, statusFilter)
  BY <1>1, Zenon DEF RowsHold
<1>10. ASSUME NEW pb, \A p \in Post \ {r.post} : pb[p] = painted.rows[p],
              pb[r.post] = IF r.op = "cycle" THEN lj[r.post]
                           ELSE IF r.row /\ r.reply # "ok" THEN r.was ELSE painted.rows[r.post]
       PROVE  present /\ ~astray /\ ~busy =>
                  RowsTrue(rs, muddled, place, stored, lj, pb, statusFilter)
  <2>1. \A p \in Post \ {r.post} : lj[p] = listing[p] /\ pb[p] = painted.rows[p] BY <1>8, <1>10
  <2> QED BY <1>1, <1>2, <1>4, <1>8, <1>9, <1>10, <2>1, AnsweredRows, Zenon
<1>11. CASE r.op = "cycle"
  <2>1. Draw(rs) BY <1>11, Zenon DEF StatusAnswered
  <2> DEFINE pb == [painted.rows EXCEPT ![r.post] = lj[r.post]]
  <2>2. /\ \A p \in Post \ {r.post} : pb[p] = painted.rows[p]
        /\ pb[r.post] = lj[r.post]
    BY <1>6, <1>8 DEF Rows
  <2> HIDE DEF pb
  <2>3. present /\ ~astray /\ ~busy =>
            RowsTrue(rs, muddled, place, stored, lj, pb, statusFilter)
    BY <1>10, <1>11, <2>2, Zenon
  <2>4. present /\ ~astray /\ ~busy =>
            RowsTrue(rs, muddled, place, stored, listing', pb, statusFilter)
    BY <1>5, <2>3, Zenon
  <2>5. /\ (\E d \in DOMAIN requests : requests[d].last) => \E d \in DOMAIN rs : rs[d].last
        /\ Orphans(rs) \subseteq Orphans(requests)
        /\ \A d \in DOMAIN rs : \E e \in DOMAIN requests : rs[d] = requests[e]
    <3>1. Lasts(requests, present, url, statusFilter) /\ r.op # "list"
      BY <1>1, <1>11 DEF LastLoad
    <3>2. /\ (\E d \in DOMAIN requests : requests[d].last) /\ r.op # "list" =>
                 \E d \in DOMAIN rs : rs[d].last
          /\ Orphans(rs) \subseteq Orphans(requests)
          /\ \A d \in DOMAIN rs : \E e \in DOMAIN requests \ {c} : rs[d] = requests[e]
      BY <1>2, <1>4, <3>1, RemovedMarks, Zenon
    <3> QED BY <3>1, <3>2, Zenon
  <2>6. Len(rs) <= Slots
    <3>1. Len(rs) \in Nat BY <1>4
    <3> QED BY <1>4, <3>1, ListSizes
  <2>7. listing' \in Rows BY <1>5, <1>8, Zenon
  <2> HIDE DEF rs, r
  <2> QED BY <1>2, <1>3, <1>4, <2>1, <2>4, <2>5, <2>6, <2>7, DrawKeeps, Zenon
<1>12. CASE r.op # "cycle"
  <2>1. /\ painted' = IF r.row /\ r.reply = "failed" THEN [painted EXCEPT !.rows[r.post] = r.was]
                      ELSE painted
        /\ requests' = rs /\ UNCHANGED <<keys, measuring, muddled>>
    BY <1>12, Zenon DEF StatusAnswered
  <2>2. PICK pa : pa = painted' BY Zenon
  <2>3. /\ pa \in [kind : {"loading", "live", "trash"}, rows : Rows] /\ pa.kind = painted.kind
        /\ \A p \in Post \ {r.post} : pa.rows[p] = painted.rows[p]
        /\ pa.rows[r.post] = IF r.row /\ r.reply # "ok" THEN r.was ELSE painted.rows[r.post]
    <3>1. pa = IF r.row /\ r.reply = "failed" THEN [painted EXCEPT !.rows[r.post] = r.was]
               ELSE painted
      BY <2>1, <2>2, Zenon
    <3>2. r.reply # "ok" <=> r.reply = "failed" BY <1>8
    <3>3. CASE r.row /\ r.reply = "failed"
      <4>1. pa = [painted EXCEPT !.rows[r.post] = r.was] BY <3>1, <3>3, Zenon
      <4> HIDE DEF r
      <4> QED BY <1>6, <1>8, <3>2, <3>3, <4>1 DEF Rows
    <3>4. CASE ~(r.row /\ r.reply = "failed")
      <4>1. pa = painted BY <3>1, <3>4, Zenon
      <4> QED BY <1>6, <3>2, <3>4, <4>1, Zenon
    <3> QED BY <3>3, <3>4
  <2>4. PICK pb : pb = pa.rows BY Zenon
  <2>5. present /\ ~astray /\ ~busy =>
            RowsTrue(rs, muddled, place, stored, lj, pb, statusFilter)
    <3>1. /\ \A p \in Post \ {r.post} : pb[p] = painted.rows[p]
          /\ pb[r.post] = IF r.op = "cycle" THEN lj[r.post]
                          ELSE IF r.row /\ r.reply # "ok" THEN r.was ELSE painted.rows[r.post]
      BY <1>12, <2>3, <2>4, Zenon
    <3> QED BY <1>10, <3>1
  <2>6. RowsHold' BY <1>2, <1>5, <2>1, <2>2, <2>4, <2>5, Zenon DEF RowsHold
  <2>7. r.op # "list" BY <1>2, <1>12
  <2>8. /\ painted'.kind = painted.kind /\ listing' \in Rows
        /\ painted' \in [kind : {"loading", "live", "trash"}, rows : Rows]
    BY <1>5, <1>8, <2>2, <2>3, Zenon
  <2> QED BY <1>2, <1>3, <2>1, <2>6, <2>7, <2>8, HeardKeeps, Zenon
<1> QED BY <1>11, <1>12

(* What the answer to _load leaves of the requests, once it is drawn.      *)
LEMMA RedrawnPending ==
    ASSUME NEW rs \in Seq(PostRequest), NEW m, NEW n, NEW pl, NEW st, Pending(rs, m, pl, st),
           Orphans(rs) \subseteq n, m \cap Changing(rs) \subseteq n
    PROVE  Pending(Detached(rs), n, pl, st)
<1> DEFINE xs == Detached(rs)
<1>1. /\ DOMAIN xs = DOMAIN rs
      /\ \A d \in DOMAIN rs : Same(xs[d], rs[d]) /\ ~xs[d].row
  BY DetachedAre
<1> HIDE DEF xs
<1>2. \A d \in DOMAIN rs : rs[d].row => rs[d].post \in n BY DEF Orphans
<1>3. \A d \in DOMAIN rs : /\ Same(xs[d], rs[d]) /\ (xs[d].row => rs[d].row)
                           /\ (rs[d].row => xs[d].row \/ rs[d].post \in n)
  BY <1>1, <1>2
<1>4. \A d \in DOMAIN rs : \A p \in m : Changes(rs[d], p) => p \in n
  BY DEF Changes, Changing
<1>5. Pending(xs, n, pl, st) BY <1>1, <1>3, <1>4, RelabelledPending
<1> QED BY <1>5 DEF xs

DrawnAs(f, rows) == [kind |-> IF f = "trash" THEN "trash" ELSE "live", rows |-> rows]

LEMMA DrawnKind ==
    ASSUME NEW f \in {"", "trash"}, NEW rows \in Rows
    PROVE  /\ DrawnAs(f, rows) \in [kind : {"loading", "live", "trash"}, rows : Rows]
           /\ DrawnAs(f, rows).kind = KindOf(f) /\ DrawnAs(f, rows).kind # "loading"
           /\ DrawnAs(f, rows).rows = rows
  BY DEF KindOf, DrawnAs

LEMMA ListAnsweredKeeps ==
    ASSUME ListInv, NEW c \in 1..Slots, ListAnswered(c)
    PROVE  ListInv'
<1> DEFINE r == requests[c]
           rs == RemoveAt(requests, c)
<1>1. /\ UserShapes /\ ListShapes /\ ListFlags /\ Counted /\ Painting /\ LastLoad /\ LeftAlone
      /\ Pending(requests, muddled, place, stored)
  BY Zenon DEF ListInv
<1>2. /\ c \in DOMAIN requests /\ r.op = "list" /\ busy' = FALSE
      /\ UNCHANGED <<statusFilter, words, atPage, perPage, fitted, room, resizing, place, stored,
                     present, url, picking, picked, dialog, typed, acts, haunted, miscounted>>
  BY Zenon DEF ListAnswered, AnsweredAs, queried, fit, postStore, selection
<1>3. UserShapes' /\ Counted' BY <1>1, <1>2, Zenon DEF UserShapes, Counted
<1>4. /\ requests \in Seq(PostRequest) /\ r \in PostRequest /\ rs \in Seq(PostRequest)
      /\ Len(rs) < Slots /\ Pending(rs, muddled, place, stored)
      /\ Lasts(rs, present, url, statusFilter)
      /\ Orphans(requests) = {} => Orphans(rs) = {}
  BY <1>2, RestOf
<1>5. Len(rs) <= Slots
  <2>1. Len(rs) \in Nat BY <1>4
  <2> QED BY <1>4, <2>1, ListSizes
<1>6. \/ /\ r.reply = "ok" /\ listing' = r.data /\ astray' = ~r.last
         /\ pagination' = [query |-> r.query, pages |-> r.pages]
      \/ /\ r.reply # "ok" /\ astray' = TRUE /\ UNCHANGED <<listing, pagination>>
  BY Zenon DEF ListAnswered
<1>7. \/ /\ present
         /\ painted' = [kind |-> IF statusFilter = "trash" THEN "trash" ELSE "live",
                        rows |-> listing']
         /\ requests' = Detached(rs)
         /\ muddled' = Orphans(rs) \cup
                IF r.reply = "ok" THEN r.stale \cup (muddled \cap Changing(rs)) ELSE muddled
         /\ keys' = TRUE
         /\ measuring' = Measuring(listing')
      \/ ~present /\ requests' = rs /\ UNCHANGED <<painted, keys, measuring, muddled>>
  BY Zenon DEF ListAnswered, painting
<1>8. /\ r.data \in Rows /\ r.stale \subseteq Post /\ r.query \in ListQuery /\ r.pages \in 0..Total
      /\ r.last \in BOOLEAN
  <2> HIDE DEF r
  <2> QED BY <1>4 DEF PostRequest
<1>9. /\ listing' \in Rows /\ pagination' \in [query : ListQuery, pages : 0..Total]
      /\ astray' \in BOOLEAN
  <2>1. [query |-> r.query, pages |-> r.pages] \in [query : ListQuery, pages : 0..Total] BY <1>8
  <2>2. listing \in Rows /\ pagination \in [query : ListQuery, pages : 0..Total]
    BY <1>1, Zenon DEF ListShapes
  <2>3. (~r.last) \in BOOLEAN /\ TRUE \in BOOLEAN BY Zenon
  <2> QED BY <1>6, <1>8, <2>1, <2>2, <2>3, Zenon
<1>10. ~astray' => /\ r.reply = "ok" /\ r.last /\ listing' = r.data
                   /\ pagination'.query = r.query /\ r.query.filter = statusFilter
                   /\ present => r.query = url
  <2>1. ~astray' => r.reply = "ok" /\ r.last /\ listing' = r.data
                    /\ pagination' = [query |-> r.query, pages |-> r.pages]
    BY <1>6, Zenon
  <2>2. Lasts(requests, present, url, statusFilter) BY <1>1, Zenon DEF LastLoad
  <2>3. r.last => r.query.filter = statusFilter /\ (present => r.query = url)
    BY <1>2, <2>2, Zenon DEF Lasts
  <2>4. ~astray' => pagination'.query = r.query
    <3> HIDE DEF r
    <3> QED BY <2>1
  <2> QED BY <2>1, <2>3, <2>4, Zenon
<1>11. Orphans(rs) \subseteq Post /\ muddled \subseteq Post
  <2>1. \A d \in DOMAIN rs : Formed(rs[d]) BY <1>4, Zenon DEF Pending
  <2>2. Orphans(rs) \subseteq Post BY <1>4, <2>1, OrphansAre
  <2>3. muddled \subseteq Post BY <1>1, Zenon DEF ListShapes
  <2> QED BY <2>2, <2>3
<1>12. CASE ~present
  <2>1. requests' = rs /\ UNCHANGED <<painted, keys, measuring, muddled>> BY <1>7, <1>12, Zenon
  <2>2. ListShapes' BY <1>1, <1>2, <1>4, <1>5, <1>9, <2>1, Zenon DEF ListShapes
  <2>3. ListFlags' BY <1>1, <1>2, <1>9, <2>1, Zenon DEF ListFlags
  <2>4. Pending(requests, muddled, place, stored)' BY <1>2, <1>4, <2>1, Zenon
  <2>5. Painting' BY <1>1, <1>2, <1>4, <1>12, <2>1, Zenon DEF Painting
  <2>6. LastLoad'
    <3>1. ~astray' => pagination'.query.filter = statusFilter BY <1>10, Zenon
    <3> QED BY <1>2, <1>4, <1>12, <2>1, <3>1, Zenon DEF LastLoad
  <2>7. RowsHold' BY <1>2, <1>12, Zenon DEF RowsHold
  <2>8. LeftAlone'
    <3>2. \A d \in DOMAIN rs : \E e \in DOMAIN requests \ {c} : rs[d] = requests[e]
      BY <1>2, <1>4, RemovedFrom
    <3>3. (\A d \in DOMAIN requests : requests[d].op \in {"list", "status", "cycle"}) =>
              \A d \in DOMAIN requests' : requests'[d].op \in {"list", "status", "cycle"}
      BY <2>1, <3>2, Zenon
    <3> QED BY <1>1, <1>2, <2>1, <3>3, Zenon DEF LeftAlone
  <2> QED BY <1>3, <2>2, <2>3, <2>4, <2>5, <2>6, <2>7, <2>8, Zenon DEF ListInv
<1>13. CASE present
  <2> DEFINE xs == Detached(rs)
             n == Orphans(rs) \cup
                IF r.reply = "ok" THEN r.stale \cup (muddled \cap Changing(rs)) ELSE muddled
  <2>1. /\ painted' = [kind |-> IF statusFilter = "trash" THEN "trash" ELSE "live",
                       rows |-> listing']
        /\ requests' = xs /\ muddled' = n /\ keys' = TRUE
        /\ measuring' = Measuring(listing')
    BY <1>7, <1>13, Zenon
  <2>2. /\ xs \in Seq(PostRequest) /\ Len(xs) = Len(rs) /\ Orphans(xs) = {}
        /\ \A d \in DOMAIN xs : ~xs[d].row
    <3>1. rs \in Seq(PostRequest) BY <1>4
    <3> HIDE DEF rs
    <3> QED BY <3>1, DetachedAre
  <2>3. Lasts(xs, present, url, statusFilter) BY <1>4, DetachedMarks, Zenon
  <2>4. /\ Orphans(rs) \subseteq n /\ muddled \cap Changing(rs) \subseteq n /\ n \subseteq Post
        /\ r.reply = "ok" => r.stale \subseteq n
    BY <1>8, <1>11
  <2>5. Pending(xs, n, place, stored) BY <1>4, <2>4, RedrawnPending, Zenon
  <2> HIDE DEF xs, n
  <2>6. PICK li \in Rows : li = listing' BY <1>9
  <2>7. PICK pa : pa = painted' BY Zenon
  <2>8. /\ pa \in [kind : {"loading", "live", "trash"}, rows : Rows]
        /\ pa.kind = KindOf(statusFilter) /\ pa.kind # "loading" /\ pa.rows = li
    <3>1. pa = DrawnAs(statusFilter, li) BY <2>1, <2>6, <2>7, Zenon DEF DrawnAs
    <3>2. statusFilter \in {"", "trash"} BY <1>1, Zenon DEF UserShapes
    <3>3. /\ DrawnAs(statusFilter, li) \in [kind : {"loading", "live", "trash"}, rows : Rows]
          /\ DrawnAs(statusFilter, li).kind = KindOf(statusFilter)
          /\ DrawnAs(statusFilter, li).kind # "loading"
          /\ DrawnAs(statusFilter, li).rows = li
      BY <3>2, DrawnKind, Zenon
    <3> QED BY <3>1, <3>3, Zenon
  <2>9. ListShapes'
    <3>1. Measuring(li) \subseteq Post
      <4>1. measuring \subseteq Post BY <1>1, Zenon DEF ListShapes
      <4> QED BY <4>1, MeasuringIs
    <3>2. measuring' \subseteq Post BY <2>1, <2>6, <3>1, Zenon
    <3>3. requests' \in Seq(PostRequest) /\ Len(requests') <= Slots
      BY <1>5, <2>1, <2>2, Zenon
    <3>4. muddled' \subseteq Post BY <2>1, <2>4, Zenon
    <3>5. painted' \in [kind : {"loading", "live", "trash"}, rows : Rows]
      BY <2>7, <2>8, Zenon
    <3> QED BY <1>1, <1>2, <1>9, <3>2, <3>3, <3>4, <3>5, Zenon DEF ListShapes
  <2>10. ListFlags'
    <3>1. TRUE \in BOOLEAN /\ FALSE \in BOOLEAN OBVIOUS
    <3> QED BY <1>1, <1>2, <1>9, <2>1, <3>1, Zenon DEF ListFlags
  <2>11. Pending(requests, muddled, place, stored)' BY <1>2, <2>1, <2>5, Zenon
  <2>12. Painting'
    <3>1. /\ painted'.kind # "loading" /\ painted'.kind = KindOf(statusFilter') /\ present'
          /\ ~busy'
      BY <1>2, <1>13, <2>7, <2>8, Zenon
    <3> QED BY <3>1, Zenon DEF Painting
  <2>13. LastLoad'
    <3>1. ~astray' => pagination'.query.filter = statusFilter /\ pagination'.query = url
      BY <1>10, <1>13, Zenon
    <3>2. ~busy' BY <1>2, Zenon
    <3> QED BY <1>2, <2>1, <2>3, <3>1, <3>2, Zenon DEF LastLoad
  <2>14. ~astray' => RowsTrue(xs, n, place, stored, li, li, statusFilter)
    <3> SUFFICES ASSUME ~astray' PROVE RowsTrue(xs, n, place, stored, li, li, statusFilter)
      BY Zenon
    <3>1. li = r.data /\ r.reply = "ok" /\ r.query.filter = statusFilter BY <1>10, <2>6, Zenon
    <3>2. DataRead(requests, place, stored) BY <1>1, Zenon DEF Pending
    <3>3. \A p \in Has(r.data) \ r.stale :
              place[p] = PlaceOf(r.query.filter) /\ r.data[p] = stored[p]
      BY <1>2, <3>1, <3>2, Zenon DEF DataRead
    <3>4. r.stale \subseteq n BY <2>4, <3>1
    <3>5. \A p \in Has(li) \ n : place[p] = PlaceOf(statusFilter) /\ li[p] = stored[p]
      <4> HIDE DEF r
      <4> QED BY <3>1, <3>3, <3>4
    <3>6. \A d \in DOMAIN xs : xs[d].op = "status" => xs[d].post \in n
      BY <2>2, <2>5, Zenon DEF Pending, RowsHeld
    <3> QED BY <2>2, <3>5, <3>6, FreshRows, Zenon
  <2>15. RowsHold' BY <1>2, <2>1, <2>6, <2>7, <2>8, <2>14, Zenon DEF RowsHold
  <2>16. LeftAlone' BY <1>2, <1>13, Zenon DEF LeftAlone
  <2> QED
    BY <1>3, <2>9, <2>10, <2>11, <2>12, <2>13, <2>15, <2>16, Zenon DEF ListInv
<1> QED BY <1>12, <1>13

(* A bulk change that goes on with the next of its posts.                  *)
Onward(rs, c) ==
    [rs EXCEPT ![c].post = CHOOSE p \in rs[c].left : TRUE,
               ![c].left = @ \ {CHOOSE p \in rs[c].left : TRUE},
               ![c].reply = "none"]

Follows(x, r) ==
    /\ x.op = r.op /\ x.post \in r.left /\ x.left \subseteq r.left /\ x.want = r.want
    /\ x.row = r.row /\ x.last = r.last /\ x.reply = "none"

LEMMA NextOf ==
    ASSUME NEW r \in PostRequest, NEW p \in r.left,
           NEW x, x = [r EXCEPT !.post = p, !.left = @ \ {p}, !.reply = "none"]
    PROVE  x \in PostRequest /\ Follows(x, r)
<1>1. r.left \subseteq Post BY DEF PostRequest
<1>2. p \in 0..Total /\ r.left \ {p} \in SUBSET Post BY <1>1, ListSizes DEF Post
<1> QED BY <1>2 DEF PostRequest, Follows

LEMMA OnwardIs ==
    ASSUME NEW rs \in Seq(PostRequest), NEW c \in DOMAIN rs, rs[c].left # {}
    PROVE  /\ Onward(rs, c) \in Seq(PostRequest) /\ Len(Onward(rs, c)) = Len(rs)
           /\ DOMAIN Onward(rs, c) = DOMAIN rs
           /\ Follows(Onward(rs, c)[c], rs[c])
           /\ \A d \in DOMAIN rs \ {c} : Onward(rs, c)[d] = rs[d]
<1> DEFINE xs == Onward(rs, c)
           p == CHOOSE q \in rs[c].left : TRUE
<1>1. p \in rs[c].left OBVIOUS
<1>2. \A d \in DOMAIN rs : rs[d] \in PostRequest OBVIOUS
<1>3. xs[c] = [rs[c] EXCEPT !.post = p, !.left = @ \ {p}, !.reply = "none"] BY DEF Onward
<1>4. \A d \in DOMAIN rs \ {c} : xs[d] = rs[d] BY DEF Onward
<1>5. xs = [d \in DOMAIN rs |-> xs[d]] BY DEF Onward
<1> HIDE DEF xs, p
<1>6. xs[c] \in PostRequest /\ Follows(xs[c], rs[c]) BY <1>1, <1>2, <1>3, NextOf
<1>7. \A d \in DOMAIN rs : xs[d] \in PostRequest BY <1>2, <1>4, <1>6
<1>8. xs \in Seq(PostRequest) /\ Len(xs) = Len(rs) /\ DOMAIN xs = DOMAIN rs
  BY <1>5, <1>7, ReplacedIs
<1> QED BY <1>4, <1>6, <1>8, Zenon DEF xs

LEMMA OnwardPending ==
    ASSUME NEW rs \in Seq(PostRequest), NEW c \in DOMAIN rs, NEW xs, DOMAIN xs = DOMAIN rs,
           Follows(xs[c], rs[c]), \A d \in DOMAIN rs \ {c} : xs[d] = rs[d], Bulky(rs[c]),
           NEW m, NEW pl, NEW st, Pending(rs, m, pl, st)
    PROVE  /\ Pending(xs, m, pl, st)
           /\ Orphans(xs) = {} <=> Orphans(rs) = {}
           /\ \A here, u, f : Lasts(rs, here, u, f) => Lasts(xs, here, u, f)
           /\ (\E d \in DOMAIN rs : rs[d].last) => \E d \in DOMAIN xs : xs[d].last
           /\ Bulky(xs[c])
<1>1. /\ \A d \in DOMAIN rs : Formed(rs[d])
      /\ Overlaps(rs, m) /\ RowsHeld(rs, m) /\ Replied(rs, m, st) /\ DataRead(rs, pl, st)
  BY DEF Pending
<1>2. rs[c].op \in {"bulk status", "bulk trash"} /\ xs[c].op = rs[c].op /\ Bulky(xs[c])
  BY DEF Bulky, Follows
<1>3. /\ xs[c].post \in rs[c].left /\ xs[c].left \subseteq rs[c].left /\ xs[c].want = rs[c].want
      /\ xs[c].row = rs[c].row /\ xs[c].last = rs[c].last /\ xs[c].reply = "none"
  BY DEF Follows
<1>4. rs[c].left \subseteq Post
  <2>1. rs[c] \in PostRequest OBVIOUS
  <2> QED BY <2>1 DEF PostRequest
<1>5. \A d \in DOMAIN xs : Formed(xs[d])
  <2>1. Formed(rs[c]) BY <1>1
  <2>2. Formed(xs[c]) BY <1>2, <1>3, <1>4, <2>1 DEF Formed
  <2> QED BY <1>1, <2>2
<1>6. Overlaps(xs, m)
  <2>1. \A p : Changes(xs[c], p) => Changes(rs[c], p) BY <1>2, <1>3 DEF Changes
  <2>2. \A d \in DOMAIN rs : \A p : Changes(xs[d], p) => Changes(rs[d], p) BY <2>1
  <2> QED BY <1>1, <2>2 DEF Overlaps
<1>7. RowsHeld(xs, m) BY <1>1, <1>2 DEF RowsHeld
<1>8. Replied(xs, m, st) BY <1>1, <1>2 DEF Replied
<1>9. DataRead(xs, pl, st)
  <2> SUFFICES ASSUME NEW d \in DOMAIN xs, xs[d].op = "list", xs[d].reply = "ok"
               PROVE  \A p \in Has(xs[d].data) \ xs[d].stale :
                          pl[p] = PlaceOf(xs[d].query.filter) /\ xs[d].data[p] = st[p]
    BY Zenon DEF DataRead
  <2>1. d \in DOMAIN rs /\ xs[d] = rs[d] BY <1>2
  <2>2. rs[d].op = "list" /\ rs[d].reply = "ok" BY <2>1, Zenon
  <2>3. \A p \in Has(rs[d].data) \ rs[d].stale :
            pl[p] = PlaceOf(rs[d].query.filter) /\ rs[d].data[p] = st[p]
    BY <1>1, <2>1, <2>2, Zenon DEF DataRead
  <2> QED BY <2>1, <2>3, Zenon
<1>10. Orphans(xs) = {} <=> Orphans(rs) = {}
  <2>1. \A d \in DOMAIN rs : xs[d].row <=> rs[d].row BY <1>3
  <2> QED BY <2>1 DEF Orphans
<1>11. \A here, u, f : Lasts(rs, here, u, f) => Lasts(xs, here, u, f)
  <2> SUFFICES ASSUME NEW here, NEW u, NEW f, Lasts(rs, here, u, f) PROVE Lasts(xs, here, u, f)
    OBVIOUS
  <2>1. ~rs[c].last BY <1>2 DEF Lasts
  <2> QED BY <1>3, <2>1 DEF Lasts
<1>12. (\E d \in DOMAIN rs : rs[d].last) => \E d \in DOMAIN xs : xs[d].last BY <1>3
<1>13. Pending(xs, m, pl, st) BY <1>5, <1>6, <1>7, <1>8, <1>9 DEF Pending
<1> QED BY <1>2, <1>10, <1>11, <1>12, <1>13

LEMMA CutIs ==
    ASSUME UserShapes, NEW d,
           d = IF dialog = NoDialog THEN dialog ELSE [dialog EXCEPT !.cut = TRUE]
    PROVE  /\ d \in [kind : {"none", "trash", "purge", "bulk"}, post : 0..Total,
                     count : 0..Total, cut : BOOLEAN]
           /\ d.kind = dialog.kind /\ d.post = dialog.post
           /\ dialog = NoDialog => d = NoDialog
           /\ dialog # NoDialog => d.cut
<1>1. dialog \in [kind : {"none", "trash", "purge", "bulk"}, post : 0..Total, count : 0..Total,
                  cut : BOOLEAN]
  BY Zenon DEF UserShapes
<1>2. CASE dialog = NoDialog
  <2>1. d = dialog BY <1>2
  <2> QED BY <1>1, <1>2, <2>1, Zenon
<1>3. CASE dialog # NoDialog
  <2>1. d = [dialog EXCEPT !.cut = TRUE] BY <1>3
  <2> QED BY <1>1, <1>3, <2>1
<1> QED BY <1>2, <1>3

LEMMA BulkAnsweredKeeps ==
    ASSUME ListInv, NEW c \in 1..Slots, BulkAnswered(c)
    PROVE  ListInv'
<1>1. /\ UserShapes /\ ListShapes /\ ListFlags /\ Counted /\ Painting /\ LastLoad /\ LeftAlone
      /\ Pending(requests, muddled, place, stored)
  BY Zenon DEF ListInv
<1>2. /\ c \in DOMAIN requests /\ requests[c].op \in {"bulk status", "bulk trash"}
      /\ UNCHANGED <<place, stored, present, listing, pagination, keys, measuring, typed, acts,
                     astray, haunted, miscounted>>
  BY Zenon DEF BulkAnswered, AnsweredAs, postStore
<1>3. requests \in Seq(PostRequest) /\ Len(requests) <= Slots BY <1>1, Zenon DEF ListShapes
<1>4. requests[c].op \notin {"list", "status", "cycle"} /\ Bulky(requests[c]) BY <1>2 DEF Bulky
<1>5. CASE requests[c].left # {}
  <2> DEFINE xs == Onward(requests, c)
  <2>1. /\ requests' = xs
        /\ UNCHANGED <<url, statusFilter, words, atPage, perPage, fitted, room, resizing, busy,
                       painted, muddled, picking, picked, dialog>>
    BY <1>5, Zenon DEF BulkAnswered, Onward, queried, fit, selection
  <2>2. /\ xs \in Seq(PostRequest) /\ Len(xs) = Len(requests) /\ DOMAIN xs = DOMAIN requests
        /\ Follows(xs[c], requests[c])
        /\ \A d \in DOMAIN requests \ {c} : xs[d] = requests[d]
    BY <1>2, <1>3, <1>5, OnwardIs, Zenon
  <2> HIDE DEF xs
  <2>3. /\ Pending(xs, muddled, place, stored)
        /\ Orphans(xs) = {} <=> Orphans(requests) = {}
        /\ \A here, u, f : Lasts(requests, here, u, f) => Lasts(xs, here, u, f)
        /\ (\E d \in DOMAIN requests : requests[d].last) => \E d \in DOMAIN xs : xs[d].last
        /\ Bulky(xs[c])
    BY <1>1, <1>2, <1>3, <1>4, <2>2, OnwardPending, Zenon
  <2>4. ListShapes' BY <1>1, <1>2, <1>3, <2>1, <2>2, Zenon DEF ListShapes
  <2>5. ListFlags' BY <1>1, <1>2, <2>1, Zenon DEF ListFlags
  <2>6. UserShapes' /\ Counted' BY <1>1, <1>2, <2>1, Zenon DEF UserShapes, Counted
  <2>7. Pending(requests, muddled, place, stored)' BY <1>2, <2>1, <2>3, Zenon
  <2>8. Painting' BY <1>1, <1>2, <2>1, <2>3, Zenon DEF Painting
  <2>9. LastLoad' BY <1>1, <1>2, <2>1, <2>3, Zenon DEF LastLoad
  <2>10. RowsHold'
    <3>1. \A st, pl, m, li, pa, f : RowsTrue(xs, m, pl, st, li, pa, f)
      BY <1>2, <2>2, <2>3, Zenon DEF RowsTrue
    <3> QED BY <2>1, <3>1, Zenon DEF RowsHold
  <2>11. LeftAlone'
    <3>1. present \/ haunted BY <1>1, <1>2, <1>4, Zenon DEF LeftAlone
    <3> QED BY <1>2, <3>1, Zenon DEF LeftAlone
  <2> QED
    BY <2>4, <2>5, <2>6, <2>7, <2>8, <2>9, <2>10, <2>11, Zenon DEF ListInv
<1>6. CASE requests[c].left = {}
  <2>1. /\ picking' = FALSE /\ picked' = {}
        /\ UNCHANGED <<statusFilter, words, atPage, perPage, fitted, room, resizing>>
        /\ LoadList(RemoveAt(requests, c), State)
        /\ dialog' = IF dialog = NoDialog THEN dialog ELSE [dialog EXCEPT !.cut = TRUE]
    BY <1>6, Zenon DEF BulkAnswered, BulkEnds, queried, fit
  <2>2. PICK d : d = dialog' BY Zenon
  <2>3. /\ d \in [kind : {"none", "trash", "purge", "bulk"}, post : 0..Total,
                  count : 0..Total, cut : BOOLEAN]
        /\ d.kind = dialog.kind /\ d.post = dialog.post
        /\ dialog = NoDialog => d = NoDialog
        /\ dialog # NoDialog => d.cut
    <3>1. d = IF dialog = NoDialog THEN dialog ELSE [dialog EXCEPT !.cut = TRUE]
      BY <2>1, <2>2, Zenon
    <3> QED BY <1>1, <3>1, CutIs
  <2>4. UserShapes'
    <3>1. FALSE \in BOOLEAN /\ {} \subseteq Post OBVIOUS
    <3> QED BY <1>1, <1>2, <2>1, <2>2, <2>3, <3>1, Zenon DEF UserShapes
  <2>5. Counted'
    <3>1. ~miscounted' BY <1>1, <1>2, Zenon DEF Counted
    <3>2. dialog'.kind = "bulk" => dialog'.cut
      <4>1. NoDialog.kind # "bulk" BY NoDialogIs
      <4> QED BY <2>2, <2>3, <4>1, Zenon
    <3>3. dialog'.kind \in {"trash", "purge"} => dialog'.post \in Post
      BY <1>1, <2>2, <2>3, Zenon DEF Counted
    <3>4. dialog'.kind = "none" => dialog' = NoDialog BY <1>1, <2>2, <2>3, Zenon DEF Counted
    <3> QED BY <3>1, <3>2, <3>3, <3>4, Zenon DEF Counted
  <2> QED BY <1>2, <1>4, <2>1, <2>4, <2>5, LoadedAfter, Zenon
<1> QED BY <1>5, <1>6

LEMMA LeaveListKeeps == ASSUME ListInv, LeaveList PROVE ListInv'
<1>1. /\ UserShapes /\ ListShapes /\ ListFlags /\ Counted /\ Painting /\ LastLoad
      /\ Pending(requests, muddled, place, stored)
  BY Zenon DEF ListInv
<1>2. /\ ListAct /\ present' = FALSE /\ url' = NoQuery /\ keys' = FALSE
      /\ haunted' = (\/ dialog # NoDialog \/ typed # "none" \/ resizing \/ measuring # {}
                     \/ \E c \in DOMAIN requests : requests[c].op \notin {"list", "status", "cycle"})
      /\ UNCHANGED <<place, stored, statusFilter, words, atPage, perPage, fitted, room, resizing,
                     busy, listing, pagination, painted, measuring, muddled, picking, picked,
                     dialog, typed, requests, astray, miscounted>>
  BY Zenon DEF LeaveList, TornDown, postStore, queried, fit, loaded, selection
<1>3. acts' \in 0..MaxListActs BY <1>1, <1>2, ListActCounts, Zenon
<1>4. UserShapes' /\ Counted' BY <1>1, <1>2, <1>3, Zenon DEF UserShapes, Counted
<1>5. NoQuery \in ListQuery
  <2>1. {} \in Words BY DEF Words
  <2> QED BY <2>1, PageNumbers DEF NoQuery, ListQuery
<1>6. ListShapes' BY <1>1, <1>2, <1>5, PageNumbers, Zenon DEF ListShapes
<1>7. ListFlags'
  <2>1. FALSE \in BOOLEAN OBVIOUS
  <2>2. haunted' \in BOOLEAN BY <1>2, Zenon
  <2> QED BY <1>1, <1>2, <2>1, <2>2, Zenon DEF ListFlags
<1>8. Pending(requests, muddled, place, stored)' BY <1>1, <1>2, Zenon
<1>9. ~present' BY <1>2, Zenon
<1>10. Painting' BY <1>1, <1>2, <1>9, Zenon DEF Painting
<1>11. LastLoad'
  <2>1. Lasts(requests, present, url, statusFilter) BY <1>1, Zenon DEF LastLoad
  <2>2. \A u : Lasts(requests, FALSE, u, statusFilter) BY <2>1, Zenon DEF Lasts
  <2>3. present' = FALSE BY <1>2, Zenon
  <2>4. Lasts(requests, present, url, statusFilter)' BY <1>2, <2>2, <2>3, Zenon
  <2> QED BY <1>1, <1>2, <1>9, <2>4, Zenon DEF LastLoad
<1>12. RowsHold' BY <1>9, Zenon DEF RowsHold
<1>13. LeftAlone'
  <2>1. ~haunted' => /\ dialog = NoDialog /\ typed = "none" /\ measuring = {} /\ ~resizing
                     /\ \A c \in DOMAIN requests : requests[c].op \in {"list", "status", "cycle"}
    BY <1>2, Zenon
  <2>2. resizing \in BOOLEAN BY <1>1, Zenon DEF UserShapes
  <2>3. ~haunted' => resizing = FALSE BY <2>1, <2>2
  <2> QED BY <1>2, <2>1, <2>3, Zenon DEF LeftAlone
<1> QED
  BY <1>4, <1>6, <1>7, <1>8, <1>10, <1>11, <1>12, <1>13, Zenon DEF ListInv

(***************************************************************************)
(* The list of posts keeps what it promises.                               *)
(***************************************************************************)
LEMMA ListStarts == ASSUME ListInit PROVE ListInv
<1>1. Total \in Nat \ {0} /\ Slots \in Nat \ {0} /\ MaxListActs \in Nat BY ListSizes
<1>2. NoQuery \in ListQuery /\ Ask("", {}, 1) \in ListQuery /\ Ask("", {}, 1).filter = ""
  <2>1. {} \in Words /\ "" \in {"", "trash"} BY DEF Words
  <2>2. NoQuery \in ListQuery BY <2>1, PageNumbers DEF NoQuery, ListQuery
  <2> QED BY <2>1, <2>2, PageNumbers, AskIs
<1>3. /\ url = Ask("", {}, 1) /\ statusFilter = "" /\ words = {} /\ atPage = 1
      /\ perPage = Total /\ present = TRUE /\ busy = TRUE
      /\ requests = <<LoadCall(url, Total)>>
  BY DEF ListInit, Ask, LoadCall
<1>4. Total \in 1..Total BY <1>1
<1>5. url \in ListQuery /\ url.filter = "" BY <1>2, <1>3
<1> DEFINE r == LoadCall(url, Total)
<1>6. r \in PostRequest /\ Loads(r, url, Total) BY <1>4, <1>5, LoadCallIs
<1> HIDE DEF r
<1>7. r.op = "list" /\ r.query = url /\ r.per = Total /\ r.last /\ ~r.row /\ r.reply = "none"
  BY <1>6, Zenon DEF Loads
<1>8. requests = <<r>> BY <1>3 DEF r
<1>9. requests \in Seq(PostRequest) /\ Len(requests) = 1 /\ DOMAIN requests = {1} /\ requests[1] = r
  BY <1>6, <1>8
<1>10. Len(requests) <= Slots BY <1>1, <1>9
<1>11. NoRows \in Rows BY NoRowsIs
<1>12. ListShapes
  <2>1. place \in [Post -> {"list", "trash", "gone"}] /\ stored \in [Post -> Status]
    BY DEF ListInit, Status
  <2>2. listing \in Rows BY <1>11 DEF ListInit
  <2>3. pagination \in [query : ListQuery, pages : 0..Total]
    BY <1>2, PageNumbers DEF ListInit
  <2>4. painted \in [kind : {"loading", "live", "trash"}, rows : Rows] BY <1>11 DEF ListInit
  <2>5. muddled \subseteq Post /\ measuring \subseteq Post BY DEF ListInit
  <2> QED BY <1>5, <1>9, <1>10, <2>1, <2>2, <2>3, <2>4, <2>5, Zenon DEF ListShapes
<1>13. UserShapes
  <2>1. {} \in Words /\ 0 \in 0..MaxListActs BY <1>1 DEF Words
  <2>2. /\ statusFilter \in {"", "trash"} /\ words \in Words /\ atPage = 1
        /\ perPage \in 1..Total
    BY <1>3, <1>4, <2>1
  <2>3. /\ room \in 1..Total /\ fitted \in BOOLEAN /\ resizing \in BOOLEAN /\ picking \in BOOLEAN /\ picked \subseteq Post
        /\ typed \in {"none", "", "text"} /\ acts \in 0..MaxListActs
    BY <2>1 DEF ListInit
  <2>4. dialog = NoDialog BY DEF ListInit
  <2> QED BY <2>2, <2>3, <2>4, NoDialogIs, Zenon DEF UserShapes
<1>14. ListFlags BY DEF ListInit, ListFlags
<1>15. Pending(requests, muddled, place, stored)
  <2>1. \A c \in DOMAIN requests : Formed(requests[c]) BY <1>4, <1>7, <1>9 DEF Formed
  <2>2. Overlaps(requests, muddled) BY <1>9 DEF Overlaps
  <2>3. RowsHeld(requests, muddled) BY <1>7, <1>9 DEF RowsHeld
  <2>4. Replied(requests, muddled, stored) BY <1>7, <1>9 DEF Replied
  <2>5. DataRead(requests, place, stored) BY <1>7, <1>9 DEF DataRead
  <2> QED BY <2>1, <2>2, <2>3, <2>4, <2>5 DEF Pending
<1>16. Painting
  <2>1. Orphans(requests) = {} BY <1>7, <1>9 DEF Orphans
  <2>2. painted.kind = "loading" BY DEF ListInit
  <2> QED BY <1>3, <2>1, <2>2 DEF Painting
<1>17. LastLoad
  <2>1. Lasts(requests, present, url, statusFilter) BY <1>3, <1>5, <1>7, <1>9 DEF Lasts
  <2>2. painted.kind = "loading" BY DEF ListInit
  <2>3. \E c \in DOMAIN requests : requests[c].last BY <1>7, <1>9
  <2> QED BY <1>3, <2>1, <2>2, <2>3 DEF LastLoad
<1>18. RowsHold BY <1>3 DEF RowsHold
<1>19. LeftAlone BY <1>3 DEF LeftAlone
<1>20. Counted
  <2>1. dialog = NoDialog /\ ~miscounted BY DEF ListInit
  <2>2. NoDialog.kind # "bulk" /\ NoDialog.kind \notin {"trash", "purge"} BY NoDialogIs
  <2> QED BY <2>1, <2>2 DEF Counted
<1> QED
  BY <1>12, <1>13, <1>14, <1>15, <1>16, <1>17, <1>18, <1>19, <1>20, Zenon DEF ListInv

LEMMA ListRests == ASSUME ListInv, UNCHANGED listVars PROVE ListInv'
<1>1. UserShapes /\ ListShapes /\ Counted /\ LeftAlone BY Zenon DEF ListInv
<1>2. UNCHANGED <<place, stored, present, url, statusFilter, words, atPage, perPage, fitted, room,
                  resizing, busy, listing, pagination, painted, keys, measuring, muddled, picking,
                  picked, dialog, typed, requests, acts, astray, haunted, miscounted>>
  BY Zenon DEF listVars
<1>3. UserShapes' /\ Counted' /\ LeftAlone'
  BY <1>1, <1>2, Zenon DEF UserShapes, Counted, LeftAlone
<1>4. measuring' \subseteq Post BY <1>1, <1>2, Zenon DEF ListShapes
<1> QED BY <1>2, <1>3, <1>4, OtherListKeeps, Zenon

LEMMA ListInductive == ASSUME ListInv, ListNext PROVE ListInv'
<1>1. ASSUME NEW s \in {"", "trash"}, ChangeFilter(s) PROVE ListInv' BY <1>1, ChangeFilterKeeps
<1>2. ASSUME NEW text \in {"", "text"}, TypeWords(text) PROVE ListInv' BY <1>2, TypeWordsKeeps
<1>3. CASE ChangeTag BY <1>3, ChangeTagKeeps
<1>4. CASE SearchFires BY <1>4, SearchFiresKeeps
<1>5. CASE ResizeFires BY <1>5, ResizeFiresKeeps
<1>6. CASE CancelDialog BY <1>6, CancelDialogKeeps
<1>7. CASE ConfirmDialog BY <1>7, ConfirmDialogKeeps
<1>8. CASE ToggleMode BY <1>8, ToggleModeKeeps
<1>9. CASE LeaveList BY <1>9, LeaveListKeeps
<1>10. ASSUME NEW p \in Post,
              TurnTo(p) \/ MeasureRows(p) \/ Resize(p) \/ PickCard(p) \/ PickRow(p)
       PROVE  ListInv'
  BY <1>10, TurnToKeeps, MeasureRowsKeeps, ResizeKeeps, PickCardKeeps, PickRowKeeps
<1>11. ASSUME NEW p \in Post, NEW s \in Status, ChangeStatus(p, s) PROVE ListInv'
  BY <1>11, ChangeStatusKeeps
<1>12. ASSUME NEW p \in Post, NEW op \in {"cycle", "restore"}, SendPost(op, p) PROVE ListInv'
  BY <1>12, SendPostKeeps
<1>13. ASSUME NEW p \in 0..Total, NEW kind \in {"trash", "purge", "bulk"}, AskPost(kind, p)
       PROVE  ListInv'
  BY <1>13, AskPostKeeps
<1>14. ASSUME NEW s \in Status, BulkApply(s) PROVE ListInv' BY <1>14, BulkApplyKeeps
<1>15. ASSUME NEW checked \in BOOLEAN, PickAll(checked) PROVE ListInv' BY <1>15, PickAllKeeps
<1>16. ASSUME NEW c \in 1..Slots, NEW fails \in BOOLEAN, Serve(c, fails) PROVE ListInv'
  BY <1>16, ServeKeeps
<1>17. ASSUME NEW c \in 1..Slots,
              \/ LoseAnswer(c)
              \/ ListAnswered(c) \/ StatusAnswered(c) \/ MoveAnswered(c) \/ BulkAnswered(c)
       PROVE  ListInv'
  BY <1>17, LoseAnswerKeeps, ListAnsweredKeeps, StatusAnsweredKeeps, MoveAnsweredKeeps, BulkAnsweredKeeps
<1>18. ASSUME NEW p \in Post, NEW n \in Post, MeasureElsewhere(p, n) PROVE ListInv'
  BY <1>18, MeasureElsewhereKeeps
<1> QED
  BY <1>1, <1>2, <1>3, <1>4, <1>5, <1>6, <1>7, <1>8, <1>9, <1>10, <1>11, <1>12, <1>13, <1>14,
     <1>15, <1>16, <1>17, <1>18, Zenon DEF ListNext

(* The list of posts keeps its invariant: two requests that change one     *)
(* post have muddled it, the load asked for last is marked, and every row  *)
(* is true but for the muddled ones, until the page is left.               *)
THEOREM ListInvariant == ListSpec => []ListInv
<1>1. ListInit => ListInv BY ListStarts
<1>2. ListInv /\ [ListNext]_listVars => ListInv' BY ListInductive, ListRests
<1> QED BY <1>1, <1>2, PTL DEF ListSpec

(* Every value of the list of posts is of its type.                        *)
THEOREM ListIsTyped == ListSpec => []ListTypeOK
<1>1. ListInv => ListTypeOK
  <2> SUFFICES ASSUME ListInv PROVE ListTypeOK OBVIOUS
  <2>1. UserShapes /\ ListShapes /\ ListFlags BY Zenon DEF ListInv
  <2>2. {present, busy, fitted, keys, resizing, picking, astray, haunted, miscounted} \subseteq BOOLEAN
    BY <2>1 DEF ListFlags, UserShapes
  <2>3. atPage \in 1..Total
    <3>1. atPage = 1 BY <2>1, Zenon DEF UserShapes
    <3> QED BY <3>1, PageNumbers
  <2> QED BY <2>1, <2>2, <2>3, Zenon DEF ListTypeOK, ListShapes, UserShapes
<1> QED BY <1>1, ListInvariant, PTL

LEMMA ListKeptByInv == ASSUME ListInv PROVE ListKept
<1>1. /\ UserShapes /\ ListShapes /\ ListFlags /\ Painting /\ LastLoad /\ RowsHold /\ LeftAlone
      /\ Counted
  BY Zenon DEF ListInv
<1>2. statusFilter \in {"", "trash"} BY <1>1, Zenon DEF UserShapes
<1>3. ASSUME ListQuiet PROVE present /\ requests = <<>> /\ ~astray /\ ~busy /\ painted.kind # "loading"
  <2>1. present /\ requests = <<>> /\ ~astray BY <1>3 DEF ListQuiet
  <2>2. \A c \in DOMAIN requests : FALSE BY <2>1
  <2>3. ~busy BY <1>1, <2>1, <2>2, Zenon DEF LastLoad
  <2>4. painted.kind # "loading" BY <1>1, <2>1, <2>3, Zenon DEF Painting
  <2> QED BY <2>1, <2>3, <2>4
<1>4. ShownIsAsked BY <1>1, <1>3, Zenon DEF ShownIsAsked, LastLoad
<1>5. ButtonsFit
  <2> SUFFICES ASSUME painted.kind # "loading", ~astray
               PROVE  painted.kind = "trash" <=> pagination.query.filter = "trash"
    BY Zenon DEF ButtonsFit
  <2>1. painted.kind = KindOf(statusFilter) BY <1>1, Zenon DEF Painting
  <2>2. pagination.query.filter = statusFilter BY <1>1, Zenon DEF LastLoad
  <2> QED BY <1>2, <2>1, <2>2 DEF KindOf
<1>6. RowsAreTrue
  <2> SUFFICES ASSUME ListQuiet, NEW p \in Has(painted.rows) \ muddled
               PROVE  /\ place[p] = (IF painted.kind = "trash" THEN "trash" ELSE "list")
                      /\ painted.rows[p] = stored[p]
    BY Zenon DEF RowsAreTrue
  <2>1. requests = <<>> /\ painted.kind # "loading" BY <1>3
  <2>2. RowsTrue(requests, muddled, place, stored, listing, painted.rows, statusFilter)
    BY <1>1, <1>3, Zenon DEF RowsHold
  <2>3. \A c \in DOMAIN requests : FALSE BY <2>1
  <2>4. RowIsTrue(requests, p, place, stored, listing, painted.rows, statusFilter)
    BY <2>2, <2>3, Zenon DEF RowsTrue
  <2>5. place[p] = PlaceOf(statusFilter) /\ painted.rows[p] = stored[p]
    BY <2>3, <2>4, Zenon DEF RowIsTrue
  <2>6. painted.kind = KindOf(statusFilter) BY <1>1, <2>1, Zenon DEF Painting
  <2> QED BY <1>2, <2>5, <2>6 DEF PlaceOf, KindOf
<1>7. AddressIsItsOwn BY <1>1, Zenon DEF LeftAlone, AddressIsItsOwn
<1>8. CountIsKept BY <1>1, Zenon DEF Counted, CountIsKept
<1> QED BY <1>4, <1>5, <1>6, <1>7, <1>8 DEF ListKept

(* What the list of posts shows, offers and says is so.                    *)
THEOREM ListHolds == ListSpec => []ListKept
<1>1. ListInv => ListKept BY ListKeptByInv
<1> QED BY <1>1, ListInvariant, PTL

=============================================================================
