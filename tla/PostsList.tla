----------------------------- MODULE PostsList ------------------------------
(***************************************************************************)
(* The list of posts (pages/light/PostsListPage.ts): filters, paging and   *)
(* the per_page that fits the window, status changes from a row, moving to *)
(* the trash and back, selection and bulk changes.  Every load replaces    *)
(* the rows by "Loading…" and the address by what it asks for, and draws   *)
(* the page anew when it is answered; loads are not numbered.              *)
(*                                                                         *)
(* Left out: tag editors, preview links, and how a drawer slides open.     *)
(***************************************************************************)
EXTENDS Naturals, Sequences, FiniteSets, SequencesExt

CONSTANTS
    Total,       \* posts of the blog
    Slots,       \* bound: requests under way
    MaxListActs  \* bound: what the user does, requests and answers lost

ASSUME ListAssumption == {Total, Slots} \subseteq Nat \ {0} /\ MaxListActs \in Nat

VARIABLES
    (* the server *)
    place,     \* place[p]: in the list, in the trash or gone
    stored,    \* stored[p]: its status
    (* the page *)
    present,   \* the page is mounted
    url,       \* what the address asks for, or NoQuery elsewhere
    statusFilter, words, atPage, \* state: statusFilter, tagFilter and search, page
    perPage, fitted, room,       \* _perPage, _hasFitToViewport, rows the window fits
    busy,       \* state.loading
    listing,    \* state.posts: their status, or "none"
    pagination, \* state.pagination, with the query it is about
    painted,    \* the rows on the screen
    keys,       \* the arrow keys are listened to
    resizing,   \* the debounce of a resize runs
    measuring,  \* rows, for each frame asked for to measure them
    picking, picked,             \* state.selectMode, state.selectedIds
    dialog,     \* the confirmation on the screen
    typed,      \* the debounced search, or "none"
    requests,   \* under way, oldest first
    acts,
    (* history *)
    astray,    \* what is listed is not what was asked for last
    muddled,   \* posts whose row may have missed a change
    haunted,   \* the page was left with something that will load again
    miscounted \* a bulk move was not of as many posts as it said

postStore == <<place, stored>>
queried == <<statusFilter, words, atPage>>
fit == <<perPage, fitted, room, resizing>>
loaded == <<busy, listing, pagination>>
painting == <<painted, keys, measuring, muddled>>
selection == <<picking, picked>>
listVars == <<place, stored, present, url, statusFilter, words, atPage, perPage, fitted, room,
              busy, listing, pagination, painted, keys, resizing, measuring, picking, picked,
              dialog, typed, requests, acts, astray, muddled, haunted, miscounted>>

Post == 1..Total
Status == {"draft", "published"}
Words == SUBSET {"tag", "text"}
ListQuery == [filter : {"", "trash"}, words : Words, page : 0..(Total + 1)]
NoQuery == [filter |-> "", words |-> {}, page |-> 0]
NoRows == [p \in Post |-> "none"]
Rows == [Post -> Status \cup {"none"}]
Has(rows) == {p \in Post : rows[p] # "none"}

PostRequest ==
    [op : {"list", "status", "cycle", "trash", "restore", "purge", "bulk status", "bulk trash"},
     post : 0..Total, left : SUBSET Post, want : Status \cup {"none"}, was : Status \cup {"none"},
     row : BOOLEAN, query : ListQuery, per : 0..Total, last : BOOLEAN,
     reply : {"none", "ok", "failed"}, data : Rows, pages : 0..Total, stale : SUBSET Post]

NoDialog == [kind |-> "none", post |-> 0, count |-> 0, cut |-> FALSE]

ListTypeOK ==
    /\ place \in [Post -> {"list", "trash", "gone"}]
    /\ stored \in [Post -> Status]
    /\ {present, busy, fitted, keys, resizing, picking, astray, haunted, miscounted} \subseteq BOOLEAN
    /\ url \in ListQuery
    /\ statusFilter \in {"", "trash"} /\ words \in Words /\ atPage \in 1..Total
    /\ perPage \in 1..Total /\ room \in 1..Total /\ measuring \subseteq Post
    /\ listing \in Rows
    /\ pagination \in [query : ListQuery, pages : 0..Total]
    /\ painted \in [kind : {"loading", "live", "trash"}, rows : Rows]
    /\ picked \subseteq Post /\ muddled \subseteq Post
    /\ dialog \in [kind : {"none", "trash", "purge", "bulk"}, post : 0..Total, count : 0..Total,
                   cut : BOOLEAN]
    /\ typed \in {"none", "", "text"}
    /\ requests \in Seq(PostRequest) /\ Len(requests) <= Slots
    /\ acts \in 0..MaxListActs

-----------------------------------------------------------------------------
(* The server, as the page uses it.                                        *)

(* GET /api/posts: the tag is that of the odd posts, the text of the first.*)
Matches(q, p) ==
    /\ place[p] = (IF q.filter = "trash" THEN "trash" ELSE "list")
    /\ "tag" \in q.words => p % 2 = 1
    /\ "text" \in q.words => p = 1

Found(q) == {p \in Post : Matches(q, p)}

Ahead(q, p) == {o \in Found(q) : o < p}

OnPage(q, per) ==
    {p \in Found(q) : Cardinality(Ahead(q, p)) \in ((q.page - 1) * per)..(q.page * per - 1)}

(* What a request that does not fail changes.                              *)
Effect(r) ==
    LET Move(from, to) ==
            IF place[r.post] \in from THEN [place EXCEPT ![r.post] = to] ELSE place
    IN  CASE r.op \in {"status", "cycle", "bulk status"} ->
                stored' = [stored EXCEPT ![r.post] = r.want] /\ UNCHANGED place
          [] r.op \in {"trash", "bulk trash"} ->
                 place' = Move({"list"}, "trash") /\ UNCHANGED stored
          [] r.op = "restore" -> place' = Move({"trash"}, "list") /\ UNCHANGED stored
          [] r.op = "purge" -> place' = Move({"list", "trash"}, "gone") /\ UNCHANGED stored
          [] r.op = "list" -> UNCHANGED postStore

(* A post in the trash is not found when its status is to be changed.      *)
Refused(r) == r.op \in {"status", "cycle", "bulk status"} /\ place[r.post] # "list"

-----------------------------------------------------------------------------
(* Drawing and loading.                                                    *)

Call(op, p) ==
    [op |-> op, post |-> p, left |-> {}, want |-> "none", was |-> "none", row |-> FALSE,
     query |-> NoQuery, per |-> 0, last |-> FALSE, reply |-> "none", data |-> NoRows, pages |-> 0,
     stale |-> {}]

(* A status change holds the select it came from, until that is replaced.  *)
Detached(rs) == [c \in DOMAIN rs |-> [rs[c] EXCEPT !.row = FALSE]]
Orphans(rs) == {rs[c].post : c \in {d \in DOMAIN rs : rs[d].row}}

(* _fitToViewport: a frame is asked for, to measure as many rows.          *)
Measuring(rows) == measuring \cup ({Cardinality(Has(rows))} \cap Post)

(* render, afterRender: the state as it will be is drawn, if mounted, and  *)
(* _fitToViewport is called.                                               *)
Draw(rs) ==
    IF present
    THEN /\ painted' = IF busy' THEN [kind |-> "loading", rows |-> NoRows]
                     ELSE [kind |-> IF statusFilter' = "trash" THEN "trash" ELSE "live",
                           rows |-> listing']
         /\ requests' = Detached(rs)
         /\ muddled' = (muddled \cup Orphans(rs))
         /\ keys' = (keys \/ ~busy')
         /\ measuring' = IF busy' THEN measuring ELSE Measuring(listing')
    ELSE requests' = rs /\ UNCHANGED painting

(* _load: "Loading…" in the rows, the address, the request.                *)
LoadList(rs, q) ==
    /\ busy' = TRUE
    /\ url' = q
    /\ painted' = IF present THEN [kind |-> "loading", rows |-> NoRows] ELSE painted
    /\ muddled' = IF present THEN muddled \cup Orphans(rs) ELSE muddled
    /\ requests' = Append([c \in DOMAIN rs |->
                               [rs[c] EXCEPT !.row = IF present THEN FALSE ELSE @, !.last = FALSE]],
                          [Call("list", 0) EXCEPT !.query = q, !.per = perPage', !.last = TRUE])

State == [filter |-> statusFilter', words |-> words', page |-> atPage']

ListInit ==
    /\ place = [p \in Post |-> "list"]
    /\ stored = [p \in Post |-> "draft"]
    /\ present = TRUE
    /\ statusFilter = "" /\ words = {} /\ atPage = 1
    /\ perPage = Total /\ fitted = FALSE /\ room \in 1..Total
    /\ url = [filter |-> statusFilter, words |-> words, page |-> atPage]
    /\ busy = TRUE
    /\ listing = NoRows
    /\ pagination = [query |-> NoQuery, pages |-> 0]
    /\ painted = [kind |-> "loading", rows |-> NoRows]
    /\ keys = FALSE /\ resizing = FALSE /\ measuring = {}
    /\ picking = FALSE /\ picked = {}
    /\ dialog = NoDialog
    /\ typed = "none"
    /\ requests = <<[Call("list", 0) EXCEPT !.query = url, !.per = perPage, !.last = TRUE]>>
    /\ acts = 0
    /\ astray = FALSE /\ muddled = {} /\ haunted = FALSE /\ miscounted = FALSE

-----------------------------------------------------------------------------
(* The filters and the pages.                                              *)

ListAct == acts < MaxListActs /\ acts' = acts + 1
Room == Len(requests) < Slots
Free == present /\ dialog = NoDialog

(* The status filter; in select mode the bulk toolbar covers it.           *)
ChangeFilter(s) ==
    /\ ListAct /\ Room /\ Free /\ ~picking
    /\ statusFilter' = s /\ atPage' = 1 /\ UNCHANGED <<words, fit>>
    /\ LoadList(requests, State)
    /\ UNCHANGED <<postStore, present, listing, pagination, keys, measuring, selection, dialog,
                   typed, astray, haunted, miscounted>>

(* The tag filter, mounted when the list is drawn.                         *)
ChangeTag ==
    /\ ListAct /\ Room /\ Free /\ ~picking /\ painted.kind = "live"
    /\ words' = (words \ {"tag"}) \cup ({"tag"} \ words) /\ atPage' = 1
    /\ UNCHANGED <<statusFilter, fit>>
    /\ LoadList(requests, State)
    /\ UNCHANGED <<postStore, present, listing, pagination, keys, measuring, selection, dialog,
                   typed, astray, haunted, miscounted>>

TypeWords(text) ==
    /\ ListAct /\ Free /\ ~picking /\ statusFilter = ""
    /\ typed # text
    /\ typed' = text
    /\ UNCHANGED <<postStore, present, url, queried, fit, loaded, painting, selection, dialog,
                   requests, astray, haunted, miscounted>>

(* The debounced search, which may outlive the page.                       *)
SearchFires ==
    /\ Room /\ typed # "none"
    /\ words' = (words \ {"text"}) \cup ({typed} \ {""}) /\ atPage' = 1
    /\ UNCHANGED <<statusFilter, fit>>
    /\ typed' = "none"
    /\ LoadList(requests, State)
    /\ UNCHANGED <<postStore, present, listing, pagination, keys, measuring, selection, dialog,
                   acts, astray, haunted, miscounted>>

(* Pagination, arrows and keys: state.page stays what it was.              *)
TurnTo(p) ==
    /\ ListAct /\ Room /\ keys
    /\ p \in {pagination.query.page - 1, pagination.query.page + 1} \cap 1..pagination.pages
    /\ UNCHANGED <<queried, fit>>
    /\ LoadList(requests, [State EXCEPT !.page = p])
    /\ UNCHANGED <<postStore, present, listing, pagination, keys, measuring, selection, dialog,
                   typed, astray, haunted, miscounted>>

(* The frame: the rows of a draw against the height of what is drawn now.  *)
(* The list is loaded again with as many as fit, from the page of the      *)
(* state, or the one that holds its first post.                            *)
Larger(a, b) == IF a < b THEN b ELSE a

Refit(n, fits) ==
    /\ LET first == ((atPage - 1) * perPage) \div fits + 1
       IN  IF fits # n /\ fits # perPage
           THEN /\ perPage' = fits
                /\ UNCHANGED queried
                /\ LoadList(requests, [State EXCEPT !.page = IF fitted THEN first ELSE atPage])
           ELSE UNCHANGED <<url, queried, perPage, busy, painted, muddled, requests>>
    /\ fitted' = TRUE
    /\ measuring' = measuring \ {n}
    /\ UNCHANGED <<postStore, present, room, resizing, listing, pagination, keys, selection,
                   dialog, typed, acts, astray, haunted, miscounted>>

MeasureRows(n) ==
    /\ Room /\ present /\ n \in measuring
    /\ Refit(n, Larger(1, (n * room) \div Larger(room, Cardinality(Has(painted.rows)))))

(* No frame is cancelled: one that comes after the page was left measures  *)
(* the table of the page that took its place, or finds none.               *)
MeasureElsewhere(n, fits) ==
    /\ Room /\ ~present /\ n \in measuring
    /\ \/ Refit(n, fits)
       \/ /\ measuring' = measuring \ {n}
          /\ UNCHANGED <<postStore, present, url, queried, fit, loaded, painted, keys, muddled,
                         selection, dialog, typed, requests, acts, astray, haunted, miscounted>>

Resize(n) ==
    /\ ListAct /\ present /\ n # room
    /\ room' = n
    /\ resizing' = TRUE
    /\ UNCHANGED <<postStore, present, url, queried, perPage, fitted, loaded, painting, selection,
                   dialog, typed, requests, astray, haunted, miscounted>>

(* The debounced _fitToViewport, which may outlive the page.               *)
ResizeFires ==
    /\ resizing
    /\ resizing' = FALSE
    /\ measuring' = IF busy THEN measuring ELSE Measuring(listing)
    /\ UNCHANGED <<postStore, present, url, queried, perPage, fitted, room, loaded, painted, keys,
                   muddled, selection, dialog, typed, requests, acts, astray, haunted, miscounted>>

-----------------------------------------------------------------------------
(* Changes from a row.                                                     *)

Live(p) == Free /\ painted.kind = "live" /\ p \in Has(painted.rows)
Trashed(p) == Free /\ painted.kind = "trash" /\ p \in Has(painted.rows)

(* Posts that a request under way is to change.                            *)
Changing(rs) ==
    UNION {{rs[c].post} \cup rs[c].left : c \in {d \in DOMAIN rs : rs[d].op # "list"}}

Touched(p) == p \in Changing(requests)

(* _updatePostStatus, from the select of the row.                          *)
ChangeStatus(p, s) ==
    /\ ListAct /\ Room /\ Live(p) /\ painted.rows[p] # s
    /\ painted' = [painted EXCEPT !.rows[p] = s]
    /\ requests' = Append(requests,
            [Call("status", p) EXCEPT !.want = s, !.was = listing[p], !.row = TRUE])
    /\ muddled' = IF Touched(p) THEN muddled \cup {p} ELSE muddled
    /\ UNCHANGED <<postStore, present, url, queried, fit, loaded, keys, measuring, selection,
                   dialog, typed, astray, haunted, miscounted>>

(* Publish in the drawer, restore: nothing on the screen changes yet.      *)
SendPost(op, p) ==
    /\ ListAct /\ Room
    /\ \/ op = "cycle" /\ Live(p)
       \/ op = "restore" /\ Trashed(p)
    /\ requests' = Append(requests,
            [Call(op, p) EXCEPT !.want = IF op = "cycle" THEN "published" ELSE "none"])
    /\ muddled' = IF Touched(p) THEN muddled \cup {p} ELSE muddled
    /\ UNCHANGED <<postStore, present, url, queried, fit, loaded, painted, keys, measuring,
                   selection, dialog, typed, astray, haunted, miscounted>>

(* _showConfirm: on the body, so that it outlives the page.                *)
AskPost(kind, p) ==
    /\ ListAct
    /\ \/ kind = "trash" /\ Live(p)
       \/ kind = "purge" /\ Trashed(p)
       \/ kind = "bulk" /\ p = 0 /\ Free /\ picking /\ statusFilter = "" /\ picked # {}
    /\ dialog' = [kind |-> kind, post |-> p,
                  count |-> IF kind = "bulk" THEN Cardinality(picked) ELSE 1,
                  cut |-> FALSE]
    /\ UNCHANGED <<postStore, present, url, queried, fit, loaded, painting, selection, typed,
                   requests, astray, haunted, miscounted>>

CancelDialog ==
    /\ dialog # NoDialog
    /\ dialog' = NoDialog
    /\ UNCHANGED <<postStore, present, url, queried, fit, loaded, painting, selection, typed,
                   requests, acts, astray, haunted, miscounted>>

(* The end of a bulk change: nothing is selected, and the list is loaded.  *)
BulkEnds(rs) ==
    /\ picking' = FALSE /\ picked' = {}
    /\ UNCHANGED <<queried, fit>>
    /\ LoadList(rs, State)

(* The first of a bulk change's posts; the others wait for its answer.     *)
Bulk(op, s) ==
    LET p == CHOOSE q \in picked : TRUE
    IN  [Call(op, p) EXCEPT !.left = picked \ {p}, !.want = s]

ConfirmDialog ==
    /\ Room /\ dialog # NoDialog
    /\ dialog' = NoDialog
    /\ miscounted' = \/ miscounted
                      \/ /\ dialog.kind = "bulk" /\ ~dialog.cut
                         /\ dialog.count # Cardinality(picked)
    /\ IF dialog.kind = "bulk" /\ picked = {}
       THEN BulkEnds(requests)
       ELSE /\ requests' = Append(requests,
                    IF dialog.kind = "bulk" THEN Bulk("bulk trash", "none")
                    ELSE Call(dialog.kind, dialog.post))
            /\ muddled' = muddled \cup
                   {p \in IF dialog.kind = "bulk" THEN picked ELSE {dialog.post} : Touched(p)}
            /\ UNCHANGED <<url, queried, fit, busy, painted, selection>>
    /\ UNCHANGED <<postStore, present, listing, pagination, keys, measuring, typed, acts, astray,
                   haunted>>

BulkApply(s) ==
    /\ ListAct /\ Room /\ Free /\ picking /\ statusFilter = "" /\ picked # {}
    /\ requests' = Append(requests, Bulk("bulk status", s))
    /\ muddled' = muddled \cup {p \in picked : Touched(p)}
    /\ UNCHANGED <<postStore, present, url, queried, fit, loaded, painted, keys, measuring,
                   selection, dialog, typed, astray, haunted, miscounted>>

-----------------------------------------------------------------------------
(* Selection.                                                              *)

Select(mode, ids) ==
    /\ picking' = mode /\ picked' = ids
    /\ UNCHANGED <<queried, loaded>>
    /\ Draw(requests)
    /\ UNCHANGED <<postStore, present, url, fit, dialog, typed, acts, astray, haunted, miscounted>>

ToggleMode == Free /\ statusFilter = "" /\ Select(~picking, {})

ToggledPost(p) == (picked \ {p}) \cup ({p} \ picked)

(* _toggleCardSelection: a swipe to the right, or a tap in select mode;    *)
(* and the long press that starts it.                                      *)
PickCard(p) == Live(p) /\ Select(ToggledPost(p) # {}, ToggledPost(p))

PickAll(checked) ==
    /\ Free /\ picking /\ statusFilter = ""
    /\ LET ids == IF checked THEN Has(listing) ELSE {} IN Select(ids # {}, ids)

(* _handleSelectRow: drawn anew only when the last one goes.               *)
PickRow(p) ==
    /\ Live(p) /\ picking
    /\ IF ToggledPost(p) = {} THEN Select(FALSE, {})
       ELSE /\ picked' = ToggledPost(p)
            /\ UNCHANGED <<postStore, present, url, queried, fit, loaded, painting, picking,
                           dialog, typed, requests, acts, astray, haunted, miscounted>>

-----------------------------------------------------------------------------
(* Answers.                                                                *)

Serve(c, fails) ==
    /\ c \in DOMAIN requests /\ requests[c].reply = "none"
    /\ LET r == requests[c]
           pages == ((Cardinality(Found(r.query)) + r.per - 1) \div r.per)
           Data == [r EXCEPT !.reply = "ok", !.pages = pages,
                             !.data = [p \in Post |-> IF p \in OnPage(r.query, r.per) THEN stored[p]
                                                      ELSE "none"]]
       IN  IF fails \/ Refused(r)
           THEN requests' = [requests EXCEPT ![c].reply = "failed"] /\ UNCHANGED postStore
           ELSE /\ Effect(r)
                /\ requests' =
                    IF r.op = "list" THEN [requests EXCEPT ![c] = Data]
                    ELSE [d \in DOMAIN requests |->
                            IF d = c THEN [r EXCEPT !.reply = "ok"]
                            ELSE IF requests[d].op = "list" /\ requests[d].reply = "ok"
                                 THEN [requests[d] EXCEPT !.stale = @ \cup {r.post}]
                                 ELSE requests[d]]
    /\ IF fails THEN ListAct ELSE UNCHANGED acts
    /\ UNCHANGED <<present, url, queried, fit, loaded, painting, selection, dialog, typed, astray,
                   haunted, miscounted>>

(* An answer on its way is lost: what was done, and is not known here.     *)
LoseAnswer(c) ==
    /\ ListAct
    /\ c \in DOMAIN requests /\ requests[c].reply = "ok"
    /\ requests' = [requests EXCEPT ![c].reply = "failed"]
    /\ muddled' = muddled \cup ({requests[c].post} \cap Post)
    /\ UNCHANGED <<postStore, present, url, queried, fit, loaded, painted, keys, measuring,
                   selection, dialog, typed, astray, haunted, miscounted>>

AnsweredAs(c, op) == c \in DOMAIN requests /\ requests[c].op \in op /\ requests[c].reply # "none"

(* The answer of _load; one that failed leaves the rows of an earlier one, *)
(* now drawn under the filters of today.                                   *)
ListAnswered(c) ==
    /\ AnsweredAs(c, {"list"})
    /\ LET r == requests[c]  rs == RemoveAt(requests, c)
       IN  /\ busy' = FALSE
           /\ UNCHANGED queried
           /\ IF r.reply = "ok"
              THEN /\ listing' = r.data
                   /\ pagination' = [query |-> r.query, pages |-> r.pages]
                   /\ astray' = ~r.last
              ELSE astray' = TRUE /\ UNCHANGED <<listing, pagination>>
           /\ IF present
              THEN /\ painted' = [kind |-> IF statusFilter = "trash" THEN "trash" ELSE "live",
                                rows |-> listing']
                   /\ requests' = Detached(rs)
                   /\ muddled' = Orphans(rs) \cup
                        IF r.reply = "ok" THEN r.stale \cup (muddled \cap Changing(rs)) ELSE muddled
                   /\ keys' = TRUE
                   /\ measuring' = Measuring(listing')
              ELSE requests' = rs /\ UNCHANGED painting
    /\ UNCHANGED <<postStore, present, url, fit, selection, dialog, typed, acts, haunted,
                   miscounted>>

(* Mutant: the select keeps what was refused.                              *)
StatusAnsweredBlindly(c) ==
    /\ AnsweredAs(c, {"status", "cycle"})
    /\ LET r == requests[c]  rs == RemoveAt(requests, c)
       IN  /\ listing' = IF r.reply = "ok" /\ listing[r.post] # "none"
                         THEN [listing EXCEPT ![r.post] = r.want] ELSE listing
           /\ UNCHANGED <<queried, busy, pagination>>
           /\ IF r.op = "cycle" THEN Draw(rs)
              ELSE requests' = rs /\ UNCHANGED painting
    /\ UNCHANGED <<postStore, present, url, fit, selection, dialog, typed, acts, astray, haunted,
                   miscounted>>

(* The answer of _updatePostStatus: the post of today's list gets it, and  *)
(* a refused select goes back; the drawer's draws the page anew.           *)
StatusAnswered(c) ==
    /\ AnsweredAs(c, {"status", "cycle"})
    /\ LET r == requests[c]  rs == RemoveAt(requests, c)
       IN  /\ listing' = IF r.reply = "ok" /\ listing[r.post] # "none"
                         THEN [listing EXCEPT ![r.post] = r.want] ELSE listing
           /\ UNCHANGED <<queried, busy, pagination>>
           /\ IF r.op = "cycle" THEN Draw(rs)
              ELSE /\ painted' = IF r.row /\ r.reply = "failed"
                               THEN [painted EXCEPT !.rows[r.post] = r.was] ELSE painted
                   /\ requests' = rs
                   /\ UNCHANGED <<keys, measuring, muddled>>
    /\ UNCHANGED <<postStore, present, url, fit, selection, dialog, typed, acts, astray, haunted,
                   miscounted>>

(* _deletePost, _restorePost, _permanentlyDeletePost load anew, wherever   *)
(* the reader is by then.                                                  *)
MoveAnswered(c) ==
    /\ AnsweredAs(c, {"trash", "restore", "purge"})
    /\ UNCHANGED <<queried, fit>>
    /\ IF requests[c].reply = "ok"
       THEN LoadList(RemoveAt(requests, c), State)
       ELSE requests' = RemoveAt(requests, c) /\ UNCHANGED <<url, busy, painted, muddled>>
    /\ UNCHANGED <<postStore, present, listing, pagination, keys, measuring, selection, dialog,
                   typed, acts, astray, haunted, miscounted>>

(* A bulk change goes on after a failure, and clears the selection of the  *)
(* moment when it ends.                                                    *)
BulkAnswered(c) ==
    /\ AnsweredAs(c, {"bulk status", "bulk trash"})
    /\ LET r == requests[c]
       IN  IF r.left # {}
           THEN /\ requests' = [requests EXCEPT ![c].post = CHOOSE p \in r.left : TRUE,
                                                ![c].left = @ \ {CHOOSE p \in r.left : TRUE},
                                                ![c].reply = "none"]
                /\ UNCHANGED <<url, queried, fit, busy, painted, muddled, selection, dialog>>
           ELSE /\ BulkEnds(RemoveAt(requests, c))
                /\ dialog' = IF dialog = NoDialog THEN dialog ELSE [dialog EXCEPT !.cut = TRUE]
    /\ UNCHANGED <<postStore, present, listing, pagination, keys, measuring, typed, acts, astray,
                   haunted, miscounted>>

(* _teardownPageControls.                                                  *)
TornDown == keys' = FALSE

(* beforeUnmount: the debounces go on, and so do the frames.               *)
LeaveList ==
    /\ ListAct /\ present
    /\ present' = FALSE
    /\ url' = NoQuery
    /\ TornDown
    /\ haunted' = (\/ dialog # NoDialog \/ typed # "none" \/ resizing \/ measuring # {}
                   \/ \E c \in DOMAIN requests : requests[c].op \notin {"list", "status", "cycle"})
    /\ UNCHANGED <<postStore, queried, fit, loaded, painted, measuring, muddled, selection, dialog,
                   typed, requests, astray, miscounted>>

ListNext ==
    \/ \E s \in {"", "trash"} : ChangeFilter(s)
    \/ \E text \in {"", "text"} : TypeWords(text)
    \/ ChangeTag \/ SearchFires \/ ResizeFires \/ CancelDialog \/ ConfirmDialog
    \/ ToggleMode \/ LeaveList
    \/ \E p \in Post : TurnTo(p) \/ MeasureRows(p) \/ Resize(p) \/ PickCard(p) \/ PickRow(p)
    \/ \E p, n \in Post : MeasureElsewhere(p, n)
    \/ \E p \in Post, s \in Status : ChangeStatus(p, s)
    \/ \E p \in Post, op \in {"cycle", "restore"} : SendPost(op, p)
    \/ \E p \in 0..Total, kind \in {"trash", "purge", "bulk"} : AskPost(kind, p)
    \/ \E s \in Status : BulkApply(s)
    \/ \E checked \in BOOLEAN : PickAll(checked)
    \/ \E c \in 1..Slots :
        \/ \E fails \in BOOLEAN : Serve(c, fails)
        \/ LoseAnswer(c)
        \/ ListAnswered(c) \/ StatusAnswered(c) \/ MoveAnswered(c) \/ BulkAnswered(c)

ListSpec == ListInit /\ [][ListNext]_listVars

(***************************************************************************)
(* Properties.                                                             *)
(***************************************************************************)
ListQuiet == present /\ requests = <<>> /\ ~astray

(* At rest the list is the one that the address asks for, unless an older  *)
(* load was answered last or the last one failed.                          *)
ShownIsAsked == ListQuiet => pagination.query = url /\ painted.kind # "loading"

(* A row offers to delete a post for good only if it was listed in the     *)
(* trash, with the same exceptions.                                        *)
ButtonsFit ==
    painted.kind # "loading" /\ ~astray =>
        (painted.kind = "trash" <=> pagination.query.filter = "trash")

(* Every row at rest shows what the server has, unless two changes of a    *)
(* post overlapped, its row was replaced during one, the list was read     *)
(* before one, or the answer to one was lost.                              *)
RowsAreTrue ==
    ListQuiet => \A p \in Has(painted.rows) \ muddled :
        /\ place[p] = (IF painted.kind = "trash" THEN "trash" ELSE "list")
        /\ painted.rows[p] = stored[p]

(* The page rewrites the address only while it is shown, unless it was     *)
(* left with a dialog, a search, a resize, a frame or a move under way.    *)
AddressIsItsOwn == ~present /\ ~haunted => url = NoQuery

(* As many posts are moved as the dialog said, unless another bulk change  *)
(* ended in between.                                                       *)
CountIsKept == ~miscounted

(* What the list of posts keeps: what it shows, offers and says is so.     *)
ListKept == ShownIsAsked /\ ButtonsFit /\ RowsAreTrue /\ AddressIsItsOwn /\ CountIsKept

=============================================================================
