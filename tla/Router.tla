------------------------------- MODULE Router -------------------------------
(***************************************************************************)
(* The client-side router (frontend/src/router.ts), the boot of the app    *)
(* around it (app.ts) and the page of the sign-in form, which it leaves    *)
(* for the rest of the app without loading a new document.                 *)
(*                                                                         *)
(* Router._render is a call with two awaits: the setup status (for admin   *)
(* paths and /setup) and the page's chunk.  Nothing numbers the calls, so  *)
(* a link clicked, a step back or a redirect during an await starts a      *)
(* second one.  A page owns the mount point while it lives: its fetch      *)
(* answers with setState, which writes its markup there.                   *)
(*                                                                         *)
(* Paths are members of a small set: two posts share the pattern           *)
(* /posts/:slug, tags is the path a plugin may or may not claim.           *)
(***************************************************************************)
EXTENDS Naturals, FiniteSets

CONSTANTS
    Slots,      \* bound: calls of _render at a time
    Pages,      \* bound: page instances alive at a time
    MaxHops,    \* bound: what the reader, the network and the session do
    Links       \* the paths that links, history and addresses lead to

VARIABLES
    doc,        \* the document: its bootstrap runs, or the router does
    location,   \* the path in the address bar
    cookie,     \* whether the server knows the session
    user,       \* the store's user
    installed,  \* whether the installation has an owner
    claimed,    \* whether a plugin claims /tags for this reader
    visits,     \* visits[c]: the path and the await of call c of _render
    pages,      \* pages[i]: a page instance: its path, and whether it fetches
    showing,    \* _currentPage
    screen,     \* the page whose markup the mount point holds, if any
    keydowns,   \* Escape listeners of sign-in forms that are gone
    dispatching, \* Escape listeners still to run
    signing,    \* whether a sign-in request is under way
    sent,       \* history: a sign-in was sent from this document
    hops,
    overtaken   \* history: two calls of _render were under way at once

env == <<cookie, installed, claimed>>
view == <<pages, showing, screen, keydowns>>
routerVars == <<doc, location, user, env, visits, view, dispatching, signing, sent, hops, overtaken>>

Free == [path |-> "", at |-> "none"]
Gone == [path |-> "", fetching |-> FALSE, forms |-> 0]
None == 0

(* The route table: who may see a page, and which pages refresh in place.  *)
Public == {"home", "post1", "post2", "tags", "login", "setup"}
Light == {"light", "posts", "login", "lost"}
Unknown == {"nowhere", "lost"}
Routed == (Public \cup Light) \ Unknown
Refreshes == {"home", "post1", "post2", "tags"}

ASSUME RouterAssumption ==
    /\ Slots \in Nat \ {0} /\ Pages \in Nat /\ MaxHops \in Nat
    /\ Links \subseteq Routed \cup Unknown

RouteOf(p) == IF p \in {"post1", "post2"} THEN "post" ELSE p

RouterTypeOK ==
    /\ doc \in {"boot", "ready"}
    /\ location \in Routed \cup Unknown
    /\ {cookie, user, installed, claimed} \subseteq BOOLEAN
    /\ visits \in [1..Slots -> {Free} \cup [path : Routed, at : {"status", "load"}]]
    /\ pages \in [1..Pages -> {Gone} \cup [path : Routed, fetching : BOOLEAN, forms : Nat]]
    /\ showing \in {None} \cup {i \in 1..Pages : pages[i] # Gone}
    /\ screen \in {None} \cup {i \in 1..Pages : pages[i] # Gone}
    /\ {keydowns, dispatching, hops} \subseteq Nat
    /\ {signing, sent, overtaken} \subseteq BOOLEAN

Alive == {i \in 1..Pages : pages[i] # Gone}
Idle == {c \in 1..Slots : visits[c] = Free}
Quiet == doc = "ready" /\ Idle = 1..Slots

RouterInit ==
    /\ doc = "boot"
    /\ location \in Links
    /\ cookie \in BOOLEAN
    /\ user = FALSE
    /\ installed \in BOOLEAN
    /\ cookie => installed
    /\ claimed \in BOOLEAN
    /\ visits = [c \in 1..Slots |-> Free]
    /\ pages = [i \in 1..Pages |-> Gone]
    /\ showing = None
    /\ screen = None
    /\ keydowns = 0
    /\ dispatching = 0
    /\ signing = FALSE
    /\ sent = FALSE
    /\ hops = 0
    /\ overtaken = FALSE

(***************************************************************************)
(* Pieces of a step.                                                       *)
(***************************************************************************)

(* location.assign: the document and all that runs in it are dropped.      *)
HardLoad(p) ==
    /\ doc' = "boot"
    /\ location' = p
    /\ user' = FALSE
    /\ visits' = [c \in 1..Slots |-> Free]
    /\ pages' = [i \in 1..Pages |-> Gone]
    /\ showing' = None
    /\ screen' = None
    /\ keydowns' = 0
    /\ signing' = FALSE
    /\ sent' = FALSE
    /\ overtaken' = FALSE

(* The call c goes on to, or ends in, v.                                   *)
Call(c, v) ==
    /\ visits' = [visits EXCEPT ![c] = v]
    /\ overtaken' = (overtaken \/ (visits[c] = Free /\ Idle # 1..Slots))

(* Listeners that unmounting a page leaves on the window: a sign-in form   *)
(* binds one at each render and releases the last.                         *)
Stray(i) == IF pages[i].forms = 0 THEN 0 ELSE pages[i].forms - 1

(* The current page, if there is one, is unmounted; unmounting clears the  *)
(* mount point, whoever wrote it.  A call that has awaited leaves alone a  *)
(* page that became the current one meanwhile.                             *)
(* Mutant: the page is dropped without being unmounted.                    *)
DropOnly ==
    /\ showing' = None
    /\ UNCHANGED <<pages, keydowns>>

Drop ==
    /\ showing' = None
    /\ pages' = IF showing = None THEN pages ELSE [pages EXCEPT ![showing] = Gone]
    /\ keydowns' = keydowns + (IF showing = None THEN 0 ELSE Stray(showing))

(* Mutant: unmounting leaves the mount point as it is.                     *)
LeaveNodes == Drop /\ UNCHANGED screen

Leave == Drop /\ screen' = IF showing = None THEN screen ELSE None

(* The error page: the page that is there is unmounted, and plain nodes    *)
(* replace whatever the mount point held.                                  *)
Fallback(c) ==
    /\ Call(c, Free)
    /\ Drop
    /\ screen' = None

(* A page whose pattern matches refreshes in place, if its class can.       *)
Reused(p) ==
    /\ showing # None
    /\ RouteOf(pages[showing].path) = RouteOf(p)
    /\ p \in Refreshes

(* The auth guard: the sign-in page is a document of its own.               *)
Barred(p) == p \notin Public /\ ~user

(* _render behind its guards: reuse the page, or leave it for a new one.   *)
Resolve(c, p) ==
    \/ /\ Reused(p)
       /\ pages' = [pages EXCEPT ![showing].path = p, ![showing].fetching = TRUE]
       /\ Call(c, Free)
       /\ UNCHANGED <<showing, screen, keydowns>>
    \/ /\ ~Reused(p)
       /\ Leave
       /\ Call(c, [path |-> p, at |-> "load"])

(* _render(p) from its start, in call c.  An unknown admin path is         *)
(* replaced by /light at once.                                             *)
Enter(c, p) ==
    /\ location' = IF p = "lost" THEN "light" ELSE p
    /\ \/ /\ p \in Light \cup {"setup"}
          /\ Call(c, [path |-> location', at |-> "status"])
          /\ UNCHANGED view
       \/ p = "nowhere" /\ Fallback(c)
       \/ p \in Refreshes /\ Resolve(c, p)

Ready == doc = "ready" /\ dispatching = 0

(* A call takes the lowest free slot.                                      *)
Slot(c) == c \in Idle /\ \A d \in Idle : c <= d

Hop == hops < MaxHops /\ hops' = hops + 1

(***************************************************************************)
(* Steps.                                                                  *)
(***************************************************************************)

(* bootstrap: the settings, then getMe, which an outage turns into a       *)
(* guest, then router.init renders the address.                            *)
Bootstrap ==
    /\ doc = "boot"
    /\ doc' = "ready"
    /\ user' \in {FALSE, cookie}
    /\ Enter(1, location)
    /\ UNCHANGED <<env, hops, dispatching, signing, sent>>

(* A link, or history's back and forward.  Links to the sign-in page load  *)
(* a document.                                                             *)
Navigate(c, p) ==
    /\ Ready /\ Slot(c) /\ Hop
    /\ p # "login"
    /\ Enter(c, p)
    /\ UNCHANGED <<doc, user, env, dispatching, signing, sent>>

(* Router.refresh, for the revelio switch: the page goes first.            *)
Refresh(c) ==
    /\ Ready /\ Slot(c) /\ Hop
    /\ showing # None
    /\ pages[showing].path \in Refreshes
    /\ location \in Refreshes
    /\ Leave
    /\ Call(c, [path |-> location, at |-> "load"])
    /\ UNCHANGED <<doc, location, user, env, dispatching, signing, sent>>

(* The setup status arrives, or does not: then the call goes on.           *)
Redirect(p) == IF installed THEN (IF p = "setup" THEN "light" ELSE p)
               ELSE "setup"

StatusAnswered(c, fails) ==
    LET p == visits[c].path
        q == IF fails THEN p ELSE Redirect(p)
    IN /\ Ready
       /\ visits[c].at = "status"
       /\ IF q # p THEN Enter(c, q) /\ UNCHANGED <<doc, user, hops, signing, sent>>
          ELSE IF Barred(p) THEN HardLoad("login") /\ UNCHANGED hops
          ELSE Resolve(c, p) /\ UNCHANGED <<doc, location, user, hops, signing, sent>>
       /\ UNCHANGED <<env, dispatching>>

(* The chunk is there: the page is made, becomes the current one and is    *)
(* mounted, whatever became the current one meanwhile.  Two pages bounce   *)
(* from afterRender: RedirectHome when nobody claims /tags, and the        *)
(* sign-in form when the user is known.                                    *)
NewPage(p) == [path |-> p, fetching |-> p # "login", forms |-> IF p = "login" THEN 1 ELSE 0]

MountPage(c, i) ==
    LET p == visits[c].path IN
    /\ Ready
    /\ visits[c].at = "load"
    /\ i \notin Alive /\ \A j \in (1..Pages) \ Alive : i <= j
    /\ IF p = "tags" /\ ~claimed
       THEN /\ location' = "home"
            /\ showing' = None
            /\ screen' = None
            /\ UNCHANGED <<pages, keydowns>>
            /\ Call(c, [path |-> "home", at |-> "load"])
       ELSE /\ pages' = [pages EXCEPT ![i] = NewPage(p)]
            /\ showing' = i
            /\ screen' = i
            /\ keydowns' = keydowns
            /\ IF p = "login" /\ user
               THEN /\ location' = "light"
                    /\ Call(c, [path |-> "light", at |-> "status"])
               ELSE UNCHANGED location /\ Call(c, Free)
    /\ UNCHANGED <<doc, user, env, hops, dispatching, signing, sent>>

(* The chunk does not load: /light, or the error page.                     *)
LoadFails(c) ==
    LET p == visits[c].path IN
    /\ Ready /\ Hop
    /\ visits[c].at = "load"
    /\ IF p \in Light \ {"light"} THEN Enter(c, "light")
       ELSE Fallback(c) /\ UNCHANGED location
    /\ UNCHANGED <<doc, user, env, dispatching, signing, sent>>

(* A page's fetch is answered: setState writes the mount point.            *)
PageAnswered(i) ==
    /\ Ready
    /\ pages[i].fetching
    /\ pages' = [pages EXCEPT ![i].fetching = FALSE]
    /\ screen' = i
    /\ UNCHANGED <<doc, location, user, env, visits, showing, keydowns, hops,
                   overtaken, dispatching, signing, sent>>

(* The server has dropped the session: a page that asks for what a guest   *)
(* may not have sends the reader to the sign-in page.                      *)
SessionEnds ==
    /\ Ready /\ Hop
    /\ cookie /\ user
    /\ cookie' = FALSE
    /\ UNCHANGED <<doc, location, user, installed, claimed, visits, view, overtaken,
                   dispatching, signing, sent>>

Unauthorized(i) ==
    /\ Ready
    /\ pages[i].fetching
    /\ pages[i].path \notin Public
    /\ ~cookie
    /\ location # "login"
    /\ HardLoad("login")
    /\ UNCHANGED <<env, dispatching, hops>>

SignOut ==
    /\ Ready /\ Hop
    /\ user
    /\ showing # None
    /\ HardLoad("home")
    /\ cookie' = FALSE
    /\ UNCHANGED <<installed, claimed, dispatching>>

(* The wizard loads a new document.                                        *)
SetUp ==
    /\ Ready /\ Hop
    /\ showing # None /\ pages[showing].path = "setup"
    /\ ~installed
    /\ installed' = TRUE
    /\ cookie' \in BOOLEAN
    /\ HardLoad("light")
    /\ UNCHANGED <<claimed, dispatching>>

(* The sign-in form: sending renders it again, and so does a refusal.  An  *)
(* accepted sign-in goes on in the same document, even if the form is gone.*)
Submit(i) ==
    /\ Ready /\ Hop
    /\ i = showing /\ pages[i].path = "login"
    /\ ~signing
    /\ signing' = TRUE
    /\ sent' = TRUE
    /\ pages' = [pages EXCEPT ![i].forms = @ + 1]
    /\ screen' = i
    /\ UNCHANGED <<doc, location, user, env, visits, showing, keydowns, overtaken,
                   dispatching>>

Refused ==
    /\ Ready
    /\ signing
    /\ signing' = FALSE
    /\ \E i \in Alive \cup {None} :
          /\ IF \E j \in Alive : pages[j].path = "login"
             THEN i # None /\ pages[i].path = "login"
             ELSE i = None
          /\ pages' = IF i = None THEN pages ELSE [pages EXCEPT ![i].forms = @ + 1]
          /\ screen' = IF i = None THEN screen ELSE i
    /\ UNCHANGED <<doc, location, user, env, visits, showing, keydowns, hops,
                   overtaken, dispatching, sent>>

Accepted(c) ==
    /\ Ready /\ Slot(c)
    /\ signing /\ installed
    /\ signing' = FALSE
    /\ cookie' = TRUE
    /\ user' = TRUE
    /\ Enter(c, "light")
    /\ UNCHANGED <<doc, installed, claimed, hops, dispatching, sent>>

(* Escape: every listener on the window runs in turn and goes home; the    *)
(* form's own last one is released by the first that leaves the form.      *)
Listening ==
    LET n == IF showing = None THEN 0 ELSE pages[showing].forms
    IN IF n = 0 THEN keydowns ELSE IF keydowns + n = 1 THEN 1 ELSE keydowns + n - 1

Escape(c) ==
    /\ Ready /\ Slot(c) /\ Hop
    /\ Listening \in 1..Cardinality(Idle)
    /\ dispatching' = Listening - 1
    /\ Enter(c, "home")
    /\ UNCHANGED <<doc, user, env, signing, sent>>

EscapeGoesOn(c) ==
    /\ dispatching > 0 /\ Slot(c)
    /\ dispatching' = dispatching - 1
    /\ Enter(c, "home")
    /\ UNCHANGED <<doc, user, env, hops, signing, sent>>

RouterNext ==
    \/ Bootstrap
    \/ SessionEnds \/ SignOut \/ SetUp \/ Refused
    \/ \E c \in 1..Slots :
        \/ \E p \in Links : Navigate(c, p)
        \/ Refresh(c)
        \/ \E fails \in BOOLEAN : StatusAnswered(c, fails)
        \/ \E i \in 1..Pages : MountPage(c, i)
        \/ LoadFails(c) \/ Accepted(c) \/ Escape(c) \/ EscapeGoesOn(c)
    \/ \E i \in 1..Pages : PageAnswered(i) \/ Unauthorized(i) \/ Submit(i)

RouterSpec == RouterInit /\ [][RouterNext]_routerVars

(* The event loop runs on; the server and the network answer.              *)
RouterProgress ==
    \/ Bootstrap
    \/ \E c \in 1..Slots :
        \/ StatusAnswered(c, FALSE) \/ EscapeGoesOn(c)
        \/ \E i \in 1..Pages : MountPage(c, i)

(***************************************************************************)
(* Properties.                                                             *)
(***************************************************************************)

(* While no call of _render overtakes another, the router knows every page *)
(* that lives, and once it rests the reader sees the page of the address,  *)
(* or a fallback, and nothing but that page writes to the mount point.     *)
ShownIsAddressed ==
    ~overtaken =>
        /\ Alive \subseteq {showing}
        /\ screen \in Alive => screen = showing
        /\ Quiet /\ showing # None => pages[showing].path = location /\ screen = showing

(* A sign-in form that was never sent leaves no Escape listener behind: on *)
(* other pages Escape goes home only in a document that signed in.         *)
EscapeIsReleased == ~sent => keydowns = 0

(* What is promised of the router and of the form.                         *)
RouterKept == ShownIsAddressed /\ EscapeIsReleased

(* What every behaviour comes back to, however the guards send it on: no   *)
(* call of _render is under way.                                           *)
RouterSettled == \A c \in 1..Slots : visits[c] = Free

=============================================================================
