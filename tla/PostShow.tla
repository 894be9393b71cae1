------------------------------ MODULE PostShow ------------------------------
(***************************************************************************)
(* From post to post: pages/public/PostPage.ts, which loads posts in place,*)
(* components/public/PostContent.ts, which shows one as an article or in a *)
(* viewer, the viewer's crossing into the next post (SlideViewer has what  *)
(* it does before), and plugins/slideshow, which crosses by itself and     *)
(* keeps its state beside all of them: in the module and on the body.      *)
(*                                                                         *)
(* Post p comes before p + 1, forward.  A post has one slide here, or a    *)
(* last one; the show steps when it is there.  Plugins are loaded.  A page *)
(* that is torn down in a promise's callback is torn down at once: the     *)
(* callbacks of the old viewer are queued before those of the new one.     *)
(* Left out: what head and foot of the page say, the chrome that fades,    *)
(* order and interval of a show.                                           *)
(***************************************************************************)
EXTENDS Integers, Sequences, SequencesExt, FiniteSets

CONSTANTS
    Posts,   \* number of posts
    MaxActs  \* bound: commands of the visitor, and requests that fail

VARIABLES
    immersive, \* posts that are shown in a viewer by themselves
    addr,      \* the post in the address, or 0 on the feed
    hash,      \* the address names a slide
    past,      \* history entries below
    pushed,    \* _immersivePushed
    screen,    \* what PostPage has rendered
    waiting,   \* state.loading
    held,      \* state.post, or 0
    forced,    \* state.forceImmersive
    child,     \* _contentChild is set
    content,   \* what is in #content-mount
    arrivals,  \* loads under way
    slow,      \* _spinnerTimer
    fades,     \* crossings that fade out
    closes,    \* closings that look up the feed's page
    unwinding, \* history.back() is on its way
    marker,    \* the post was opened from the map
    heir,      \* _suppressNextFadeIn
    laid,      \* #seamless-ghost on the body
    sweeps,    \* timers that remove one
    running, crossing, \* of the slideshow
    ticking,   \* its timer or video will step
    paused,    \* _paused
    hidden,    \* the tab is
    loop,
    showActs,
    (* history *)
    meant,     \* the post that the last command leads to, or 0
    odd        \* what happened across what did not expect it

showVars == <<immersive, addr, hash, past, pushed, screen, waiting, held, forced, child, content,
              arrivals, slow, fades, closes, unwinding, marker, heir, laid, sweeps, running,
              crossing, ticking, paused, hidden, loop, showActs, meant, odd>>
pageVars == <<addr, hash, past, pushed, screen, waiting, held, forced, child, arrivals, slow,
              marker>>
viewVars == <<content, heir, laid, running, crossing, ticking, paused>>

Post == 1..Posts
Nothing == [kind |-> "nothing", post |-> 0, picture |-> 0]
Place == [post : 0..Posts, hash : BOOLEAN]

TypeOK ==
    /\ immersive \subseteq Post /\ addr \in 0..Posts /\ meant \in 0..Posts /\ held \in 0..Posts
    /\ {hash, pushed, waiting, forced, child, slow, unwinding, marker, heir, running, crossing,
        ticking, paused, hidden, loop} \subseteq BOOLEAN
    /\ past \in Seq(Place)
    /\ screen \in {"none", "loading", "ready", "error"}
    /\ content \in [kind : {"nothing", "viewer", "article", "spinner", "failed"},
                    post : 0..Posts, picture : 0..Posts]
    /\ arrivals \in Seq([post : Post, fresh : BOOLEAN, inPlace : BOOLEAN])
    /\ fades \in Seq(Place) /\ closes \in 0..MaxActs /\ laid \in Seq(Post) /\ sweeps \in 0..MaxActs
    /\ showActs \in 0..MaxActs
    /\ odd \subseteq {"overtaken", "turned", "rerendered", "skipped", "unseen", "failed", "ended",
                      "left"}

(* A link to a post, from elsewhere, or from the map.                      *)
Init ==
    /\ immersive \in {{1}, {1, 2}, {1, 3}, {1, 2, 3}}
    /\ addr = 1 /\ hash = FALSE /\ past = <<[post |-> 0, hash |-> FALSE]>> /\ pushed = FALSE
    /\ screen = "loading" /\ waiting = TRUE /\ held = 0 /\ forced = FALSE
    /\ child = FALSE /\ content = Nothing
    /\ arrivals = <<[post |-> 1, fresh |-> TRUE, inPlace |-> FALSE]>> /\ slow = FALSE
    /\ fades = <<>> /\ closes = 0 /\ unwinding = FALSE /\ marker \in BOOLEAN
    /\ heir = FALSE /\ laid = <<>> /\ sweeps = 0
    /\ running = FALSE /\ crossing = FALSE /\ ticking = FALSE /\ paused = FALSE
    /\ hidden = FALSE /\ loop \in BOOLEAN
    /\ showActs = 0 /\ meant = 1 /\ odd = {}

Viewing == content.kind = "viewer"
Viewer(p, force) == p \in immersive \/ force
Beside(p, dir) == IF dir = "fwd" THEN p + 1 ELSE p - 1

-----------------------------------------------------------------------------
(* What is shown.                                                          *)

(* Mutant: a show goes on after a viewer that was closed.                  *)
StoppedNever == running' = running /\ crossing' = FALSE

(* Slideshow.unmount: only its own crossing keeps the show alive.          *)
Stopped ==
    /\ running' = (running /\ (Viewing => crossing))
    /\ crossing' = FALSE

(* What was there is unmounted, and the viewer's show with it.             *)
Clear(kind) ==
    /\ content' = [Nothing EXCEPT !.kind = kind]
    /\ Stopped /\ ticking' = FALSE /\ paused' = FALSE
    /\ UNCHANGED <<heir, laid>>

(* A viewer takes over the ghost that was left for it, and a show that is  *)
(* running resumes in it.                                                  *)
Mount(p, viewer) ==
    /\ Stopped /\ ticking' = (viewer /\ running') /\ paused' = FALSE
    /\ content' = [kind |-> IF viewer THEN "viewer" ELSE "article", post |-> p,
                   picture |-> IF viewer /\ heir /\ laid # <<>> THEN Head(laid) ELSE p]
    /\ heir' = (heir /\ ~viewer)
    /\ laid' = IF viewer /\ heir /\ laid # <<>> THEN Tail(laid) ELSE laid

Kept == UNCHANGED viewVars

-----------------------------------------------------------------------------
(* Ways.                                                                   *)
Stale == [k \in DOMAIN arrivals |-> [arrivals[k] EXCEPT !.fresh = FALSE]]

(* _load, with a new version.                                              *)
Ask(p, inPlace) ==
    arrivals' = Append(Stale, [post |-> p, fresh |-> TRUE, inPlace |-> inPlace])

(* onRouteUpdate: the post that is shown stays on while another one loads. *)
Update(p) ==
    /\ pushed' = FALSE /\ waiting' = TRUE /\ held' = 0
    /\ Ask(p, screen = "ready" /\ child)
    /\ slow' = (screen = "ready" /\ child)
    /\ UNCHANGED <<screen, forced, child, marker>>

(* The router has a place rendered: by the page that is mounted, by a new  *)
(* one, or by the feed's, in whose place PostPage is unmounted.            *)
Render(p) ==
    IF p = 0
    THEN /\ pushed' = FALSE /\ waiting' = FALSE /\ held' = 0 /\ screen' = "none"
         /\ forced' = FALSE /\ child' = FALSE /\ arrivals' = Stale /\ slow' = FALSE
         /\ marker' = FALSE
    ELSE IF addr = 0
    THEN /\ waiting' = TRUE /\ held' = 0 /\ screen' = "loading" /\ Ask(p, FALSE)
         /\ UNCHANGED <<pushed, forced, child, slow, marker>>
    ELSE Update(p)

Here == [post |-> addr, hash |-> hash]

Push(p, h) ==
    /\ Render(p)
    /\ addr' = p /\ hash' = h /\ past' = Append(past, Here)

(* The feed drops what is shown: a post shown later finds a fresh page.    *)
Shown(p) == IF p = 0 THEN Clear("nothing") ELSE Kept

(* The show is between two viewers when another way is taken.              *)
Between == running /\ (crossing \/ ~Viewing)
Left == IF Between THEN {"left"} ELSE {}

(* Another way was open when this one was taken.                           *)
Cut ==
    /\ odd' = odd \cup Left
          \cup (IF fades # <<>> \/ closes > 0 \/ unwinding THEN {"overtaken"} ELSE {})
          \cup (IF heir THEN {"turned"} ELSE {})

-----------------------------------------------------------------------------
(* PostPage's loads.                                                       *)

(* Mutant: an answer is taken for the one that is waited for.              *)
WaitedForAlways(l) == addr # 0

(* An answer of an older version is dropped.                               *)
WaitedFor(l) == l.fresh

(* _skipNonImmersiveDuringShow.                                            *)
Skips(p, force) == ~Viewer(p, force) /\ running /\ p + 1 \in Post

(* A full render by setState: its children are unmounted first, but the    *)
(* show of an old viewer is still running when afterRender looks.          *)
Rendered(p, wait, force) ==
    IF wait THEN screen' = "loading" /\ Clear("nothing") /\ UNCHANGED child
    ELSE /\ screen' = "ready"
         /\ Mount(p, Viewer(p, force)) /\ child' = TRUE

(* The show is on its way to the next post by itself.                      *)
Travels == crossing \/ content.kind = "spinner"

(* It skips from within: the next post is asked for, and nothing is        *)
(* mounted where the old content was.                                      *)
SkippedTo(p) ==
    /\ addr' = p /\ hash' = FALSE /\ past' = Append(past, Here)
    /\ pushed' = FALSE

(* _applyPostUpdate, or setState where nothing was there to be replaced.   *)
Arrived ==
    /\ arrivals # <<>>
    /\ \E k \in DOMAIN arrivals :
        LET l == arrivals[k]
            rest == RemoveAt(arrivals, k)
            onwards == Skips(l.post, hash)
            there == child /\ (l.inPlace => screen = "ready")
        IN  IF ~WaitedFor(l)
            THEN arrivals' = rest /\ Kept
                 /\ UNCHANGED <<addr, hash, past, pushed, screen, waiting, held, forced, child,
                                slow, meant, odd>>
            ELSE
            /\ forced' = hash
            /\ IF onwards
               THEN /\ SkippedTo(l.post + 1) /\ waiting' = TRUE /\ held' = 0
                    /\ arrivals' = Append(rest,
                           [post |-> l.post + 1, fresh |-> TRUE, inPlace |-> there])
                    /\ slow' = there
                    /\ meant' = IF Travels THEN l.post + 1 ELSE meant
                    /\ odd' = odd \cup (IF Travels THEN {} ELSE {"skipped"})
                                  \cup (IF heir THEN {"turned"} ELSE {})
                    /\ IF l.inPlace THEN Kept /\ UNCHANGED screen
                       ELSE screen' = "ready" /\ Clear("nothing")
                    /\ UNCHANGED child
               ELSE /\ waiting' = FALSE /\ held' = l.post /\ arrivals' = rest
                    /\ slow' = FALSE
                    /\ odd' = odd \cup (IF running /\ ~Viewer(l.post, hash) THEN {"ended"} ELSE {})
                    /\ UNCHANGED <<addr, hash, past, pushed, meant>>
                    /\ IF l.inPlace /\ screen # "ready"
                       THEN Clear("nothing") /\ child' = FALSE /\ UNCHANGED screen
                       ELSE Rendered(l.post, FALSE, hash)
    /\ UNCHANGED <<immersive, fades, closes, unwinding, marker, sweeps, hidden, loop, showActs>>

LoadFails ==
    /\ arrivals # <<>> /\ showActs < MaxActs /\ showActs' = showActs + 1
    /\ \E k \in DOMAIN arrivals :
        LET l == arrivals[k]
        IN  /\ arrivals' = RemoveAt(arrivals, k)
            /\ WaitedFor(l)
            /\ odd' = odd \cup (IF running THEN {"failed"} ELSE {})
            /\ IF l.inPlace
               THEN /\ slow' = FALSE /\ UNCHANGED <<screen, waiting>>
                    /\ IF screen = "ready" THEN Clear("failed") /\ child' = FALSE
                       ELSE Kept /\ UNCHANGED child
               ELSE /\ screen' = "error" /\ waiting' = FALSE /\ Clear("nothing")
                    /\ UNCHANGED <<slow, child>>
    /\ UNCHANGED <<immersive, addr, hash, past, pushed, held, forced, fades, closes, unwinding,
                   marker, sweeps, hidden, loop, meant>>

(* _showContentSpinner, 180 ms after the load began.                       *)
Spin ==
    /\ slow /\ slow' = FALSE
    /\ IF screen = "ready" THEN Clear("spinner") /\ child' = FALSE
       ELSE Kept /\ UNCHANGED child
    /\ UNCHANGED <<immersive, addr, hash, past, pushed, screen, waiting, held, forced, arrivals,
                   fades, closes, unwinding, marker, sweeps, hidden, loop, showActs, meant, odd>>

-----------------------------------------------------------------------------
(* Crossing.                                                               *)
Command == ~hidden /\ showActs < MaxActs /\ showActs' = showActs + 1
Unmoved == UNCHANGED <<immersive, closes, unwinding, hidden, loop>>

(* Backwards, the post's last picture may have a number.                   *)
Landing(dir) == IF dir = "back" THEN BOOLEAN ELSE {FALSE}

(* A step off the end by a key or a panel: 300 ms of fading out.  The show *)
(* starts its interval anew.                                               *)
Step(dir) ==
    /\ Command /\ Viewing /\ Beside(content.post, dir) \in Post
    /\ \E h \in Landing(dir) :
           fades' = Append(fades, [post |-> Beside(content.post, dir), hash |-> h])
    /\ meant' = Beside(content.post, dir)
    /\ ticking' = running
    /\ Cut
    /\ Unmoved
    /\ UNCHANGED <<pageVars, content, heir, laid, sweeps, running, crossing, paused>>

(* A swipe, whose ghost is laid on the body for the next viewer.           *)
Swipe(dir) ==
    /\ Command /\ Viewing /\ Beside(content.post, dir) \in Post
    /\ \E h \in Landing(dir) : Push(Beside(content.post, dir), h)
    /\ meant' = Beside(content.post, dir)
    /\ heir' = TRUE /\ laid' = Append(laid, Beside(content.post, dir)) /\ sweeps' = sweeps + 1
    /\ ticking' = running
    /\ Cut
    /\ Unmoved /\ UNCHANGED <<fades, content, running, crossing, paused>>

(* The timer of a crossing runs off, whatever became of its viewer.        *)
Faded ==
    /\ fades # <<>> /\ fades' = Tail(fades)
    /\ Push(Head(fades).post, Head(fades).hash)
    /\ Kept
    /\ odd' = odd \cup (IF heir THEN {"turned"} ELSE {})
    /\ Unmoved /\ UNCHANGED <<sweeps, showActs, meant>>

(* Two seconds after it was laid there.                                    *)
Sweep ==
    /\ sweeps > 0 /\ sweeps' = sweeps - 1
    /\ laid' = IF laid = <<>> THEN laid ELSE Tail(laid)
    /\ UNCHANGED <<immersive, pageVars, content, heir, running, crossing, ticking, paused, fades,
                   closes, unwinding, hidden, loop, showActs, meant, odd>>

-----------------------------------------------------------------------------
(* Into the viewer and out of it.                                          *)

(* enterImmersive: a picture of an article, or the button in the header.   *)
Enter ==
    /\ Command /\ content.kind = "article"
    /\ past' = Append(past, Here) /\ hash' = TRUE /\ pushed' = TRUE /\ forced' = TRUE
    /\ Rendered(held, waiting, TRUE)
    /\ odd' = odd \cup (IF waiting THEN {"rerendered"} ELSE {})
    /\ UNCHANGED <<addr, waiting, held, arrivals, slow, marker, fades, sweeps, meant>>
    /\ Unmoved

(* onClose of a post that is forced into the viewer: exitImmersive.        *)
Exit ==
    /\ Command /\ Viewing /\ content.post \notin immersive
    /\ pushed' = FALSE /\ unwinding' = (unwinding \/ pushed)
    /\ IF pushed
       THEN Kept /\ UNCHANGED <<hash, forced, screen, child, waiting, held, arrivals, addr, past, slow>>
            /\ odd' = odd
       ELSE /\ hash' = FALSE /\ forced' = FALSE
            /\ odd' = odd \cup (IF waiting THEN {"rerendered"} ELSE {})
                          \cup (IF ~waiting /\ Skips(held, FALSE) THEN {"skipped"} ELSE {})
            /\ IF ~waiting /\ Skips(held, FALSE)
               THEN /\ addr' = held + 1 /\ past' = Append(past, [Here EXCEPT !.hash = FALSE])
                    /\ screen' = "ready" /\ Clear("nothing") /\ UNCHANGED child
                    /\ waiting' = TRUE /\ held' = 0 /\ Ask(held + 1, child)
                    /\ slow' = (slow \/ child)
               ELSE /\ Rendered(held, waiting, FALSE)
                    /\ UNCHANGED <<addr, past, waiting, held, arrivals, slow>>
    /\ meant' = content.post
    /\ UNCHANGED <<immersive, marker, fades, closes, sweeps, hidden, loop>>

(* onClose of the others: back to the map, or to the page of the feed,     *)
(* which is looked up first.                                               *)
Close ==
    /\ Command /\ Viewing /\ content.post \in immersive
    /\ meant' = 0
    /\ Cut
    /\ IF marker THEN Push(0, FALSE) /\ Shown(0) /\ UNCHANGED closes
       ELSE closes' = closes + 1 /\ Kept /\ UNCHANGED pageVars
    /\ UNCHANGED <<immersive, fades, unwinding, sweeps, hidden, loop>>

(* The answer leads to the feed, wherever the visitor is by now.           *)
Closed ==
    /\ closes > 0 /\ closes' = closes - 1
    /\ Push(0, FALSE) /\ Shown(0)
    /\ odd' = odd \cup Left
    /\ UNCHANGED <<immersive, fades, unwinding, sweeps, hidden, loop, showActs, meant>>

(* popstate: history.back() of an exit, or the visitor's.                  *)
Pop ==
    /\ past # <<>> /\ past' = Front(past)
    /\ addr' = Last(past).post /\ hash' = Last(past).hash
    /\ Render(Last(past).post) /\ Shown(Last(past).post)

Unwound ==
    /\ unwinding /\ unwinding' = FALSE
    /\ Pop
    /\ odd' = odd \cup Left
    /\ UNCHANGED <<immersive, fades, closes, sweeps, hidden, loop, showActs, meant>>

Back ==
    /\ Command /\ Pop /\ meant' = addr' /\ Cut
    /\ UNCHANGED <<immersive, fades, closes, unwinding, sweeps, hidden, loop>>

(* A link: from the feed to a post, or from a post to another one.         *)
Follow ==
    /\ Command
    /\ \E p \in Post \ {addr} : Push(p, FALSE) /\ Shown(p) /\ meant' = p
    /\ Cut
    /\ UNCHANGED <<immersive, fades, closes, unwinding, sweeps, hidden, loop>>

-----------------------------------------------------------------------------
(* The slideshow.                                                          *)
Shows == UNCHANGED <<immersive, pageVars, content, heir, laid, closes, unwinding, sweeps, loop>>

Toggle ==
    /\ Command /\ Viewing
    /\ running' = ~running /\ ticking' = ~running /\ crossing' = (crossing /\ ~running)
    /\ Shows /\ UNCHANGED <<fades, paused, hidden, meant, odd>>

(* _advance on the last slide.  A crossing that is under way ends before   *)
(* the interval does.                                                      *)
Tick ==
    /\ ticking /\ running /\ Viewing /\ fades = <<>> /\ ~slow /\ ~waiting
    /\ IF content.post + 1 \in Post
       THEN /\ crossing' = TRUE /\ ticking' = FALSE /\ UNCHANGED running
            /\ fades' = Append(fades, [post |-> content.post + 1, hash |-> FALSE])
            /\ meant' = content.post + 1
            /\ odd' = odd \cup (IF closes > 0 \/ unwinding THEN {"overtaken"} ELSE {})
       ELSE /\ crossing' = FALSE /\ ticking' = loop /\ running' = loop
            /\ UNCHANGED <<fades, meant, odd>>
    /\ Shows /\ UNCHANGED <<paused, hidden, showActs>>

(* _visibility, which hears of it while a show is on.                      *)
Hide ==
    /\ showActs < MaxActs /\ showActs' = showActs + 1
    /\ hidden' = ~hidden
    /\ IF running /\ Viewing
       THEN IF hidden THEN ticking' = (ticking \/ paused) /\ paused' = FALSE
            ELSE ticking' = FALSE /\ paused' = TRUE
       ELSE UNCHANGED <<ticking, paused>>
    /\ odd' = odd \cup (IF Between /\ ~hidden THEN {"unseen"} ELSE {})
    /\ Shows /\ UNCHANGED <<fades, running, crossing, meant>>

Next ==
    \/ Arrived \/ LoadFails \/ Spin
    \/ \E dir \in {"back", "fwd"} : Step(dir) \/ Swipe(dir)
    \/ Faded \/ Sweep
    \/ Enter \/ Exit \/ Close \/ Closed \/ Unwound \/ Back \/ Follow
    \/ Toggle \/ Tick \/ Hide

(***************************************************************************)
(* Properties.                                                             *)
(***************************************************************************)
Quiet == arrivals = <<>> /\ fades = <<>> /\ closes = 0 /\ ~unwinding
OnPost == addr # 0

(* When nothing is under way, the page shows the post of the address, in a *)
(* viewer or as an article as it and the address say; or an error.         *)
ShownIsNamed ==
    Quiet /\ OnPost /\ "rerendered" \notin odd =>
        \/ screen = "error" \/ content.kind = "failed"
        \/ /\ screen = "ready" /\ content.post = addr
           /\ content.kind = (IF Viewer(addr, hash) THEN "viewer" ELSE "article")

(* The picture in the viewer is the post's: a ghost was left for it only.  *)
PictureIsThePosts == Viewing => content.picture = content.post \/ "turned" \in odd

(* The page is where the last command led.                                 *)
AddressIsMeant ==
    Quiet =>
        \/ addr = meant
        \/ odd \cap {"overtaken", "skipped", "failed", "ended", "left", "rerendered"} # {}

(* A show runs in a viewer or on its way to the next one.                  *)
ShowHasViewer ==
    running => Viewing \/ ~Quiet \/ odd \cap {"failed", "ended", "left"} # {}

(* A show does not step in a tab that is hidden.                           *)
HiddenIsStill == hidden => ~ticking \/ "unseen" \in odd

=============================================================================
