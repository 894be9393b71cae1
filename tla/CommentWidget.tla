--------------------------- MODULE CommentWidget ----------------------------
(***************************************************************************)
(* The comments below a post (plugins/comments/index.ts): a chunk that the *)
(* first post to be shown fetches, and in it a script that is fetched once *)
(* and then makes an instance for each post.  Both may come late, when the *)
(* post is gone.  The script is remark42's; it draws the thread of a post  *)
(* in a frame below the one node of the document that has its id.          *)
(***************************************************************************)
EXTENDS Naturals, Sequences, SequencesExt

CONSTANTS
    Views,  \* bound: posts that are shown, one after the other
    Tries,  \* bound: how often the colours are tried (21 in the code)
    Flips   \* bound: changes of the theme, and frames that load again

VARIABLES
    viewing,      \* the view on the screen: its number, and how it shows the comments
    views,        \* how many so far
    embedChunk,   \* whether the plugin's chunk is there
    fills,        \* calls of fill() that wait for it
    mounts,       \* the mounted widgets, and what they do once the script is ready
    embed,        \* the script: "none", "loading", "ready", "mute" or "lost"
    remarkConfig, \* window.remark_config
    threads,      \* the script's instances, the current one last
    brush,        \* the widget whose colours are to be tried again, and how often yet
    siteTheme,
    flips,
    (* history *)
    smears        \* why the comments may not be the post's, in the site's colours

widgetVars == <<viewing, views, embedChunk, fills, mounts, embed, remarkConfig, threads, brush,
                siteTheme, flips, smears>>

Theme == {"light", "dark"}
NoView == [n |-> 0, as |-> "none"]
NoBrush == [n |-> 0, left |-> 0]
(* A thread that no frame shows yet, or that has its own colours.          *)
Unpainted == "none"

TypeOK ==
    /\ viewing.n \in 0..Views /\ viewing.as \in {"article", "sheet", "none"}
    /\ views \in 0..Views /\ embedChunk \in BOOLEAN
    /\ \A fl \in ToSet(fills) : fl.n \in 1..views /\ fl.over \in BOOLEAN
    /\ \A w \in mounts :
        w.n \in 1..views /\ w.theme \in Theme /\ w.hears \in {"create", "colour", "none"}
    /\ embed \in {"none", "loading", "ready", "mute", "lost"}
    /\ remarkConfig.post \in 0..views /\ remarkConfig.theme \in Theme
    /\ \A t \in ToSet(threads) :
        t.post \in 1..views /\ t.theme \in Theme /\ t.frame \in BOOLEAN
            /\ t.paint \in Theme \cup {Unpainted}
    /\ brush.n \in 0..views /\ brush.left \in 0..Tries
    /\ siteTheme \in Theme /\ flips \in 0..Flips
    /\ smears \subseteq {"doubled", "noNode", "scriptLost", "early", "gaveUp", "ghost"}

Init ==
    /\ viewing = NoView /\ views = 0 /\ embedChunk = FALSE /\ fills = <<>> /\ mounts = {}
    /\ embed = "none" /\ remarkConfig = [post |-> 0, theme |-> "light"] /\ threads = <<>>
    /\ brush = NoBrush /\ siteTheme = "light" /\ flips = 0 /\ smears = {}

-----------------------------------------------------------------------------
(* createInstance, in the node that stands in the document: that of the    *)
(* view on the screen.                                                     *)
Created(ts, config, node) ==
    IF node = 0 THEN ts
    ELSE Append(ts, [post |-> config.post, theme |-> config.theme, frame |-> FALSE,
                     paint |-> Unpainted])

(* syncColors: into the first frame below the node, if it is there.        *)
Coloured(ts, theme) ==
    IF ts # <<>> /\ ts[1].frame THEN [ts EXCEPT ![1].paint = theme] ELSE ts
Colourable(ts) == ts # <<>> /\ ts[1].frame

(* A widget's own configuration.                                           *)
Own(w) == [post |-> w.n, theme |-> w.theme]

(* scheduleColorSync, its first attempt.                                   *)
Brushed(n, ts) == IF n # viewing'.n \/ ~Colourable(ts) THEN [n |-> n, left |-> Tries] ELSE NoBrush

(* mount, of view n: s has the widgets, the script and the configuration   *)
(* as far as they are known by then.                                       *)
Mounted(s, n) ==
    LET config == [post |-> n, theme |-> siteTheme]
        hears == CASE s.embed = "ready" -> "none"
                   [] s.embed = "none" -> "colour"
                   [] OTHER -> "create"
    IN  [mounts |-> s.mounts \cup {[n |-> n, theme |-> siteTheme, hears |-> hears]},
         embed |-> IF s.embed = "none" THEN "loading" ELSE s.embed,
         config |-> config,
         threads |-> IF s.embed = "ready" THEN Created(s.threads, config, viewing'.n)
                     ELSE s.threads,
         smears |-> IF s.embed = "loading" /\ viewing'.n = n THEN s.smears \cup {"doubled"}
                    ELSE s.smears]

State == [mounts |-> mounts, embed |-> embed, config |-> remarkConfig, threads |-> threads,
          smears |-> smears]
Becomes(s) ==
    /\ mounts' = s.mounts /\ embed' = s.embed /\ remarkConfig' = s.config
    /\ threads' = s.threads

(* unmount: the listeners go, the instance and the node.                   *)
Unmounted(s, n) ==
    IF \A w \in s.mounts : w.n # n THEN s
    ELSE [s EXCEPT !.mounts = {w \in @ : w.n # n}, !.threads = <<>>]

(* Mutant: comments that are not mounted yet are not torn down.            *)
TornDownMounted(n) == fills

(* An article is torn down once its comments are there; a sheet tears down *)
(* what it has been given by then.                                         *)
TornDown(n) == [i \in DOMAIN fills |->
    IF fills[i].n = n /\ viewing.as = "article" THEN [fills[i] EXCEPT !.over = TRUE] ELSE fills[i]]

(* Another post is shown, or a page that is none.                          *)
Show(as) ==
    LET left == IF embedChunk THEN Unmounted(State, viewing.n) ELSE State
        n == views + 1
        s == IF as # "none" /\ embedChunk THEN Mounted(left, n) ELSE left
    IN  /\ IF as = "none" THEN viewing # NoView /\ UNCHANGED views
           ELSE views < Views /\ views' = n
        /\ viewing' = IF as = "none" THEN NoView ELSE [n |-> n, as |-> as]
        /\ fills' = IF as # "none" /\ ~embedChunk
                    THEN Append(TornDown(viewing.n), [n |-> n, over |-> FALSE])
                    ELSE TornDown(viewing.n)
        /\ Becomes(s)
        /\ smears' = s.smears \cup
            (IF viewing.as = "sheet" /\ ~embedChunk THEN {"ghost"} ELSE {})
        /\ brush' = IF as # "none" /\ embedChunk /\ embed = "ready" THEN Brushed(n, s.threads)
                    ELSE brush
        /\ UNCHANGED <<embedChunk, siteTheme, flips>>

(* The chunk is there: each call of fill mounts in turn, and then those go *)
(* whose article has gone.                                                 *)
ChunkIn ==
    LET all == FoldLeft(LAMBDA s, fl : Mounted(s, fl.n), State, fills)
        gone == FoldLeft(LAMBDA s, fl : IF fl.over THEN Unmounted(s, fl.n) ELSE s, all, fills)
    IN  /\ ~embedChunk /\ fills # <<>> /\ embedChunk' = TRUE /\ fills' = <<>>
        /\ UNCHANGED <<viewing, views, brush, siteTheme, flips>>
        /\ Becomes(gone) /\ smears' = gone.smears

-----------------------------------------------------------------------------
(* remark42's script.                                                      *)

(* It makes an instance of the configuration that it finds, and tells all  *)
(* who wait for it; without a node it does neither, and may have set up    *)
(* createInstance by then or not.                                          *)
ScriptIn(exposed) ==
    LET node == IF \E w \in mounts : w.n = viewing.n THEN viewing.n ELSE 0
        first == Created(threads, remarkConfig, node)
        waiting == {w \in mounts : w.hears = "create"}
    IN  /\ embed = "loading"
        /\ UNCHANGED <<viewing, views, embedChunk, fills, remarkConfig, siteTheme, flips>>
        /\ IF node = 0
           THEN /\ embed' = IF exposed THEN "ready" ELSE "mute"
                /\ smears' = smears \cup {"noNode"}
                /\ UNCHANGED <<mounts, threads, brush>>
           ELSE /\ exposed /\ embed' = "ready"
                /\ threads' = FoldLeft(LAMBDA ts, w : Created(ts, Own(w), node), first,
                                       SetToSortSeq(waiting, LAMBDA v, w : v.n < w.n))
                /\ mounts' = {[w EXCEPT !.hears = "none"] : w \in mounts}
                /\ brush' = Brushed(node, threads')
                /\ UNCHANGED smears

ScriptLost ==
    /\ embed = "loading" /\ embed' = "lost" /\ smears' = smears \cup {"scriptLost"}
    /\ UNCHANGED <<viewing, views, embedChunk, fills, mounts, remarkConfig, threads, brush,
                   siteTheme, flips>>

(* An instance's frame is there, in its own colours.                       *)
FrameIn(i) ==
    /\ i \in DOMAIN threads /\ ~threads[i].frame
    /\ threads' = [threads EXCEPT ![i].frame = TRUE]
    /\ UNCHANGED <<viewing, views, embedChunk, fills, mounts, embed, remarkConfig, brush,
                   siteTheme, flips, smears>>

(* A frame that was coloured loads again, and is coloured again.           *)
FrameReloads ==
    /\ threads # <<>> /\ threads[1].paint # Unpainted /\ flips < Flips /\ flips' = flips + 1
    /\ threads' = Coloured(threads, siteTheme)
    /\ UNCHANGED <<viewing, views, embedChunk, fills, mounts, embed, remarkConfig, brush,
                   siteTheme, smears>>

-----------------------------------------------------------------------------
(* scheduleColorSync, 150 ms later.                                        *)
Retry ==
    /\ brush # NoBrush
    /\ threads' = IF brush.n = viewing.n THEN Coloured(threads, siteTheme) ELSE threads
    /\ brush' = IF (brush.n = viewing.n /\ Colourable(threads)) \/ brush.left = 1 THEN NoBrush
                ELSE [brush EXCEPT !.left = @ - 1]
    /\ smears' = IF brush.left = 1 /\ brush.n = viewing.n /\ ~Colourable(threads)
                 THEN smears \cup {"gaveUp"} ELSE smears
    /\ UNCHANGED <<viewing, views, embedChunk, fills, mounts, embed, remarkConfig, siteTheme,
                   flips>>

(* Mutant: the frame keeps the colours of the theme before.                *)
RecolouredNot(ts, theme) == ts

(* onTheme's second half.                                                  *)
Recoloured(ts, theme) == Coloured(ts, theme)

(* onTheme: changeTheme reaches the current instance.                      *)
Flip ==
    LET theme == IF siteTheme = "light" THEN "dark" ELSE "light"
        told == IF threads = <<>> THEN threads
                ELSE [threads EXCEPT ![Len(threads)].theme = theme]
    IN  /\ flips < Flips /\ flips' = flips + 1 /\ siteTheme' = theme
        /\ threads' = IF mounts = {} THEN threads ELSE Recoloured(told, theme)
        /\ smears' = IF embed = "loading" THEN smears \cup {"early"} ELSE smears
        /\ UNCHANGED <<viewing, views, embedChunk, fills, mounts, embed, remarkConfig, brush>>

Next ==
    \/ \E as \in {"article", "sheet", "none"} : Show(as)
    \/ ChunkIn \/ ScriptLost \/ FrameReloads \/ Retry \/ Flip
    \/ \E exposed \in BOOLEAN : ScriptIn(exposed)
    \/ \E i \in 1..2 : FrameIn(i)

(***************************************************************************)
(* Properties.                                                             *)
(***************************************************************************)

(* Whatever is shown below a post is the thread of that post, however late *)
(* the chunk and the script came; but for a sheet that was left before its *)
(* chunk was there.                                                        *)
ThreadIsPosts == "ghost" \notin smears => \A t \in ToSet(threads) : t.post = viewing.n

(* With all of it there a post has its comments, once; unless it was shown *)
(* while the script was on its way for another one (then they may be there *)
(* twice), or the script came when no post was there, or never.            *)
OneThread ==
    viewing # NoView /\ embedChunk /\ embed # "loading" =>
        /\ smears \cap {"noNode", "scriptLost"} = {} => threads # <<>>
        /\ smears \cap {"doubled"} = {} => Len(threads) <= 1

(* The widgets that hear of the theme are those of the view on the screen; *)
(* but for a sheet that was left before its chunk was there.               *)
WidgetsAreViews ==
    embedChunk /\ "ghost" \notin smears => \A w \in mounts : w.n = viewing.n

(* The comments have the site's theme and colours, unless the theme        *)
(* changed before the script was there, or the frame took too long.        *)
ColoursAreSites ==
    Len(threads) = 1 =>
        /\ "early" \notin smears => threads[1].theme = siteTheme
        /\ threads[1].frame /\ brush = NoBrush /\ "gaveUp" \notin smears =>
            threads[1].paint = siteTheme

=============================================================================
