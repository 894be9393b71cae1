------------------------------ MODULE MCPages ------------------------------
(***************************************************************************)
(* For TLC: parts of the front end that each keep a state of their own     *)
(* between requests and answers, the pages of the author's desk first and  *)
(* then those of visitors.  The router mounts one page at a time and the   *)
(* parts share no variable here, so each is checked as if it were alone:   *)
(* focus says which one a behaviour is about.                              *)
(***************************************************************************)
EXTENDS OfflineSync, SwipePager, MediaBrowser, PostsList

CONSTANT a

VARIABLES
    focus,
    (* TagsManager *)
    forest, managing, slug, phase, copy, reads, view, under, marking, marks, modal, initial,
    prompt, runs, tagActs, mixups, misfiled, unfiled, shut,
    (* SlideViewer *)
    sheeted, ends, preloads, edges, index, moved, peeking, timers, finger, drift, zoomed,
    sheetOpen, sheetDrag, offset, went, viewerActs, want, haste,
    (* PostShow *)
    immersive, addr, hash, past, pushed, screen, waiting, held, forced, child, content,
    arrivals, slow, fades, closes, unwinding, marker, heir, laid, sweeps, running, crossing,
    ticking, paused, hidden, loop, showActs, meant, odd,
    (* AtlasLayer *)
    attr, layout, handle, here, backwards, kept, shownRoute, awaits, pointer, pull, from,
    dragging, snapping, raised, snapTo, snapTick, opened, layerActs, meantMode, origin, slop,
    (* AtlasMap *)
    scopeHas, secret, placeUrl, years, mapUp, off, dataOf, scopeKey, scopeReq, graphs, known,
    pins, drawSeq, draws, files, atPlace, anchor, lit, cloudData, cloud, cloudReq, clouds,
    cache, mapActs, wanted, blurs,
    (* HeaderTools *)
    draw, pageOf, lists, bars, menus, tools, chunk, navIn, fullPref, cover, barActs, early,
    stripped, box, entry, pause, hints, heeding, recent, offered, findActs, why,
    (* HeaderRow *)
    row, folds, frozen, resized, rowActs, patched,
    fine, icy, cursor, flyout, resting, more, moreTimer, moves, late, tapped, landed,
    (* RevelioSwitch *)
    revealing, at, site, fetching, readCache, menuScope, generation, inflight, navReads,
    switches, scopeActs, meantAt, mixed,
    (* CommentWidget *)
    viewing, views, embedChunk, fills, mounts, embed, remarkConfig, threads, brush, siteTheme,
    flips, smears,
    (* PlaceMap *)
    span, mapPhase, plotted, sheet, mapReads, library, inits, maps, mapOf, borders, redraws,
    mapSteps, lastGood, quirks

tagVars == <<forest, managing, slug, phase, copy, reads, view, under, marking, marks, modal,
             initial, prompt, runs, tagActs, mixups, misfiled, unfiled, shut>>
viewerVars == <<sheeted, ends, preloads, edges, index, moved, peeking, timers, finger, drift,
                zoomed, sheetOpen, sheetDrag, offset, went, viewerActs, want, haste>>
showVars == <<immersive, addr, hash, past, pushed, screen, waiting, held, forced, child,
              content, arrivals, slow, fades, closes, unwinding, marker, heir, laid, sweeps,
              running, crossing, ticking, paused, hidden, loop, showActs, meant, odd>>
layerVars == <<attr, layout, handle, here, backwards, kept, shownRoute, awaits, pointer, pull,
               from, dragging, snapping, raised, snapTo, snapTick, opened, layerActs, meantMode,
               origin, slop>>
mapVars == <<scopeHas, secret, placeUrl, years, mapUp, off, dataOf, scopeKey, scopeReq, graphs,
             known, pins, drawSeq, draws, files, atPlace, anchor, lit, cloudData, cloud,
             cloudReq, clouds, cache, mapActs, wanted, blurs>>
barVars == <<draw, pageOf, lists, bars, menus, tools, chunk, navIn, fullPref, cover, barActs,
             early, stripped>>
rowVars == <<row, folds, frozen, resized, rowActs, patched>>
flyVars == <<fine, icy, cursor, flyout, resting, more, moreTimer, moves, late, tapped, landed>>
findVars == <<box, entry, pause, hints, heeding, recent, offered, findActs, why>>
scopeVars == <<revealing, at, site, fetching, readCache, menuScope, generation, inflight,
               navReads, switches, scopeActs, meantAt, mixed>>
widgetVars == <<viewing, views, embedChunk, fills, mounts, embed, remarkConfig, threads, brush,
                siteTheme, flips, smears>>
placeVars == <<span, mapPhase, plotted, sheet, mapReads, library, inits, maps, mapOf, borders,
               redraws, mapSteps, lastGood, quirks>>
allVars == <<focus, vars, listVars, mediaVars, tagVars, pagerVars, viewerVars, showVars,
             layerVars, mapVars, barVars, rowVars, flyVars, findVars, scopeVars, widgetVars,
             placeVars>>

(* For OfflineSync: one tab, in which syncQueue is called twice.            *)
SyncRuns == {<<a, 1>>, <<a, 2>>}

Manager == INSTANCE TagsManager WITH Tags <- 3, Slots <- 2, MaxActs <- 2

Viewer == INSTANCE SlideViewer WITH Slides <- 2, MaxActs <- 2

Show == INSTANCE PostShow WITH Posts <- 3, MaxActs <- 2

Layer == INSTANCE AtlasLayer WITH MaxActs <- 3

Map == INSTANCE AtlasMap WITH Tags <- 2, MaxActs <- 3

Bar == INSTANCE HeaderTools WITH Draws <- 4, MaxBarActs <- 4, Asked <- 2, MaxFindActs <- 6

Fly == INSTANCE HeaderRow WITH Links <- 1, Crumbs <- 2, MaxRowActs <- 3, MaxMoves <- 8

Revelio == INSTANCE RevelioSwitch WITH MaxScopeActs <- 3

Widget == INSTANCE CommentWidget WITH Views <- 3, Tries <- 2, Flips <- 2

Places == INSTANCE PlaceMap WITH Spans <- {0, 1}, MaxMapSteps <- 2

PagesTypeOK ==
    /\ focus = "sync" => TypeOK
    /\ focus = "posts" => ListTypeOK
    /\ focus = "media" => MediaTypeOK
    /\ focus = "tags" => Manager!TypeOK
    /\ focus = "pager" => PagerTypeOK
    /\ focus = "viewer" => Viewer!TypeOK
    /\ focus = "show" => Show!TypeOK
    /\ focus = "layer" => Layer!TypeOK
    /\ focus = "map" => Map!TypeOK
    /\ focus = "bar" => Bar!BarTypeOK
    /\ focus = "row" => Fly!RowTypeOK
    /\ focus = "fly" => Fly!FlyTypeOK
    /\ focus = "find" => Bar!FindTypeOK
    /\ focus = "revelio" => Revelio!TypeOK
    /\ focus = "widget" => Widget!TypeOK
    /\ focus = "places" => Places!TypeOK

(* The parts that are not looked at start in one state only; the lists of  *)
(* posts and of files in windows that fit another number than they guess.  *)
PagesInit ==
    /\ focus \in {"sync", "posts", "media", "tags", "pager", "viewer", "show", "layer", "map",
                 "bar", "row", "fly", "find", "revelio", "widget", "places"}
    /\ Init /\ (focus # "sync" => online)
    /\ ListInit /\ room = 1
    /\ MediaInit /\ fits = 2 /\ (focus # "media" => ~picker)
    /\ Manager!Init /\ (focus # "tags" => slug = 0 /\ view = "tree")
    /\ PagerInit /\ (focus # "pager" => deck = "grid")
    /\ Viewer!Init /\ (focus # "viewer" =>
        sheeted /\ index = 0 /\ ends = [d \in {"back", "fwd"} |-> "none"])
    /\ Show!Init /\ (focus # "show" => ~marker /\ ~loop /\ immersive = {1})
    /\ Layer!Init /\ (focus # "layer" => kept = "none" /\ here.route = "home" /\ here.mode = "none")
    /\ Map!Init /\ (focus # "map" => scopeHas[1] = {} /\ secret = {} /\ placeUrl = 0)
    /\ Bar!Init /\ (focus # "bar" => lists = {} /\ ~fullPref)
    /\ Fly!RowInit /\ (focus # "row" => row.width = 0 /\ ~row.subtitle /\ ~row.line /\ ~frozen)
    /\ Fly!FlyInit /\ (focus # "fly" => ~fine /\ ~icy)
    /\ (focus # "find" => ~recent)
    /\ Revelio!Init /\ (focus # "revelio" => revealing /\ at = "feed")
    /\ Widget!Init
    /\ Places!Init /\ (focus # "places" => span = 0 /\ library)

(* A step of the part that is looked at changes no other one.              *)
Only(name) ==
    /\ focus = name
    /\ UNCHANGED focus
    /\ IF name = "sync" THEN TRUE ELSE UNCHANGED vars
    /\ IF name = "posts" THEN TRUE ELSE UNCHANGED listVars
    /\ IF name = "media" THEN TRUE ELSE UNCHANGED mediaVars
    /\ IF name = "tags" THEN TRUE ELSE UNCHANGED tagVars
    /\ IF name = "pager" THEN TRUE ELSE UNCHANGED pagerVars
    /\ IF name = "viewer" THEN TRUE ELSE UNCHANGED viewerVars
    /\ IF name = "show" THEN TRUE ELSE UNCHANGED showVars
    /\ IF name = "layer" THEN TRUE ELSE UNCHANGED layerVars
    /\ IF name = "map" THEN TRUE ELSE UNCHANGED mapVars
    /\ IF name = "bar" THEN TRUE ELSE UNCHANGED barVars
    /\ IF name = "row" THEN TRUE ELSE UNCHANGED rowVars
    /\ IF name = "fly" THEN TRUE ELSE UNCHANGED flyVars
    /\ IF name = "find" THEN TRUE ELSE UNCHANGED findVars
    /\ IF name = "revelio" THEN TRUE ELSE UNCHANGED scopeVars
    /\ IF name = "widget" THEN TRUE ELSE UNCHANGED widgetVars
    /\ IF name = "places" THEN TRUE ELSE UNCHANGED placeVars

PagesNext ==
    \/ Only("sync") /\ Next
    \/ Only("posts") /\ ListNext
    \/ Only("media") /\ MediaNext
    \/ Only("tags") /\ Manager!Next
    \/ Only("pager") /\ PagerNext
    \/ Only("viewer") /\ Viewer!Next
    \/ Only("show") /\ Show!Next
    \/ Only("layer") /\ Layer!Next
    \/ Only("map") /\ Map!Next
    \/ Only("bar") /\ Bar!BarNext
    \/ Only("row") /\ Fly!RowNext
    \/ Only("fly") /\ Fly!FlyNext
    \/ Only("find") /\ Bar!FindNext
    \/ Only("revelio") /\ Revelio!Next
    \/ Only("widget") /\ Widget!Next
    \/ Only("places") /\ Places!Next

PagesSpec == PagesInit /\ [][PagesNext]_allVars

(* A part that is not looked at stays in a state in which it starts, so    *)
(* that its properties are only worth a look where it moves.               *)

(* TagsManager.                                                            *)
TagsKept == focus = "tags" =>
    /\ Manager!ListIsCurrent
    /\ Manager!SavedIsStored
    /\ Manager!FilingsKept
    /\ Manager!EditorStays
    /\ Manager!PickedAreShown
    /\ Manager!TreeHoldsAll
    /\ Manager!NoEditorElsewhere

(* SlideViewer and PostShow.                                               *)
ViewerKept ==
    /\ focus = "viewer" =>
        /\ Viewer!StageIsClean
        /\ Viewer!SheetSnaps
        /\ Viewer!LandsAsAsked
    /\ focus = "show" =>
        /\ Show!ShownIsNamed
        /\ Show!PictureIsThePosts
        /\ Show!AddressIsMeant
        /\ Show!ShowHasViewer
        /\ Show!HiddenIsStill

(* The public pages' other parts: AtlasLayer, AtlasMap.                    *)
PublicKept ==
    /\ focus = "layer" =>
        /\ Layer!ModeIsKept
        /\ Layer!UrlNamesMode
        /\ Layer!DragEnds
        /\ Layer!ClosesToMap
    /\ focus = "map" =>
        /\ Map!PlacesAreYears
        /\ Map!CloudIsPlaces
        /\ Map!CloudIsItsOwn
        /\ Map!PickIsKept
        /\ Map!UrlNamesPlace
    /\ focus = "bar" =>
        /\ Bar!BodyIsTools
        /\ Bar!FullOnListsOnly
        /\ Bar!HeadersGo
        /\ Bar!PartsGo
    /\ focus = "row" =>
        /\ Fly!RowIsLaidOut
        /\ Fly!FoldsInOrder
    /\ focus = "fly" =>
        /\ Fly!AnchorStands
        /\ Fly!TapsAreOne
        /\ Fly!MoreFollowsMouse
    /\ focus = "find" =>
        /\ Bar!OfferedIsTyped
        /\ Bar!ClosedOffersNothing
    /\ focus = "revelio" =>
        /\ Revelio!SeenAlike
        /\ Revelio!StaysPut
    /\ focus = "widget" =>
        /\ Widget!ThreadIsPosts
        /\ Widget!OneThread
        /\ Widget!WidgetsAreViews
        /\ Widget!ColoursAreSites
    /\ focus = "places" =>
        /\ Places!MapShowsRange
        /\ Places!NoMapIsLeft
        /\ Places!ErrorIsLast

=============================================================================
