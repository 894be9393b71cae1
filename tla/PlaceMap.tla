------------------------------- MODULE PlaceMap ------------------------------
(***************************************************************************)
(* The page /map: the places of the posts of a range of years, drawn by    *)
(* the Leaflet library on an element of the page (plugins/tags-map).  The  *)
(* page is drawn wholly when it loads, fails or is tried again; another    *)
(* range only draws the places anew.  Neither the answers nor what waits   *)
(* for the library or the countries' borders is numbered.                  *)
(***************************************************************************)
EXTENDS Integers, Sequences, SequencesExt

CONSTANTS
    Spans,       \* ranges of years: a set of numbers, with 0 for all years
    MaxMapSteps  \* bound: what the visitor does

VARIABLES
    span,        \* the range of the address
    mapPhase,    \* what the page shows: the spinner, the map, an error; or it was left
    plotted,     \* state.tags: the range whose places the page has
    sheet,       \* the number of the map's element, counted over the drawings of the page
    mapReads,    \* the requests under way, in the order they were sent
    library,     \* window.L is there
    inits,       \* elements whose _initMap waits for the library
    maps,        \* the maps there are, by element: the drawings on each one's marker layer
    mapOf,       \* the element of _map, 0 when it is null
    borders,     \* _geojson is there
    redraws,     \* calls of _redrawMarkers that wait for it, with their places
    mapSteps,
    (* history *)
    lastGood,    \* the last answer was one
    quirks       \* ways in which the map missed its range

placeVars == <<span, mapPhase, plotted, sheet, mapReads, library, inits, maps, mapOf, borders,
               redraws, mapSteps, lastGood, quirks>>

None == 0
NoMaps == [e \in {} |-> <<>>]

TypeOK ==
    /\ span \in Spans /\ plotted \in Spans
    /\ mapPhase \in {"loading", "shown", "error", "left"}
    /\ sheet \in Nat /\ inits \subseteq 1..sheet
    /\ mapReads \in Seq([span : Spans, kind : {"load", "refresh"}])
    /\ library \in BOOLEAN /\ borders \in BOOLEAN
    /\ DOMAIN maps \subseteq 1..sheet /\ \A e \in DOMAIN maps : maps[e] \in Seq(Spans)
    /\ mapOf \in 0..sheet /\ redraws \in Seq(Spans)
    /\ mapSteps \in 0..MaxMapSteps /\ lastGood \in BOOLEAN
    /\ quirks \subseteq {"late", "double", "older", "kept", "latecomer", "rebuilt"}

Init ==
    /\ span \in Spans /\ plotted = 0 /\ mapPhase = "loading" /\ sheet = 0
    /\ mapReads = <<[span |-> span, kind |-> "load"]>>
    /\ library \in BOOLEAN /\ inits = {} /\ maps = NoMaps /\ mapOf = None
    /\ borders = FALSE /\ redraws = <<>> /\ mapSteps = 0 /\ lastGood = TRUE /\ quirks = {}

Counts == mapSteps < MaxMapSteps /\ mapSteps' = mapSteps + 1

Asked(kind) == Append(mapReads, [span |-> span, kind |-> kind])

-----------------------------------------------------------------------------
(* Mutant: the markers of the range before stay.                           *)
DrawnOver(all, e, places) ==
    IF borders
    THEN maps' = [all EXCEPT ![e] = Append(@, places)] /\ UNCHANGED redraws
    ELSE maps' = all /\ redraws' = Append(redraws, places)

(* _redrawMarkers up to its await, on the map of element e: the layer is   *)
(* cleared; the borders are asked for once.                                *)
Drawn(all, e, places) ==
    IF borders
    THEN maps' = [all EXCEPT ![e] = <<places>>] /\ UNCHANGED redraws
    ELSE maps' = [all EXCEPT ![e] = <<>>] /\ redraws' = Append(redraws, places)

Doubles == IF ~borders /\ redraws # <<>> THEN {"double"} ELSE {}

(* _initMap once the library is there: whatever page there is by now.      *)
Started(e, places, also) ==
    /\ Drawn([x \in DOMAIN maps \cup {e} |-> IF x = e THEN <<>> ELSE maps[x]], e, places)
    /\ mapOf' = e
    /\ quirks' = quirks \cup also \cup Doubles
        \cup (IF mapPhase = "left" THEN {"latecomer"} ELSE {})
        \cup (IF e # sheet' THEN {"older"} ELSE {})
        \cup (IF maps # NoMaps THEN {"rebuilt"} ELSE {})

LibraryComes(e) ==
    /\ e \in inits /\ inits' = inits \ {e} /\ library' = TRUE
    /\ UNCHANGED sheet /\ Started(e, plotted, {})
    /\ UNCHANGED <<span, mapPhase, plotted, mapReads, borders, mapSteps, lastGood>>
LibraryFails(e) ==
    /\ e \in inits /\ inits' = inits \ {e}
    /\ UNCHANGED <<span, mapPhase, plotted, sheet, mapReads, library, maps, mapOf, borders,
                   redraws, mapSteps, lastGood, quirks>>

(* The borders have come, or not: the markers are put on the layer that    *)
(* the page has now.                                                       *)
BordersCome(i, good) ==
    /\ redraws' = RemoveAt(redraws, i) /\ borders' = (borders \/ good)
    /\ maps' = IF mapOf \in DOMAIN maps THEN [maps EXCEPT ![mapOf] = Append(@, redraws[i])]
               ELSE maps
    /\ UNCHANGED <<span, mapPhase, plotted, sheet, mapReads, library, inits, mapOf, mapSteps,
                   lastGood, quirks>>

-----------------------------------------------------------------------------
(* onRouteUpdate: the timeline, a link or the browser's history brings     *)
(* another range.                                                          *)
Ranged(s) ==
    /\ mapPhase # "left" /\ s # span /\ Counts /\ span' = s
    /\ mapReads' = IF mapOf # None /\ mapPhase # "error"
                   THEN Append(mapReads, [span |-> s, kind |-> "refresh"])
                   ELSE Append(mapReads, [span |-> s, kind |-> "load"])
    /\ UNCHANGED <<mapPhase, plotted, sheet, library, inits, maps, mapOf, borders, redraws,
                   lastGood, quirks>>

(* An answer before an earlier one's; and one under an error, which stays.  *)
Order(i) ==
    (IF i > 1 THEN {"late"} ELSE {}) \cup (IF mapPhase = "error" THEN {"kept"} ELSE {})

(* _loadData has its places.  The page is drawn, with another element; but *)
(* an error is not taken back, and goes on hiding the map.                 *)
Loaded(i) ==
    LET s == mapReads[i].span
    IN  /\ mapReads[i].kind = "load" /\ mapReads' = RemoveAt(mapReads, i)
        /\ UNCHANGED <<span, library, borders, mapSteps>>
        /\ IF mapPhase = "left"
           THEN UNCHANGED <<mapPhase, plotted, sheet, inits, maps, mapOf, redraws, lastGood,
                            quirks>>
           ELSE /\ plotted' = s /\ lastGood' = TRUE
                /\ IF mapPhase = "error"
                   THEN /\ quirks' = quirks \cup Order(i)
                        /\ UNCHANGED <<mapPhase, sheet, inits, maps, mapOf, redraws>>
                   ELSE /\ mapPhase' = "shown" /\ sheet' = sheet + 1
                        /\ IF library
                           THEN Started(sheet + 1, s, Order(i)) /\ UNCHANGED inits
                           ELSE /\ inits' = inits \cup {sheet + 1}
                                /\ quirks' = quirks \cup Order(i)
                                /\ UNCHANGED <<maps, mapOf, redraws>>

(* Mutant: the places are drawn before they are put in the state.          *)
RefreshedOld(i) ==
    LET s == mapReads[i].span
    IN  /\ mapReads[i].kind = "refresh" /\ mapReads' = RemoveAt(mapReads, i)
        /\ UNCHANGED <<span, mapPhase, sheet, library, inits, mapOf, borders, mapSteps>>
        /\ IF mapPhase = "left" THEN UNCHANGED <<plotted, maps, redraws, lastGood, quirks>>
           ELSE /\ plotted' = s /\ lastGood' = TRUE
                /\ Drawn(maps, mapOf, plotted) /\ quirks' = quirks \cup Order(i) \cup Doubles

(* _refreshMap has its places.                                             *)
Refreshed(i) ==
    LET s == mapReads[i].span
    IN  /\ mapReads[i].kind = "refresh" /\ mapReads' = RemoveAt(mapReads, i)
        /\ UNCHANGED <<span, mapPhase, sheet, library, inits, mapOf, borders, mapSteps>>
        /\ IF mapPhase = "left" THEN UNCHANGED <<plotted, maps, redraws, lastGood, quirks>>
           ELSE /\ plotted' = s /\ lastGood' = TRUE
                /\ Drawn(maps, mapOf, s) /\ quirks' = quirks \cup Order(i) \cup Doubles

(* Mutant: a range that cannot be read is passed over.                     *)
ReadFailsQuietly(i) ==
    /\ mapReads' = RemoveAt(mapReads, i)
    /\ IF mapPhase = "left" THEN UNCHANGED <<lastGood, quirks>>
       ELSE lastGood' = FALSE /\ quirks' = quirks \cup Order(i)
    /\ UNCHANGED <<span, mapPhase, plotted, sheet, library, inits, maps, mapOf, borders, redraws,
                   mapSteps>>

(* Either request fails: the error takes the place of the map, which is    *)
(* not removed.                                                            *)
ReadFails(i) ==
    /\ mapReads' = RemoveAt(mapReads, i)
    /\ IF mapPhase = "left" THEN UNCHANGED <<mapPhase, plotted, lastGood, quirks>>
       ELSE /\ mapPhase' = "error" /\ plotted' = 0 /\ lastGood' = FALSE
            /\ quirks' = quirks \cup (Order(i) \ {"kept"})
    /\ UNCHANGED <<span, sheet, library, inits, maps, mapOf, borders, redraws, mapSteps>>

(* "Try again".                                                            *)
Retry ==
    /\ mapPhase = "error" /\ Counts /\ mapPhase' = "loading" /\ mapReads' = Asked("load")
    /\ UNCHANGED <<span, plotted, sheet, library, inits, maps, mapOf, borders, redraws, lastGood,
                   quirks>>

(* Mutant: the map is not removed with its page.                           *)
LeaveKeeping ==
    /\ mapPhase # "left" /\ mapPhase' = "left"
    /\ UNCHANGED <<span, plotted, sheet, mapReads, library, inits, maps, mapOf, borders, redraws,
                   mapSteps, lastGood, quirks>>

(* beforeUnmount: the last map and its listener for the theme.             *)
Leave ==
    /\ mapPhase # "left" /\ mapPhase' = "left"
    /\ maps' = [e \in DOMAIN maps \ {mapOf} |-> maps[e]]
    /\ UNCHANGED <<span, plotted, sheet, mapReads, library, inits, mapOf, borders, redraws,
                   mapSteps, lastGood, quirks>>

Next ==
    \/ \E e \in inits : LibraryComes(e) \/ LibraryFails(e)
    \/ \E i \in DOMAIN redraws, good \in BOOLEAN : BordersCome(i, good)
    \/ \E s \in Spans : Ranged(s)
    \/ \E i \in DOMAIN mapReads : Loaded(i) \/ Refreshed(i) \/ ReadFails(i)
    \/ Retry \/ Leave

Spec == Init /\ [][Next]_placeVars

(***************************************************************************)
(* Properties.                                                             *)
(***************************************************************************)

MapRests == mapReads = <<>> /\ inits = {} /\ redraws = <<>>

(* At rest the map that is seen has the places of the address's range,     *)
(* once; unless answers came out of order, places were drawn anew while    *)
(* the borders were awaited, or the library came for an element that is    *)
(* not on the page any more.                                               *)
MapShowsRange ==
    (/\ MapRests /\ mapPhase = "shown" /\ sheet \in DOMAIN maps
     /\ quirks \cap {"late", "double", "older"} = {}) => maps[sheet] = <<span>>

(* A page that was left leaves no map behind, nor its listener for the     *)
(* theme; unless the library came afterwards, or the page has had another  *)
(* map before.                                                             *)
NoMapIsLeft ==
    (mapPhase = "left" /\ MapRests /\ quirks \cap {"latecomer", "rebuilt"} = {}) => maps = NoMaps

(* At rest the page shows an error if and only if the last request failed; *)
(* unless one was answered while the error of another was shown.           *)
ErrorIsLast ==
    (MapRests /\ mapPhase # "left" /\ "kept" \notin quirks) => (mapPhase = "error") = ~lastGood

=============================================================================
