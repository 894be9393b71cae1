------------------------------ MODULE AtlasMap ------------------------------
(***************************************************************************)
(* The map of the layer over a tag's list: plugins/tags-atlas              *)
(* (atlasLayerMap.ts, AtlasPlaces.ts).  It draws the places of the years   *)
(* that the address names, and around the one that was picked a cloud of   *)
(* its posts and tags.  The places, the boundary files that give them      *)
(* their shapes, and each cloud are fetched on their own, and the years    *)
(* and the filters may change while they are on their way.                 *)
(*                                                                         *)
(* A move to a page of another kind takes the map down; a tag's page that  *)
(* becomes another tag's keeps it.  What a place and a cloud hold does not *)
(* change on the server.  A draw whose files are there is done at once.    *)
(* Left out: the viewport, which chips are dimmed, and the colours.        *)
(***************************************************************************)
EXTENDS Integers, Sequences, SequencesExt

CONSTANTS
    Tags,   \* number of tags with a place
    MaxActs \* bound: what the visitor does, and requests that fail

VARIABLES
    scopeHas, secret,  \* the places of each scope of years; those a guest has not
    placeUrl, years,   \* the address: a tag or 0, and the scope
    mapUp,
    off,               \* _hiddenTypes
    dataOf,            \* the scope of _data, or -1
    scopeKey, scopeReq,
    graphs,            \* requests for the places
    known, pins,      \* _tagsById, and _placeActivators with their layers
    drawSeq, draws,    \* passes of _drawLayers that await the files
    files,             \* the files are cached
    atPlace, anchor, lit, \* _activeTag, _activeAnchor, highlights
    cloudData, cloud,
    cloudReq, clouds,  \* requests for clouds
    cache,
    mapActs,
    (* history *)
    wanted,            \* the place as it was picked
    blurs              \* what the map does not expect

mapVars == <<scopeHas, secret, placeUrl, years, mapUp, off, dataOf, scopeKey, scopeReq, graphs,
             known, pins, drawSeq, draws, files, atPlace, anchor, lit, cloudData, cloud, cloudReq,
             clouds, cache, mapActs, wanted, blurs>>
world == <<scopeHas, secret>>
scoped == <<scopeKey, scopeReq, graphs>>
layers == <<known, pins, drawSeq, draws, files>>
selection == <<atPlace, anchor, lit, cloudData, cloud, cloudReq, clouds, cache>>

Tag == 1..Tags
Scope == {0, 1} \* 0: all years
Data == [tag : 0..Tags, scope : Scope]
NoData == [tag |-> 0, scope |-> 0]
Spot == {"none", "own", "click"}
Cloud == [tag : 0..Tags, data : Data, at : Spot, without : SUBSET {"concealed", "post"}]
NoCloud == [tag |-> 0, data |-> NoData, at |-> "none", without |-> {}]

TypeOK ==
    /\ scopeHas \in [Scope -> SUBSET Tag] /\ secret \subseteq Tag
    /\ placeUrl \in 0..Tags /\ {years, scopeKey} \subseteq Scope /\ dataOf \in {-1} \cup Scope
    /\ mapUp \in {"none", "loading", "up", "dead"} /\ off \subseteq {"concealed", "post"}
    /\ graphs \in Seq([first : BOOLEAN, scope : Scope, req : 0..scopeReq])
    /\ {known, pins, lit} \subseteq SUBSET Tag /\ files \in BOOLEAN
    /\ draws \in Seq([seq : 1..drawSeq, keep : 0..Tags, first : BOOLEAN, places : SUBSET Tag,
                      instant : BOOLEAN])
    /\ {atPlace, wanted} \subseteq 0..Tags /\ anchor \in Spot
    /\ cloudData \in Data /\ cloud \in Cloud
    /\ clouds \in Seq([token : 1..cloudReq, data : Data, at : Spot]) /\ cache \subseteq Data
    /\ mapActs \in 0..MaxActs
    /\ blurs \subseteq {"failed", "crossed", "overlapped", "again", "moved", "early"}

Init ==
    /\ scopeHas \in {has \in [Scope -> SUBSET Tag] : has[0] = Tag} /\ secret \in {{}, {1}}
    /\ placeUrl \in {0, 1} /\ years = 0
    /\ mapUp = "none" /\ off = {} /\ dataOf = -1 /\ scopeKey = 0 /\ scopeReq = 0 /\ graphs = <<>>
    /\ known = {} /\ pins = {} /\ drawSeq = 0 /\ draws = <<>> /\ files = FALSE
    /\ atPlace = 0 /\ anchor = "none" /\ lit = {} /\ cloudData = NoData /\ cloud = NoCloud
    /\ cloudReq = 0 /\ clouds = <<>> /\ cache = {}
    /\ mapActs = 0 /\ wanted = 0 /\ blurs = {}

-----------------------------------------------------------------------------
Own(act) == mapActs < MaxActs /\ mapActs' = mapActs + act
Free == mapUp = "up" /\ \A k \in DOMAIN draws : ~draws[k].instant
Blur(mark, when) == blurs' = blurs \cup (IF when THEN {mark} ELSE {})

(* _filteredOut leaves a place out as a guest would not have it.           *)
Shown(scope) == IF "concealed" \in off THEN scopeHas[scope] \ secret ELSE scopeHas[scope]

(* _spawnCloud, and _refreshCloud around the place that is picked.         *)
Spawned(t, data, spot, without) ==
    [tag |-> t, data |-> data, at |-> spot, without |-> without]

Refreshed(without) ==
    IF atPlace = 0 \/ cloudData = NoData THEN cloud
    ELSE Spawned(atPlace, cloudData, anchor, without)

-----------------------------------------------------------------------------
(* atlasLayerMap: Leaflet is loaded once the layer is first open.          *)
Build ==
    /\ mapUp = "none" /\ mapUp' = "loading"
    /\ UNCHANGED <<world, placeUrl, years, off, dataOf, scoped, layers, selection, mapActs, wanted,
                   blurs>>

(* start.                                                                  *)
Built ==
    /\ mapUp = "loading" /\ mapUp' = "up" /\ scopeKey' = years
    /\ graphs' = <<[first |-> TRUE, scope |-> years, req |-> 0]>>
    /\ UNCHANGED <<world, placeUrl, years, off, dataOf, scopeReq, layers, selection, mapActs,
                   wanted, blurs>>

(* loadLeaflet fails: until the layer's mode changes.                      *)
BuildFails ==
    /\ mapUp = "loading" /\ mapUp' = "none" /\ Own(1)
    /\ UNCHANGED <<world, placeUrl, years, off, dataOf, scoped, layers, selection, wanted, blurs>>

-----------------------------------------------------------------------------
(* Drawing.                                                                *)

(* _clearSelection, and the layers emptied.                                *)
Cleared ==
    /\ atPlace' = 0 /\ anchor' = "none" /\ lit' = {} /\ cloudData' = NoData /\ cloud' = NoCloud
    /\ cloudReq' = cloudReq + 1 /\ UNCHANGED <<clouds, cache>>

(* _drawLayers to where it awaits the files.                               *)
Pass(keep, first, places) ==
    /\ drawSeq' = drawSeq + 1
    /\ draws' = Append(draws, [seq |-> drawSeq + 1, keep |-> keep, first |-> first,
                               places |-> places, instant |-> files])
    /\ UNCHANGED files

(* Mutant: the place that was picked is forgotten first.                   *)
KeptNone == 0

Kept == atPlace

(* _redrawPlaces to the same point.                                        *)
Redraw(scope, without) ==
    /\ Cleared /\ pins' = {} /\ known' = scopeHas[scope]
    /\ Pass(Kept, FALSE, IF "concealed" \in without THEN scopeHas[scope] \ secret
                         ELSE scopeHas[scope])

(* Mutant: any answer is drawn.                                            *)
CurrentAlways(g) == TRUE

(* _onScopeChange drops an answer that a later request has overtaken; the  *)
(* first request has no number.                                            *)
Current(g) == g.first \/ g.req = scopeReq

GraphArrives ==
    \E k \in DOMAIN graphs :
        LET g == graphs[k]
        IN  /\ Free /\ graphs' = RemoveAt(graphs, k)
            /\ IF ~Current(g) THEN UNCHANGED <<dataOf, layers, selection, blurs>>
               ELSE /\ dataOf' = g.scope
                    /\ IF g.first
                       THEN /\ known' = known \cup scopeHas[g.scope]
                            /\ Pass(0, TRUE, Shown(g.scope)) /\ UNCHANGED <<pins, selection>>
                       ELSE Redraw(g.scope, off)
                    /\ blurs' = blurs \cup (IF g.first /\ dataOf # -1 THEN {"crossed"} ELSE {})
                                      \cup (IF draws # <<>> THEN {"overlapped"} ELSE {})
            /\ UNCHANGED <<world, placeUrl, years, mapUp, off, scopeKey, scopeReq, mapActs,
                           wanted>>

GraphFails ==
    \E k \in DOMAIN graphs :
        /\ Free /\ Own(1) /\ graphs' = RemoveAt(graphs, k) /\ Blur("failed", Current(graphs[k]))
        /\ UNCHANGED <<world, placeUrl, years, mapUp, off, dataOf, scopeKey, scopeReq, layers,
                       selection, wanted>>

(* _select.  What is cached needs no request; what was asked for the last  *)
(* place is not cancelled, nor is its data dropped.                        *)
Select(t, spot) ==
    IF t = atPlace
    THEN /\ anchor' = spot
         /\ cloud' = IF cloudData = NoData THEN cloud ELSE Spawned(t, cloudData, spot, off)
         /\ UNCHANGED <<atPlace, lit, cloudData, cloudReq, clouds, cache>>
    ELSE LET data == [tag |-> t, scope |-> years]
         IN  /\ atPlace' = t /\ anchor' = spot /\ lit' = {t} /\ UNCHANGED cache
             /\ IF data \in cache
                THEN /\ cloudData' = data /\ cloud' = Spawned(t, data, spot, off)
                     /\ UNCHANGED <<cloudReq, clouds>>
                ELSE /\ cloud' = NoCloud /\ cloudReq' = cloudReq + 1 /\ UNCHANGED cloudData
                     /\ clouds' = Append(clouds, [token |-> cloudReq + 1, data |-> data,
                                                  at |-> spot])

(* Mutant: who asked is not looked at.                                     *)
SuitsLast(c) == c.token = cloudReq

(* _loadAndSpawnCloud: the last to be asked for, of the place picked.      *)
Suits(c) == c.token = cloudReq /\ atPlace = c.data.tag

(* A pick of a place whose cloud is the last that was asked for: an answer *)
(* still to come puts the cloud where it was to be then.                   *)
Loading(t) ==
    \E k \in DOMAIN clouds : clouds[k].token = cloudReq /\ clouds[k].data.tag = t

(* The rest of a pass: only the newest one draws, but each goes on to pick *)
(* what it was to keep, or the first one what the address names.           *)
DrawEnds ==
    \E k \in DOMAIN draws :
        LET d == draws[k]
            drawn == IF d.seq = drawSeq THEN pins \cup d.places ELSE pins
            again == IF ~d.first THEN d.keep ELSE IF atPlace = 0 THEN placeUrl ELSE 0
        IN  /\ mapUp = "up" /\ (d.instant \/ Free)
            /\ draws' = RemoveAt(draws, k) /\ pins' = drawn
            /\ \/ files' = TRUE /\ UNCHANGED mapActs
               \/ ~d.instant /\ Own(1) /\ UNCHANGED files
            /\ IF again \in drawn \cap known THEN Select(again, "own") ELSE UNCHANGED selection
            /\ Blur("again", again \in drawn \cap known /\ Loading(again))
            /\ wanted' = IF d.first /\ again \in drawn \cap known THEN again
                         ELSE IF d.seq = drawSeq /\ wanted \notin drawn THEN 0 ELSE wanted
            /\ UNCHANGED <<world, placeUrl, years, mapUp, off, dataOf, scoped, known, drawSeq>>

-----------------------------------------------------------------------------
(* Clouds.                                                                 *)

CloudArrives ==
    \E k \in DOMAIN clouds :
        LET c == clouds[k]
        IN  /\ Free /\ clouds' = RemoveAt(clouds, k) /\ cache' = cache \cup {c.data}
            /\ IF Suits(c) THEN cloudData' = c.data /\ cloud' = Spawned(atPlace, c.data, c.at, off)
               ELSE UNCHANGED <<cloudData, cloud>>
            /\ UNCHANGED <<world, placeUrl, years, mapUp, off, dataOf, scoped, layers,
                           atPlace, anchor, lit, cloudReq, mapActs, wanted, blurs>>

CloudFails ==
    \E k \in DOMAIN clouds :
        LET c == clouds[k]
        IN  /\ Free /\ Own(1) /\ clouds' = RemoveAt(clouds, k) /\ Blur("failed", Suits(c))
            /\ IF Suits(c) THEN cloudData' = NoData /\ cloud' = NoCloud
               ELSE UNCHANGED <<cloudData, cloud>>
            /\ UNCHANGED <<world, placeUrl, years, mapUp, off, dataOf, scoped, layers,
                           atPlace, anchor, lit, cloudReq, cache, wanted>>

-----------------------------------------------------------------------------
(* What the visitor does.                                                  *)
(* A click on a place; openPlace moves the address to its page.            *)
Click ==
    \E t \in pins :
        /\ Free /\ Own(1) /\ Select(t, "click") /\ placeUrl' = IF t = atPlace THEN placeUrl ELSE t
        /\ wanted' = t
        /\ blurs' = blurs \cup (IF Loading(t) THEN {"again"} ELSE {})
                          \cup (IF t = atPlace /\ cloudData.tag \notin {0, t} THEN {"early"}
                                ELSE {})
        /\ UNCHANGED <<world, years, mapUp, off, dataOf, scoped, layers>>

(* _wireToggles: the hidden places change the map itself.                  *)
Toggle ==
    \E kind \in {"concealed", "post"} :
        LET without == IF kind \in off THEN off \ {kind} ELSE off \cup {kind}
            redrawn == kind = "concealed" /\ dataOf # -1
        IN  /\ Free /\ Own(1) /\ off' = without
            /\ IF redrawn THEN Redraw(dataOf, without)
               ELSE /\ cloud' = Refreshed(without)
                    /\ UNCHANGED <<layers, atPlace, anchor, lit, cloudData, cloudReq, clouds,
                                   cache>>
            /\ blurs' = blurs \cup (IF redrawn /\ draws # <<>> THEN {"overlapped"} ELSE {})
                              \cup (IF ~redrawn /\ cloudData.tag \notin {0, atPlace} THEN {"early"}
                                    ELSE {})
            /\ UNCHANGED <<world, placeUrl, years, mapUp, dataOf, scoped, wanted>>

(* The timeline, a link to another tag, or a step back.                    *)
Move ==
    \E t \in 0..Tags, scope \in Scope :
        /\ Own(1) /\ mapUp # "dead" /\ (mapUp = "up" => Free)
        /\ <<t, scope>> # <<placeUrl, years>> /\ placeUrl' = t /\ years' = scope
        /\ IF mapUp = "up" /\ scope # scopeKey
           THEN /\ scopeKey' = scope /\ scopeReq' = scopeReq + 1
                /\ graphs' = Append(graphs, [first |-> FALSE, scope |-> scope,
                                             req |-> scopeReq + 1])
           ELSE UNCHANGED scoped
        /\ Blur("moved", t # placeUrl)
        /\ UNCHANGED <<world, mapUp, off, dataOf, layers, selection, wanted>>

(* destroy: a click beside the places, a chip, or a link to another page.  *)
Leave ==
    /\ Own(1) /\ Free /\ mapUp' = "dead"
    /\ graphs' = <<>> /\ draws' = <<>> /\ clouds' = <<>>
    /\ UNCHANGED <<world, placeUrl, years, off, dataOf, scopeKey, scopeReq, known, pins, drawSeq,
                   files, atPlace, anchor, lit, cloudData, cloud, cloudReq, cache, wanted,
                   blurs>>

Next ==
    \/ Build \/ Built \/ BuildFails \/ GraphArrives \/ GraphFails \/ DrawEnds
    \/ CloudArrives \/ CloudFails \/ Click \/ Toggle \/ Move \/ Leave

(***************************************************************************)
(* Properties.                                                             *)
(***************************************************************************)
Rest == mapUp = "up" /\ graphs = <<>> /\ draws = <<>> /\ clouds = <<>>

(* At rest the map holds the places of the years in the address, as far as *)
(* the filter lets them through, and none of other years.                  *)
PlacesAreYears ==
    Rest => pins = Shown(years) \/ blurs \cap {"failed", "crossed"} # {}

(* At rest the place that was picked is on the map, alone lit, and has its *)
(* own cloud, of the years in the address, as the filters have it, where   *)
(* it was last asked for.                                                  *)
CloudIsPlaces ==
    Rest /\ atPlace # 0 =>
        /\ atPlace \in pins /\ lit = {atPlace}
        /\ \/ cloud = Spawned(atPlace, [tag |-> atPlace, scope |-> years], anchor, off)
           \/ blurs \cap {"failed", "again"} # {}

(* A cloud is drawn around the place it was fetched for.                   *)
CloudIsItsOwn == cloud.data.tag = cloud.tag \/ "early" \in blurs

(* A place that was picked stays picked for as long as it is on the map,   *)
(* over years and filters.                                                 *)
PickIsKept ==
    Rest => atPlace = wanted \/ "overlapped" \in blurs

(* At rest the address names the place that is picked, unless it was moved *)
(* from without, or one of two draws brought back an earlier pick.         *)
UrlNamesPlace == Rest => atPlace \in {0, placeUrl} \/ blurs \cap {"moved", "overlapped"} # {}

=============================================================================
