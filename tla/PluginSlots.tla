---------------------------- MODULE PluginSlots ----------------------------
(***************************************************************************)
(* Which plugins fill a slot: toggles and presets (internal/api/plugins.go *)
(* and plugin_presets.go), the slot's rule (internal/plugins/registry.go)  *)
(* and the settings cache they read (services/settings_service.go).  A     *)
(* request decides on a copy of the cached settings and then writes one    *)
(* key after the other; no lock spans a request.                           *)
(*                                                                         *)
(* Plugins are the candidates of one slot in registry order.  Key 0 stands *)
(* for any setting that is saved without being read first.                 *)
(***************************************************************************)
EXTENDS Naturals, FiniteSets

CONSTANTS
    LastPlugin, \* the number of candidates
    Default,    \* the slot's default claimant
    Rule,       \* the slot's cardinality
    Reqs,       \* bound: requests under way at once
    NoKey

Plugins == 1..LastPlugin
Keys == 0..LastPlugin

SingleClaim == Rule \in {"0-1", "1"}
RequiresOne == Rule \in {"1", "1+"}

ASSUME SlotAssumption ==
    /\ LastPlugin \in Nat
    /\ Rule \in {"0-1", "1", "0+", "1+"}
    /\ RequiresOne => Default \in Plugins

VARIABLES
    table,       \* keys whose value in the database is true
    label,       \* the key plugins.active_preset: a preset or custom
    warm,        \* the settings are cached
    cache,       \* keys whose cached value is true
    phase,       \* phase[q]: where request q stands
    req,         \* req[q]: what it asks for
    left,        \* left[q]: keys it has yet to write
    seen,        \* seen[q]: what its query of a cold cache returned
    stale,       \* stale[q]: keys written since that query
    overwritten, \* overwritten[q]: another request wrote q's key after q did
    raced,       \* history: keys whose cached value lost such a race
    overlapped,  \* history: two requests changed plugins at the same time
    cutShort,    \* history: what ended in the middle of its writes, none overlapping
    alone,       \* history: presets that no other change has overlapped
    last         \* history: the set that the active preset enabled

stored == <<table, label>>
cached == <<warm, cache>>
request == <<phase, req, left, seen>>
races == <<stale, overwritten, raced>>
slotHistory == <<overlapped, cutShort, alone, last>>
slotVars == <<stored, cached, request, races, slotHistory>>

Obeys(E) ==
    /\ SingleClaim => Cardinality(E) <= 1
    /\ RequiresOne => E # {}

Request ==
    [kind : {"toggle"}, want : SUBSET Plugins, first : Plugins]
    \cup [kind : {"preset", "look"}, want : SUBSET Plugins, first : {NoKey}]
    \cup [kind : {"save"}, want : SUBSET {0}, first : {0}]

Idle == [kind |-> "look", want |-> {}, first |-> NoKey]

SlotTypeOK ==
    /\ table \subseteq Keys
    /\ label \in {"custom", "preset"}
    /\ warm \in BOOLEAN
    /\ cache \subseteq Keys
    /\ phase \in [Reqs -> {"idle", "install", "write", "patch"}]
    /\ req \in [Reqs -> Request]
    /\ left \in [Reqs -> SUBSET Keys]
    /\ \A q \in Reqs : phase[q] = "patch" => left[q] # {}
    /\ seen \in [Reqs -> SUBSET Keys]
    /\ stale \in [Reqs -> SUBSET Keys]
    /\ overwritten \in [Reqs -> BOOLEAN]
    /\ raced \subseteq Keys
    /\ overlapped \in BOOLEAN
    /\ cutShort \subseteq {"toggle", "preset"}
    /\ alone \subseteq Reqs
    /\ last \subseteq Plugins

SlotInit ==
    /\ table \in {E \in SUBSET Plugins : Obeys(E)}
    /\ label = "custom"
    /\ warm = FALSE
    /\ cache = {}
    /\ phase = [q \in Reqs |-> "idle"]
    /\ req = [q \in Reqs |-> Idle]
    /\ left = [q \in Reqs |-> {}]
    /\ seen = [q \in Reqs |-> {}]
    /\ stale = [q \in Reqs |-> {}]
    /\ overwritten = [q \in Reqs |-> FALSE]
    /\ raced = {}
    /\ overlapped = FALSE
    /\ cutShort = {}
    /\ alone = {}
    /\ last = {}

-----------------------------------------------------------------------------
(* What the handlers decide from the settings S they loaded.               *)

(* IsLockedOff.                                                            *)
LockedOff(p, S) == RequiresOne /\ S \cap Plugins = {p}

(* SlotPeers, those of them that are enabled.                              *)
EnabledPeers(p, S) == IF SingleClaim THEN (S \cap Plugins) \ {p} ELSE {}

First(E) == {p \in E : \A e \in E : p <= e}

(* NormalizeSlots on what a preset wants.                                  *)
NormalizeSlots(E) ==
    IF SingleClaim /\ E # {} THEN First(E)
    ELSE IF RequiresOne /\ E = {} THEN {Default}
    ELSE E

Refused(r, S) == r.kind = "toggle" /\ r.want = {} /\ LockedOff(r.first, S)

(* The keys a request writes.                                              *)
Writes(r, S) ==
    CASE r.kind = "save" -> {0}
      [] r.kind = "preset" -> Plugins
      [] r.kind = "toggle" ->
             r.want \cup {r.first} \cup (IF r.want # {} THEN EnabledPeers(r.first, S) ELSE {})

(* Requests that have decided on a change of plugins.                      *)
Changing == {q \in Reqs : phase[q] \in {"write", "patch"} /\ req[q].kind # "save"}

(* With the settings S in hand, request q for r either ends or begins to   *)
(* write.                                                                  *)
Decide(q, r, S) ==
    IF r.kind = "look" \/ Refused(r, S)
    THEN /\ phase' = [phase EXCEPT ![q] = "idle"]
         /\ req' = [req EXCEPT ![q] = Idle]
         /\ UNCHANGED <<left, slotHistory>>
    ELSE /\ phase' = [phase EXCEPT ![q] = "write"]
         /\ req' = [req EXCEPT ![q] =
                      IF r.kind = "preset" THEN [r EXCEPT !.want = NormalizeSlots(@)] ELSE r]
         /\ left' = [left EXCEPT ![q] = Writes(r, S)]
         /\ overlapped' = (overlapped \/ (r.kind # "save" /\ Changing # {}))
         /\ alone' = IF r.kind = "preset" /\ Changing = {} THEN {q}
                     ELSE IF r.kind = "save" THEN alone ELSE {}
         /\ cutShort' = IF overlapped' THEN {} ELSE cutShort
         /\ UNCHANGED last

-----------------------------------------------------------------------------
(* SettingsService.                                                        *)

(* A request arrives and asks for the settings, unless it only saves; with *)
(* a cold cache it queries the table.                                      *)
Ask(q, r) ==
    /\ phase[q] = "idle"
    /\ IF r.kind = "save" \/ warm
          THEN Decide(q, r, cache) /\ UNCHANGED <<seen, stale>>
          ELSE /\ phase' = [phase EXCEPT ![q] = "install"]
               /\ req' = [req EXCEPT ![q] = r]
               /\ seen' = [seen EXCEPT ![q] = table]
               /\ stale' = [stale EXCEPT ![q] = {}]
               /\ UNCHANGED <<left, slotHistory>>
    /\ UNCHANGED <<stored, cached, overwritten, raced>>

(* Mutant: all keys are written in registry order.                         *)
NextKeyInOrder(q) == First(left[q])

(* The key a request writes next, TogglePlugin's own before its peers.     *)
NextKey(q) == IF req[q].first \in left[q] THEN {req[q].first} ELSE First(left[q])

(* A request that wrote k, and wrote it last, has yet to cache it.         *)
Uncached(k) == \E q \in Reqs : phase[q] = "patch" /\ NextKey(q) = {k} /\ ~overwritten[q]

(* Mutant: the map is cached whatever happened meanwhile.                  *)
InstallAlways(q) ==
    /\ phase[q] = "install"
    /\ warm' = TRUE
    /\ cache' = seen[q]
    /\ raced' = IF warm THEN raced ELSE {k \in stale[q] : ~Uncached(k)}
    /\ seen' = [seen EXCEPT ![q] = {}]
    /\ stale' = [stale EXCEPT ![q] = {}]
    /\ Decide(q, req[q], cache')
    /\ UNCHANGED <<stored, overwritten>>

(* The map is cached unless another one is by now.                         *)
Install(q) ==
    /\ phase[q] = "install"
    /\ warm' = TRUE
    /\ cache' = IF warm THEN cache ELSE seen[q]
    /\ raced' = IF warm THEN raced ELSE {k \in stale[q] : ~Uncached(k)}
    /\ seen' = [seen EXCEPT ![q] = {}]
    /\ stale' = [stale EXCEPT ![q] = {}]
    /\ Decide(q, req[q], cache')
    /\ UNCHANGED <<stored, overwritten>>

Put(S, k, on) == IF on THEN S \cup {k} ELSE S \ {k}

(* SetSetting, the row.                                                    *)
WriteRow(q, k) ==
    /\ phase[q] = "write"
    /\ NextKey(q) = {k}
    /\ table' = Put(table, k, k \in req[q].want)
    /\ phase' = [phase EXCEPT ![q] = "patch"]
    /\ stale' = [l \in Reqs |-> IF phase[l] = "install" THEN stale[l] \cup {k} ELSE stale[l]]
    /\ overwritten' = [l \in Reqs |->
                          l # q /\ (overwritten[l] \/ (phase[l] = "patch" /\ NextKey(l) = {k}))]
    /\ UNCHANGED <<label, cached, req, left, seen, raced, slotHistory>>

(* SetSetting, the cached map.                                             *)
PatchMap(q, k) ==
    /\ phase[q] = "patch"
    /\ NextKey(q) = {k}
    /\ cache' = IF warm THEN Put(cache, k, k \in req[q].want) ELSE cache
    /\ raced' = IF ~warm THEN raced
                ELSE IF ~overwritten[q] THEN raced \ {k}
                ELSE IF Uncached(k) THEN raced
                ELSE raced \cup {k}
    /\ overwritten' = [overwritten EXCEPT ![q] = FALSE]
    /\ left' = [left EXCEPT ![q] = @ \ {k}]
    /\ phase' = [phase EXCEPT ![q] = "write"]
    /\ UNCHANGED <<stored, warm, req, seen, stale, slotHistory>>

-----------------------------------------------------------------------------
(* The end of a request.                                                   *)

Ends(q) ==
    /\ phase' = [phase EXCEPT ![q] = "idle"]
    /\ req' = [req EXCEPT ![q] = Idle]
    /\ left' = [left EXCEPT ![q] = {}]

(* The last setting of a toggle or a preset says which preset is active.   *)
(* A preset applied alone leaves nothing of an earlier disorder.           *)
FinishRequest(q) ==
    /\ phase[q] = "write"
    /\ left[q] = {}
    /\ label' = CASE req[q].kind = "toggle" -> "custom"
                  [] req[q].kind = "preset" -> "preset"
                  [] OTHER -> label
    /\ last' = CASE req[q].kind = "toggle" -> {}
                 [] req[q].kind = "preset" -> req[q].want
                 [] OTHER -> last
    /\ overlapped' = (overlapped /\ q \notin alone)
    /\ cutShort' = IF q \in alone THEN {} ELSE cutShort
    /\ alone' = alone \ {q}
    /\ Ends(q)
    /\ UNCHANGED <<table, cached, seen, races>>

(* Nothing of the request is written yet.                                  *)
Untouched(q) ==
    CASE req[q].kind = "preset" -> left[q] = Plugins /\ phase[q] = "write"
      [] OTHER -> req[q].first \in left[q] /\ phase[q] = "write"

Cut(Q) ==
    IF overlapped THEN {}
    ELSE cutShort \cup {req[q].kind : q \in {c \in Q \cap Changing : ~Untouched(c)}}

(* SetSetting fails and the handler returns the error.                     *)
WriteFails(q) ==
    /\ phase[q] = "write"
    /\ cutShort' = Cut({q})
    /\ alone' = alone \ {q}
    /\ Ends(q)
    /\ UNCHANGED <<stored, cached, seen, races, overlapped, last>>

(* The process ends; its requests and its cache with it.                   *)
Restart ==
    /\ warm' = FALSE
    /\ cache' = {}
    /\ phase' = [q \in Reqs |-> "idle"]
    /\ req' = [q \in Reqs |-> Idle]
    /\ left' = [q \in Reqs |-> {}]
    /\ seen' = [q \in Reqs |-> {}]
    /\ stale' = [q \in Reqs |-> {}]
    /\ overwritten' = [q \in Reqs |-> FALSE]
    /\ raced' = {}
    /\ cutShort' = Cut(Reqs)
    /\ alone' = {}
    /\ UNCHANGED <<stored, overlapped, last>>

-----------------------------------------------------------------------------

Asked(r) ==
    /\ r.kind = "toggle" => r.want \subseteq {r.first}
    /\ r.kind = "look" => r = Idle

SlotNext ==
    \/ \E q \in Reqs, r \in Request : Asked(r) /\ Ask(q, r)
    \/ \E q \in Reqs : Install(q) \/ FinishRequest(q) \/ WriteFails(q)
    \/ \E q \in Reqs, k \in Keys : WriteRow(q, k) \/ PatchMap(q, k)
    \/ Restart

SlotSpec == SlotInit /\ [][SlotNext]_slotVars

-----------------------------------------------------------------------------
(* Properties.                                                             *)

(* settings_service.go:18-22: this process is the only writer, so that the *)
(* cached map is the table.  A warm cache has the value of every key but   *)
(* those whose last writer has yet to cache it and those that lost a race: *)
(* two writers that cached in the other order, or a cold load that read    *)
(* the table before a write and was cached after it.                       *)
CacheAgrees ==
    warm => \A k \in Keys : (k \in cache <=> k \in table) \/ k \in raced \/ Uncached(k)

Quiet == \A q \in Reqs : phase[q] = "idle"

(* registry.go:65-79.  When no request is under way, the enabled plugins   *)
(* obey the slot's rule, and a preset that is said to be active is what is *)
(* enabled, unless since the last preset that was applied alone two        *)
(* changes overlapped or one was cut short.                                *)
RuleKept ==
    (Quiet /\ ~overlapped /\ cutShort = {}) =>
        /\ Obeys(table \cap Plugins)
        /\ label = "preset" => table \cap Plugins = last

(* A slot that requires a claimant has one in the middle of a toggle and   *)
(* after a toggle that failed anywhere, for the new claimant is enabled    *)
(* before its peers are disabled.                                          *)
NeverEmpty ==
    (RequiresOne /\ ~overlapped /\ "preset" \notin cutShort
        /\ \A q \in Changing : req[q].kind = "toggle") => table \cap Plugins # {}

(* registry.go:65-79, plugins.go:129-147.                                  *)
SlotKept == RuleKept /\ NeverEmpty

=============================================================================
