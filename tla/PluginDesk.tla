----------------------------- MODULE PluginDesk -----------------------------
(***************************************************************************)
(* The administrator's catalogue of plugins: pages/light/PluginsPage.ts    *)
(* with api/plugins.ts, and what a toggle does to core/pluginHost.ts, the  *)
(* manifest that the menus of this tab go by.  SettingsDrawer has the      *)
(* drawers of the page.                                                    *)
(*                                                                         *)
(* Requests of the page are served and answered in any order; one may fail *)
(* before it is served, and an answer may be lost.  PluginSlots has what   *)
(* happens in a handler: here a request is served at once.  The plugins    *)
(* compete for one slot, or only one of them has a slot; a preset stands   *)
(* for the three there are.  Left out: the map of the site, cards that are *)
(* folded, and the texts.                                                  *)
(***************************************************************************)
EXTENDS Integers, Sequences, SequencesExt, FiniteSets, FiniteSetsExt

CONSTANTS
    Plugins, \* number of plugins, in registry order
    MaxActs  \* bound: commands of the administrator, and requests that fail

VARIABLES
    rule, peers, \* the cardinality of the slot, and who competes for it
    onServer, presetHas, presetOn, \* enabled, the preset's plugins, and active
    desk,     \* the page
    rows,     \* enabled in state.plugins
    active,   \* state.activePreset
    ticks,    \* state.presets
    editing,  \* state.editingPreset is set
    waits,    \* state.pending
    manifest, \* ids in pluginHost
    calls,    \* requests on their way
    replies,  \* answers on theirs, in the order of service
    deskActs,
    (* history *)
    ticked,   \* the preset as the ticks led
    mishaps   \* what the page does not expect

deskVars == <<rule, peers, onServer, presetHas, presetOn, desk, rows, active, ticks, editing,
              waits, manifest, calls, replies, deskActs, ticked, mishaps>>
server == <<onServer, presetHas, presetOn>>
state == <<desk, rows, active, ticks, editing, waits>>

Plugin == 1..Plugins
Call == [kind : {"load", "toggle", "apply", "include"}, id : 0..Plugins, on : BOOLEAN,
         list : SUBSET Plugin, mine : BOOLEAN]
View == [rows : SUBSET Plugin, list : SUBSET Plugin, active : {"preset", "custom"}]

TypeOK ==
    /\ rule \in {"0+", "0-1", "1", "1+"}
    /\ {peers, onServer, presetHas, rows, ticks, waits, manifest, ticked} \subseteq SUBSET Plugin
    /\ presetOn \in {"preset", "custom"} /\ active \in {"preset", "custom"}
    /\ desk \in {"away", "loading", "ready", "error"} /\ editing \in BOOLEAN
    /\ calls \in Seq(Call)
    /\ replies \in Seq([call : Call, ok : BOOLEAN, view : View])
    /\ deskActs \in 0..MaxActs
    /\ mishaps \subseteq {"crossed", "lost", "left", "hasty", "switched", "applied"}

SingleClaim == rule \in {"0-1", "1"}
RequiresOne == rule \in {"1", "1+"}

Obeys(on) ==
    /\ SingleClaim => Cardinality(on \cap peers) <= 1
    /\ RequiresOne => on \cap peers # {}

Request(kind, p, on, list) ==
    [kind |-> kind, id |-> p, on |-> on, list |-> list, mine |-> TRUE]

Init ==
    /\ rule \in {"0+", "0-1", "1", "1+"} /\ peers \in {{1}, Plugin}
    /\ onServer \in {on \in SUBSET Plugin : Obeys(on)}
    /\ presetHas \in SUBSET Plugin /\ presetOn = "custom"
    /\ desk = "loading" /\ rows = {} /\ active = "custom" /\ ticks = {} /\ editing = FALSE
    /\ waits = {} /\ manifest = onServer
    /\ calls = <<Request("load", 0, FALSE, {})>> /\ replies = <<>>
    /\ deskActs = 0 /\ ticked = presetHas /\ mishaps = {}

-----------------------------------------------------------------------------
(* The page's rules.                                                       *)
Alternative(p) == SingleClaim /\ p \in peers /\ Cardinality(peers) > 1

(* _withLocks.                                                             *)
Locked(p, on) == RequiresOne /\ p \in peers /\ on \cap peers = {p}

(* _renderRowControls: what the pill or the radio of a row can be set to.  *)
Offered(p, on) ==
    /\ on = (p \notin rows)
    /\ IF Alternative(p) THEN on \/ rule = "0-1" ELSE ~Locked(p, rows)

(* Mutant: the peers of a plugin that is enabled stay as they were.        *)
MirroredAlone(p, on, old) == IF on THEN old \cup {p} ELSE old \ {p}

(* _handleToggle's mirror of the server's radio semantics.                 *)
Mirrored(p, on, old) ==
    IF ~on THEN old \ {p}
    ELSE {p} \cup (IF SingleClaim /\ p \in peers THEN old \ peers ELSE old)

(* Mutant: the pending map is taken from before the request.               *)
SettledAll(p) == {}

Settled(p) == waits \ {p}

(* _renderInclude: a box that is always on cannot be ticked.               *)
Forced(p) == RequiresOne /\ peers = {p}

-----------------------------------------------------------------------------
(* What the administrator does.                                            *)
Act == deskActs < MaxActs /\ deskActs' = deskActs + 1
Ready == desk = "ready"
Send(c) == calls' = Append(calls, c) /\ UNCHANGED replies

(* The two tell of the same thing, so that their order matters.            *)
Collide(c, d) ==
    \/ {"load", "apply"} \cap {c.kind, d.kind} # {} /\ {c.kind, d.kind} # {"apply", "include"}
    \/ c.kind = "include" /\ d.kind = "include"
    \/ c.kind = "toggle" /\ d.kind = "toggle" /\ (c.id = d.id \/ {c.id, d.id} \subseteq peers)

Toggle ==
    \E p \in Plugin, on \in BOOLEAN :
        /\ Act /\ Ready /\ ~editing /\ p \notin waits /\ Offered(p, on)
        /\ waits' = waits \cup {p}
        /\ Send(Request("toggle", p, on, {}))
        /\ UNCHANGED <<rule, peers, server, desk, rows, active, ticks, editing, manifest, ticked,
                       mishaps>>

(* _handlePresetPill.                                                      *)
Apply ==
    /\ Act /\ Ready /\ ~editing
    /\ Send(Request("apply", 0, TRUE, {}))
    /\ UNCHANGED <<rule, peers, server, state, manifest, ticked, mishaps>>

ToggleEdit ==
    /\ Act /\ Ready /\ editing' = ~editing
    /\ UNCHANGED <<rule, peers, server, desk, rows, active, ticks, waits, manifest, calls,
                   replies, ticked, mishaps>>

Underway(kind) ==
    \/ \E k \in DOMAIN calls : calls[k].kind = kind
    \/ \E k \in DOMAIN replies : replies[k].call.kind = kind

(* _handleInclude: the whole list, from what the page knows of it.         *)
Tick ==
    \E p \in Plugin :
        LET on == p \notin ticks
            With(list) == IF on THEN list \cup {p} ELSE list \ {p}
        IN  /\ Act /\ Ready /\ editing /\ ~Forced(p)
            /\ Send(Request("include", p, on, With(ticks)))
            /\ ticked' = With(ticked)
            /\ mishaps' = mishaps \cup (IF Underway("include") THEN {"hasty"} ELSE {})
            /\ UNCHANGED <<rule, peers, server, state, manifest>>

(* The page is unmounted; its answers find nothing to draw.                *)
Leave ==
    /\ Act /\ desk # "away" /\ desk' = "away"
    /\ rows' = {} /\ ticks' = {} /\ active' = "custom" /\ editing' = FALSE /\ waits' = {}
    /\ calls' = [k \in DOMAIN calls |-> [calls[k] EXCEPT !.mine = FALSE]]
    /\ replies' = [k \in DOMAIN replies |-> [replies[k] EXCEPT !.call.mine = FALSE]]
    /\ mishaps' = mishaps \cup (IF \E kind \in {"toggle", "apply", "include"} : Underway(kind)
                                THEN {"left"} ELSE {})
    /\ UNCHANGED <<rule, peers, server, manifest, ticked>>

Return ==
    /\ desk = "away" /\ desk' = "loading"
    /\ Send(Request("load", 0, FALSE, {}))
    /\ UNCHANGED <<rule, peers, server, rows, active, ticks, editing, waits, manifest, deskActs,
                   ticked, mishaps>>

-----------------------------------------------------------------------------
(* The server.                                                             *)

(* NormalizeSlots, whose default is the first in registry order.           *)
Normalized(list) ==
    LET claims == list \cap peers
    IN  IF SingleClaim /\ claims # {} THEN (list \ peers) \cup {Min(claims)}
        ELSE IF RequiresOne /\ claims = {} THEN list \cup {Min(peers)}
        ELSE list

(* TogglePlugin, ApplyPreset, UpdatePreset, GetPlugins and GetPresets.     *)
Serve ==
    \E k \in DOMAIN calls :
        LET c == calls[k]
            refused == c.kind = "toggle" /\ ~c.on /\ Locked(c.id, onServer)
        IN  /\ calls' = RemoveAt(calls, k)
            /\ onServer' = CASE refused -> onServer
                             [] c.kind = "apply" -> Normalized(presetHas)
                             [] c.kind = "toggle" /\ c.on /\ SingleClaim /\ c.id \in peers ->
                                    (onServer \ peers) \cup {c.id}
                             [] c.kind = "toggle" /\ c.on -> onServer \cup {c.id}
                             [] c.kind = "toggle" -> onServer \ {c.id}
                             [] OTHER -> onServer
            /\ presetHas' = IF c.kind = "include" THEN c.list ELSE presetHas
            /\ presetOn' = CASE c.kind = "apply" -> "preset"
                             [] c.kind = "toggle" /\ ~refused -> "custom"
                             [] OTHER -> presetOn
            /\ replies' = Append(replies,
                   [call |-> c, ok |-> ~refused,
                    view |-> [rows |-> onServer', list |-> presetHas', active |-> presetOn']])
            /\ UNCHANGED <<rule, peers, state, manifest, deskActs, ticked, mishaps>>

-----------------------------------------------------------------------------
(* Answers.                                                                *)

(* setState draws nothing on a page that is gone; pluginHost has no page.  *)
Taken(c, view) ==
    /\ CASE c.kind = "load" ->
                IF c.mine
                THEN /\ desk' = "ready" /\ rows' = view.rows /\ ticks' = view.list
                     /\ active' = view.active /\ UNCHANGED <<editing, waits>>
                ELSE UNCHANGED state
         [] c.kind = "toggle" ->
                IF c.mine
                THEN /\ rows' = Mirrored(c.id, c.on, rows) /\ waits' = Settled(c.id)
                     /\ active' = "custom" /\ UNCHANGED <<desk, ticks, editing>>
                ELSE UNCHANGED state
         [] c.kind = "apply" ->
                IF c.mine THEN rows' = view.rows /\ active' = "preset"
                               /\ UNCHANGED <<desk, ticks, editing, waits>>
                ELSE UNCHANGED state
         [] c.kind = "include" ->
                IF c.mine THEN ticks' = view.list
                               /\ UNCHANGED <<desk, rows, active, editing, waits>>
                ELSE UNCHANGED state
    /\ manifest' = IF c.kind = "toggle"
                   THEN IF c.on THEN manifest \cup {c.id} ELSE manifest \ {c.id}
                   ELSE manifest

(* A toggle that fails is taken back, a tick that fails is drawn away.     *)
Failed(c) ==
    /\ waits' = IF c.mine /\ c.kind = "toggle" THEN Settled(c.id) ELSE waits
    /\ desk' = IF c.mine /\ c.kind = "load" THEN "error" ELSE desk
    /\ UNCHANGED <<rows, active, ticks, editing, manifest>>

Answer ==
    \E k \in DOMAIN replies :
        LET c == replies[k].call
        IN  /\ replies' = RemoveAt(replies, k)
            /\ \/ /\ replies[k].ok /\ Taken(c, replies[k].view)
                  /\ mishaps' = mishaps
                         \cup (IF \E j \in 1..(k - 1) : Collide(c, replies[j].call)
                               THEN {"crossed"} ELSE {})
                         \cup (IF c.kind = "apply" THEN {"applied"} ELSE {})
                         \cup (IF c.kind = "toggle" /\ c.on /\ Alternative(c.id)
                               THEN {"switched"} ELSE {})
                  /\ UNCHANGED deskActs
               \/ ~replies[k].ok /\ Failed(c) /\ UNCHANGED <<deskActs, mishaps>>
               \/ /\ replies[k].ok /\ Act /\ Failed(c)
                  /\ mishaps' = mishaps \cup (IF c.kind = "load" THEN {} ELSE {"lost"})
            /\ UNCHANGED <<rule, peers, server, calls, ticked>>

(* A request that does not reach the server.                               *)
Drop ==
    \E k \in DOMAIN calls :
        LET c == calls[k]
        IN  /\ Act /\ calls' = RemoveAt(calls, k) /\ Failed(c)
            /\ ticked' = IF c.kind # "include" THEN ticked
                         ELSE IF c.on THEN ticked \ {c.id} ELSE ticked \cup {c.id}
            /\ UNCHANGED <<rule, peers, server, replies, mishaps>>

Next ==
    \/ Toggle \/ Apply \/ ToggleEdit \/ Tick \/ Leave \/ Return
    \/ Serve \/ Answer \/ Drop

(***************************************************************************)
(* Properties.                                                             *)
(***************************************************************************)
Rest == calls = <<>> /\ replies = <<>>

(* At rest the catalogue shows what is enabled and which preset is active, *)
(* although it computes both from its own copy: except where answers came  *)
(* in another order, or not, or a write was under way when it was loaded.  *)
RowsAreServers ==
    Rest /\ Ready =>
        \/ rows = onServer /\ active = presetOn
        \/ mishaps \cap {"crossed", "lost", "left"} # {}

(* At rest a preset holds what was ticked: ticks are lists of what the     *)
(* page knew, so that one sent before the last was answered undoes it.     *)
TicksAreKept ==
    Rest =>
        /\ presetHas = ticked \/ mishaps \cap {"hasty", "lost", "left"} # {}
        /\ Ready => ticks = presetHas \/ mishaps \cap {"crossed", "lost", "left"} # {}

(* A control is locked while its own request is under way, and no longer,  *)
(* whatever other requests do.                                             *)
LockedWhileUnderway ==
    waits = {c.id : c \in {c \in Range(calls) \cup {replies[k].call : k \in DOMAIN replies} :
                               c.kind = "toggle" /\ c.mine}}

(* The menus go by what is enabled, without a reload: but not for a plugin *)
(* that a peer has switched off, nor after a preset.                       *)
MenusFollow ==
    Rest =>
        \/ manifest = onServer
        \/ mishaps \cap {"switched", "applied", "crossed", "lost"} # {}

=============================================================================
