----------------------------- MODULE KeymapSync -----------------------------
(***************************************************************************)
(* Keymap discovery and caching for one ZMK keyboard: what the callbacks   *)
(* that stratad installs on a device, its D-Bus keymap methods and its     *)
(* probe timer do to the device's status, its keymap in memory and the     *)
(* keymap files on disk, while query and report travel over the HID link.  *)
(*                                                                         *)
(* The payload of a report (layer names, behaviours, key codes) is         *)
(* abstracted to the firmware build that produced it, so that a keymap     *)
(* assembled from two builds, or with holes in it, can be told apart from  *)
(* a true one.                                                             *)
(***************************************************************************)
EXTENDS Integers, Sequences, FiniteSets

CONSTANTS
  Builds,        \* firmware builds the keyboard may run
  NoBuild,       \* the empty build id; in a keymap, "nothing stored here"
  MaxLayers,     \* bound on the layers of a build
  LayerCount,    \* layers of each build
  Keys,          \* keys per layer
  Sensors,       \* sensors (encoders) per layer
  MaxRetries,    \* retriesLeft of a new probe: 5 in the code
  Losable,       \* kinds of query whose exchange the link may lose
  Budget         \* how often the environment acts, by kind of act

BudgetKinds == {"plug", "flash", "loss", "disk", "event", "request"}

QueryKinds == {"CurrentLayer", "Summary", "LayerInfo", "Binding", "Sensor"}

ASSUME BuildsAssumption == NoBuild \notin Builds
ASSUME SizesAssumption ==
  /\ MaxLayers \in Nat \ {0} /\ Keys \in Nat \ {0} /\ Sensors \in Nat
  /\ LayerCount \in [Builds -> 1..MaxLayers]
ASSUME BoundsAssumption ==
  /\ MaxRetries \in Nat \ {0}
  /\ Losable \subseteq QueryKinds
  /\ Budget \in [BudgetKinds -> Nat]

VARIABLES
  fw,        \* build the keyboard runs
  linked,    \* the device is open, registered and has its callbacks
  status,    \* device_statuses[id]
  km,        \* device_keymaps[id]
  probe,     \* pending_probes[id].retriesLeft, 0 when there is no entry
  cache,     \* the .json file of each build
  toKbd,     \* queries written and not yet handled by the keyboard
  toHost,    \* reports not yet read by the daemon
  signal,    \* the keymap signal the last step emitted
  left       \* what is left of Budget

vars == <<fw, linked, status, km, probe, cache, toKbd, toHost, signal, left>>

-----------------------------------------------------------------------------
(* Data *)

Idx    == 0..(MaxLayers - 1)
Pos    == 0..(Keys - 1)
SenIdx == 0..(Sensors - 1)
Maybe  == Builds \cup {NoBuild}

\* KeymapData: header, layers, bindings and sensor bindings. A slot holds the
\* build its content came from. present is FALSE for "no map entry" and for
\* "no file".
Keymap == [present : BOOLEAN, build : Maybe, layerCount : 0..MaxLayers, keys : Nat,
           sensors : Nat, layers : [Idx -> Maybe],
           bindings : [Idx -> [Pos -> Maybe]],
           sensorBindings : [Idx -> [SenIdx -> Maybe]]]

NoLayers   == [i \in Idx |-> NoBuild]
NoBindings == [i \in Idx |-> [p \in Pos |-> NoBuild]]
NoSensors  == [i \in Idx |-> [s \in SenIdx |-> NoBuild]]

NoKeymap == [present |-> FALSE, build |-> NoBuild, layerCount |-> 0,
             keys |-> 0, sensors |-> 0, layers |-> NoLayers,
             bindings |-> NoBindings, sensorBindings |-> NoSensors]

Filled(f) == {i \in DOMAIN f : f[i] # NoBuild}

HasLayers(k)      == Filled(k.layers) # {}
NumLayers(k)      == Cardinality(Filled(k.layers))
HasBindings(k, l) == Filled(k.bindings[l]) # {}
HasSensors(k, l)  == Filled(k.sensorBindings[l]) # {}

\* Mutant of Cleared: the bindings survive.
ClearedKeepsBindings(k) == [k EXCEPT !.layers = NoLayers]

Cleared(k) == [k EXCEPT !.layers = NoLayers, !.bindings = NoBindings,
                        !.sensorBindings = NoSensors]

Status == [buildId : Maybe, cached : BOOLEAN, layersCount : Nat]
NewStatus == [buildId |-> NoBuild, cached |-> FALSE, layersCount |-> 0]

Query  == [kind : QueryKinds, layer : Idx, pos : Nat]
Report == [kind : QueryKinds, build : Builds, layer : Idx, pos : Nat]

Ask(kind, l, p) == [kind |-> kind, layer |-> l, pos |-> p]

AskCurrentAndSummary == <<Ask("CurrentLayer", 0, 0), Ask("Summary", 0, 0)>>

Signal == [kind : {"None", "KeymapLoaded", "LayerBindingsLoaded"},
           build : Maybe, source : {"", "cache", "device"},
           layer : Nat, count : Nat]

NoSignal == [kind |-> "None", build |-> NoBuild, source |-> "",
             layer |-> 0, count |-> 0]

KeymapLoaded(b, source, n) ==
  [NoSignal EXCEPT !.kind = "KeymapLoaded", !.build = b, !.source = source,
                   !.count = n]

LayerBindingsLoaded(l, n) ==
  [NoSignal EXCEPT !.kind = "LayerBindingsLoaded", !.layer = l, !.count = n]

-----------------------------------------------------------------------------
(* The keymap files *)

\* load: a file gives back everything but sensorsPerLayer, which it has no
\* field for.
Hit(c, b)  == c[b].present /\ HasLayers(c[b])
Load(c, b) == [c[b] EXCEPT !.sensors = 0]

\* save: the file is named after the keymap's own build; nothing is written
\* for a keymap without one.
Save(c, k) == IF k.build = NoBuild
              THEN c
              ELSE [c EXCEPT ![k.build] = [k EXCEPT !.present = TRUE, !.sensors = 0]]

\* update_bindings and update_sensor_bindings: read the file of build b, set
\* one list of it, save it under the build the file itself names.
UpdateBindings(c, b, l, list) ==
  IF b = NoBuild \/ ~c[b].present
  THEN c
  ELSE Save(c, [Load(c, b) EXCEPT !.bindings[l] = list])

UpdateSensors(c, b, l, list) ==
  IF b = NoBuild \/ ~c[b].present
  THEN c
  ELSE Save(c, [Load(c, b) EXCEPT !.sensorBindings[l] = list])

\* list_cached_builds: in directory order, so back() may be any of them.
CachedBuilds(c) == {b \in Builds : c[b].present}

\* A keymap and status after looking for the file of build b: hit is b when the
\* file gave a keymap with layers, NoBuild when it did not.
Found(c, b, st, k) ==
  IF b # NoBuild /\ Hit(c, b)
  THEN [hit |-> b, km |-> Load(c, b),
        st |-> [buildId |-> b, cached |-> TRUE, layersCount |-> NumLayers(c[b])]]
  ELSE [hit |-> NoBuild, km |-> k, st |-> st]

AnyCached(c, st, k) ==
  {Found(c, b, st, k) : b \in IF CachedBuilds(c) = {} THEN {NoBuild} ELSE CachedBuilds(c)}

\* What get_layers and get_keymap find for a device without layers: the file of
\* the status' build or, when that is empty, of some cached build.
Lookups(c, st, k) ==
  IF HasLayers(k) THEN {Found(c, NoBuild, st, k)}
  ELSE IF st.buildId # NoBuild THEN {Found(c, st.buildId, st, k)}
  ELSE AnyCached(c, st, k)

-----------------------------------------------------------------------------
(* Budgets, the link, and saving with or without a disk failure *)

Spend(kinds) ==
  /\ \A kind \in kinds : left[kind] > 0
  /\ left' = [kind \in BudgetKinds |->
               IF kind \in kinds THEN left[kind] - 1 ELSE left[kind]]

Send(queries) == toKbd' = toKbd \o queries

\* A change of the files that may fail: no caller looks at the result.
Write(c, spent) ==
  \/ cache' = c /\ Spend(spent)
  \/ c # cache /\ cache' = cache /\ Spend(spent \cup {"disk"})

Quiet == signal' = NoSignal

-----------------------------------------------------------------------------
(* Connection *)

\* onConnect: a fresh status; the keymap of some cached build is shown at once,
\* then the keyboard is asked for its current layer and its summary.
Connect ==
  /\ ~linked
  /\ Spend({"plug"})
  /\ linked' = TRUE
  /\ \E r \in AnyCached(cache, NewStatus, NoKeymap) :
       /\ km' = r.km
       /\ status' = r.st
       /\ signal' = IF r.hit = NoBuild THEN NoSignal
                    ELSE KeymapLoaded(r.hit, "cache", r.st.layersCount)
  /\ Send(AskCurrentAndSummary)
  /\ probe' = MaxRetries
  /\ UNCHANGED <<fw, cache, toHost>>

\* The keyboard is unplugged: onDisconnect forgets the device, and what was on
\* its link is gone with it.
Disconnect ==
  /\ linked
  /\ linked' = FALSE
  /\ probe' = 0
  /\ status' = NewStatus
  /\ km' = NoKeymap
  /\ toKbd' = <<>> /\ toHost' = <<>>
  /\ Quiet
  /\ UNCHANGED <<fw, cache, left>>

\* The keyboard comes back with another build (external).
Flash ==
  /\ ~linked
  /\ Spend({"flash"})
  /\ \E b \in Builds \ {fw} : fw' = b
  /\ toKbd' = <<>>
  /\ Quiet
  /\ UNCHANGED <<linked, status, km, probe, cache, toHost>>

-----------------------------------------------------------------------------
(* The keyboard (external): it answers queries in the order they come, stays *)
(* silent about a layer it does not have, and reports layer changes.         *)

Reply(q) == [kind |-> q.kind, build |-> fw, layer |-> q.layer, pos |-> q.pos]

Answers(q) == q.kind \in {"CurrentLayer", "Summary"} \/ q.layer < LayerCount[fw]

KeyboardAnswer ==
  /\ toKbd # <<>>
  /\ toKbd' = Tail(toKbd)
  /\ toHost' = IF linked /\ Answers(Head(toKbd))
               THEN Append(toHost, Reply(Head(toKbd))) ELSE toHost
  /\ Quiet
  /\ UNCHANGED <<fw, linked, status, km, probe, cache, left>>

LayerChange ==
  /\ linked
  /\ Spend({"event"})
  /\ toHost' = Append(toHost, Reply(Ask("CurrentLayer", 0, 0)))
  /\ Quiet
  /\ UNCHANGED <<fw, linked, status, km, probe, cache, toKbd>>

\* A query, or the report that answers it, is lost.
LoseExchange ==
  /\ toKbd # <<>>
  /\ Head(toKbd).kind \in Losable
  /\ Spend({"loss"})
  /\ toKbd' = Tail(toKbd)
  /\ Quiet
  /\ UNCHANGED <<fw, linked, status, km, probe, cache, toHost>>

-----------------------------------------------------------------------------
(* Reports, as the daemon handles them *)

Received(kind) ==
  /\ linked
  /\ toHost # <<>>
  /\ Head(toHost).kind = kind
  /\ toHost' = Tail(toHost)

\* onLayerState when the layers are known: only the status follows the report.
LayerStateKnown ==
  /\ Received("CurrentLayer")
  /\ HasLayers(km)
  /\ status' = [status EXCEPT !.buildId = Head(toHost).build]
  /\ Quiet
  /\ UNCHANGED <<fw, linked, km, probe, cache, toKbd, left>>

\* onLayerState without layers: the cached keymap of the build, if there is one.
LayerStateCached ==
  /\ Received("CurrentLayer")
  /\ ~HasLayers(km)
  /\ LET b == Head(toHost).build IN
       /\ Hit(cache, b)
       /\ km' = Load(cache, b)
       /\ status' = [buildId |-> b, cached |-> TRUE, layersCount |-> NumLayers(cache[b])]
       /\ signal' = KeymapLoaded(b, "cache", NumLayers(cache[b]))
  /\ probe' = 0
  /\ UNCHANGED <<fw, linked, cache, toKbd, left>>

\* Mutant of LayerStateUnknown: the first report ends the probe.
LayerStateEndsProbe ==
  /\ Received("CurrentLayer")
  /\ ~HasLayers(km)
  /\ ~Hit(cache, Head(toHost).build)
  /\ status' = [status EXCEPT !.buildId = Head(toHost).build]
  /\ Send(<<Ask("Summary", 0, 0)>>)
  /\ probe' = 0
  /\ Quiet
  /\ UNCHANGED <<fw, linked, km, cache, left>>

\* onLayerState without layers and without a cached keymap: ask for the summary.
LayerStateUnknown ==
  /\ Received("CurrentLayer")
  /\ ~HasLayers(km)
  /\ ~Hit(cache, Head(toHost).build)
  /\ status' = [status EXCEPT !.buildId = Head(toHost).build]
  /\ Send(<<Ask("Summary", 0, 0)>>)
  /\ Quiet
  /\ UNCHANGED <<fw, linked, km, probe, cache, left>>

\* Mutant of SummaryCached: the file is announced but not loaded.
SummaryOnlyAnnounced ==
  /\ Received("Summary")
  /\ LET b == Head(toHost).build IN
       /\ Hit(cache, b)
       /\ status' = [buildId |-> b, cached |-> TRUE, layersCount |-> LayerCount[b]]
       /\ signal' = KeymapLoaded(b, "cache", LayerCount[b])
  /\ probe' = 0
  /\ UNCHANGED <<fw, linked, km, cache, toKbd, left>>

\* onSummary of a cached build: the keymap becomes the file's.
SummaryCached ==
  /\ Received("Summary")
  /\ LET b == Head(toHost).build IN
       /\ Hit(cache, b)
       /\ km' = Load(cache, b)
       /\ status' = [buildId |-> b, cached |-> TRUE, layersCount |-> LayerCount[b]]
       /\ signal' = KeymapLoaded(b, "cache", LayerCount[b])
  /\ probe' = 0
  /\ UNCHANGED <<fw, linked, cache, toKbd, left>>

\* Mutant of Summarised: the old layers stay.
SummarisedKeepsLayers(k, b) ==
  [k EXCEPT !.present = TRUE, !.build = b, !.layerCount = LayerCount[b],
            !.keys = Keys, !.sensors = Sensors]

\* onSummary of any other build: start the discovery of its layers.
Summarised(k, b) ==
  [Cleared(k) EXCEPT !.present = TRUE, !.build = b, !.layerCount = LayerCount[b],
                     !.keys = Keys, !.sensors = Sensors]

\* Mutant of SummaryDiscover: the cache is not looked at.
SummaryAlwaysDiscovers ==
  /\ Received("Summary")
  /\ LET b == Head(toHost).build IN
       /\ km' = Summarised(km, b)
       /\ status' = [buildId |-> b, cached |-> FALSE, layersCount |-> LayerCount[b]]
  /\ probe' = 0
  /\ Send(<<Ask("LayerInfo", 0, 0)>>)
  /\ Quiet
  /\ UNCHANGED <<fw, linked, cache, left>>

SummaryDiscover ==
  /\ Received("Summary")
  /\ LET b == Head(toHost).build IN
       /\ ~Hit(cache, b)
       /\ km' = Summarised(km, b)
       /\ status' = [buildId |-> b, cached |-> FALSE, layersCount |-> LayerCount[b]]
  /\ probe' = 0
  /\ Send(<<Ask("LayerInfo", 0, 0)>>)
  /\ Quiet
  /\ UNCHANGED <<fw, linked, cache, left>>

WithLayer(k, m) == [k EXCEPT !.present = TRUE, !.layers[m.layer] = m.build]

\* onLayerInfo with layers still missing: ask for the next one, numbered by how
\* many there are.
LayerInfoNext ==
  /\ Received("LayerInfo")
  /\ LET k == WithLayer(km, Head(toHost)) IN
       /\ NumLayers(k) < k.layerCount
       /\ km' = k
       /\ Send(<<Ask("LayerInfo", NumLayers(k), 0)>>)
  /\ Quiet
  /\ UNCHANGED <<fw, linked, status, probe, cache, left>>

\* Mutant of LayerInfoDone: the last layer is not waited for.
LayerInfoDoneEarly ==
  /\ Received("LayerInfo")
  /\ LET k == WithLayer(km, Head(toHost)) IN
       /\ NumLayers(k) + 1 >= k.layerCount
       /\ km' = k
       /\ Write(Save(cache, k), {})
       /\ signal' = KeymapLoaded(k.build, "device", k.layerCount)
  /\ status' = [status EXCEPT !.cached = TRUE]
  /\ UNCHANGED <<fw, linked, probe, toKbd>>

\* onLayerInfo that completes the layers: the keymap is saved and announced.
LayerInfoDone ==
  /\ Received("LayerInfo")
  /\ LET k == WithLayer(km, Head(toHost)) IN
       /\ NumLayers(k) >= k.layerCount
       /\ km' = k
       /\ Write(Save(cache, k), {})
       /\ signal' = KeymapLoaded(k.build, "device", k.layerCount)
  /\ status' = [status EXCEPT !.cached = TRUE]
  /\ UNCHANGED <<fw, linked, probe, toKbd>>

WithBinding(k, m) ==
  [k EXCEPT !.present = TRUE, !.bindings[m.layer][m.pos] = m.build]

\* onBinding before the last key: ask for the next key.
BindingNext ==
  /\ Received("Binding")
  /\ LET m == Head(toHost) IN
       /\ m.pos + 1 < km.keys
       /\ km' = WithBinding(km, m)
       /\ Send(<<Ask("Binding", m.layer, m.pos + 1)>>)
  /\ Quiet
  /\ UNCHANGED <<fw, linked, status, probe, cache, left>>

\* onBinding of the last key: the list goes to the cache and is announced, and
\* the layer's sensors are asked for.
BindingDone ==
  /\ Received("Binding")
  /\ LET m == Head(toHost)
         k == WithBinding(km, m)
         list == k.bindings[m.layer] IN
       /\ m.pos + 1 >= km.keys
       /\ km' = k
       /\ Write(UpdateBindings(cache, status.buildId, m.layer, list), {})
       /\ Send(IF k.sensors > 0 THEN <<Ask("Sensor", m.layer, 0)>> ELSE <<>>)
       /\ signal' = LayerBindingsLoaded(m.layer, Cardinality(Filled(list)))
  /\ UNCHANGED <<fw, linked, status, probe>>

WithSensor(k, m) ==
  [k EXCEPT !.present = TRUE, !.sensorBindings[m.layer][m.pos] = m.build]

\* onSensorBinding before the last sensor: ask for the next one.
SensorNext ==
  /\ Received("Sensor")
  /\ LET m == Head(toHost) IN
       /\ m.pos + 1 < km.sensors
       /\ km' = WithSensor(km, m)
       /\ Send(<<Ask("Sensor", m.layer, m.pos + 1)>>)
  /\ Quiet
  /\ UNCHANGED <<fw, linked, status, probe, cache, left>>

\* Mutant of SensorDone: the last sensor is not waited for.
SensorDoneEarly ==
  /\ Received("Sensor")
  /\ LET m == Head(toHost)
         k == WithSensor(km, m) IN
       /\ m.pos + 2 >= km.sensors
       /\ km' = k
       /\ Write(UpdateSensors(cache, status.buildId, m.layer, k.sensorBindings[m.layer]), {})
  /\ Quiet
  /\ UNCHANGED <<fw, linked, status, probe, toKbd>>

\* onSensorBinding of the last sensor: the list goes to the cache.
SensorDone ==
  /\ Received("Sensor")
  /\ LET m == Head(toHost)
         k == WithSensor(km, m) IN
       /\ m.pos + 1 >= km.sensors
       /\ km' = k
       /\ Write(UpdateSensors(cache, status.buildId, m.layer, k.sensorBindings[m.layer]), {})
  /\ Quiet
  /\ UNCHANGED <<fw, linked, status, probe, toKbd>>

-----------------------------------------------------------------------------
(* The probe timer: queries again while no summary has come, a bounded number *)
(* of times.                                                                 *)

\* Mutant of ProbeRetry: the retries are not counted against their bound.
ProbeRetryUnbounded ==
  /\ linked
  /\ probe' = probe - 1
  /\ Send(AskCurrentAndSummary)
  /\ Quiet
  /\ UNCHANGED <<fw, linked, status, km, cache, toHost, left>>

ProbeRetry ==
  /\ linked
  /\ probe > 0
  /\ probe' = probe - 1
  /\ Send(AskCurrentAndSummary)
  /\ Quiet
  /\ UNCHANGED <<fw, linked, status, km, cache, toHost, left>>

-----------------------------------------------------------------------------
(* D-Bus methods of the device's Device1 and Keymap1 interfaces *)

\* get_status_for fills gaps of the status from the keymap in memory.
GetStatus ==
  /\ linked
  /\ HasLayers(km)
  /\ status' = [buildId |-> IF status.buildId = NoBuild THEN km.build ELSE status.buildId,
                cached |-> TRUE,
                layersCount |-> IF status.layersCount = 0 THEN NumLayers(km)
                                ELSE status.layersCount]
  /\ Quiet
  /\ UNCHANGED <<fw, linked, km, probe, cache, toKbd, toHost, left>>

GetLayers ==
  /\ linked
  /\ \E r \in Lookups(cache, status, km) : km' = r.km /\ status' = r.st
  /\ Quiet
  /\ UNCHANGED <<fw, linked, probe, cache, toKbd, toHost, left>>

\* The queries get_keymap writes for one layer of keymap k; for all layers
\* (layer 255) it writes none.
AllLayers == 255

Missing(k, l) ==
  IF l = AllLayers THEN <<>>
  ELSE (IF ~HasBindings(k, l) /\ k.keys > 0 THEN <<Ask("Binding", l, 0)>> ELSE <<>>)
       \o (IF k.sensors > 0 /\ ~HasSensors(k, l) THEN <<Ask("Sensor", l, 0)>> ELSE <<>>)

Wanted(k, l) == IF k.present THEN Missing(k, l) ELSE <<Ask("Summary", 0, 0)>>

Announced(r) == IF r.hit = NoBuild THEN NoSignal
                ELSE KeymapLoaded(r.hit, "cache", r.st.layersCount)

GetKeymap(l) ==
  /\ linked
  /\ \E r \in Lookups(cache, status, km) :
       /\ km' = r.km /\ status' = r.st
       /\ signal' = Announced(r)
       /\ Send(Wanted(r.km, l))
  /\ Spend({"request"})
  /\ UNCHANGED <<fw, linked, probe, cache, toHost>>

\* Mutant of Removed: every file of the keyboard's name goes.
RemovedAll(c, b) == [x \in Builds |-> NoKeymap]

\* remove: the file of build b.
Removed(c, b) == IF b = NoBuild THEN c ELSE [c EXCEPT ![b] = NoKeymap]

\* Mutant of Dropped: the header goes with the layers.
DroppedWithHeader(k) == [NoKeymap EXCEPT !.present = TRUE]

Dropped(k) == [Cleared(k) EXCEPT !.present = TRUE]

\* refresh_keymap: drop the file of the status' build and the layers in memory,
\* and ask for the summary.
RefreshKeymap ==
  /\ linked
  /\ Write(Removed(cache, status.buildId), {"request"})
  /\ km' = Dropped(km)
  /\ status' = [status EXCEPT !.cached = FALSE]
  /\ Send(<<Ask("Summary", 0, 0)>>)
  /\ Quiet
  /\ UNCHANGED <<fw, linked, probe, toHost>>

\* GetKeymap with its refresh argument set: refresh_keymap, then get_keymap.
RefreshAndGet(l) ==
  /\ linked
  /\ Write(Removed(cache, status.buildId), {"request"})
  /\ \E r \in Lookups(cache', [status EXCEPT !.cached = FALSE], Dropped(km)) :
       /\ km' = r.km /\ status' = r.st
       /\ signal' = Announced(r)
       /\ Send(<<Ask("Summary", 0, 0)>> \o Wanted(r.km, l))
  /\ UNCHANGED <<fw, linked, probe, toHost>>

\* clear: every file goes, except those that cannot be removed.
ClearCache ==
  /\ linked
  /\ \E kept \in SUBSET CachedBuilds(cache) :
       /\ cache' = [b \in Builds |-> IF b \in kept THEN cache[b] ELSE NoKeymap]
       /\ Spend(IF kept = {} THEN {} ELSE {"disk"})
  /\ Quiet
  /\ UNCHANGED <<fw, linked, status, km, probe, toKbd, toHost>>

-----------------------------------------------------------------------------
\* What an earlier run of the daemon has left on disk for a build: its layers.
Stored(b) ==
  [NoKeymap EXCEPT !.present = TRUE, !.build = b, !.layerCount = LayerCount[b],
                   !.keys = Keys,
                   !.layers = [i \in Idx |-> IF i < LayerCount[b] THEN b ELSE NoBuild]]

Init ==
  /\ fw \in Builds
  /\ linked = FALSE
  /\ status = NewStatus
  /\ km = NoKeymap
  /\ probe = 0
  /\ \E old \in SUBSET Builds :
       cache = [b \in Builds |-> IF b \in old THEN Stored(b) ELSE NoKeymap]
  /\ toKbd = <<>> /\ toHost = <<>>
  /\ signal = NoSignal
  /\ left = Budget

Handle ==
  \/ LayerStateKnown \/ LayerStateCached \/ LayerStateUnknown
  \/ SummaryCached \/ SummaryDiscover
  \/ LayerInfoNext \/ LayerInfoDone
  \/ BindingNext \/ BindingDone
  \/ SensorNext \/ SensorDone

Request ==
  \/ GetStatus \/ GetLayers \/ RefreshKeymap \/ ClearCache
  \/ \E l \in Idx \cup {AllLayers} : GetKeymap(l) \/ RefreshAndGet(l)

Environment == Flash \/ LayerChange \/ LoseExchange

Next == Connect \/ Disconnect \/ Handle \/ ProbeRetry \/ Request
        \/ KeyboardAnswer \/ Environment

Spec == Init /\ [][Next]_vars

\* The event loop polls the device and its timers in every iteration; that the
\* keyboard handles its queries is assumed.
Fairness == WF_vars(Handle) /\ WF_vars(ProbeRetry) /\ WF_vars(KeyboardAnswer)

FairSpec == Spec /\ Fairness

-----------------------------------------------------------------------------
(* Properties *)

\* The variables keep their types; a keymap slot never holds anything but the
\* content of some build.
TypeOK ==
  /\ fw \in Builds
  /\ linked \in BOOLEAN
  /\ status \in Status
  /\ km \in Keymap
  /\ probe \in 0..MaxRetries
  /\ cache \in [Builds -> Keymap]
  /\ toKbd \in Seq(Query)
  /\ toHost \in Seq(Report)
  /\ signal \in Signal
  /\ left \in [BudgetKinds -> Nat]

\* Keymap k is build b's: its header is, and it has exactly b's layers.
Whole(k, b) ==
  /\ k.present
  /\ k.build = b
  /\ k.layerCount = LayerCount[b]
  /\ \A i \in Idx : k.layers[i] = IF i < LayerCount[b] THEN b ELSE NoBuild

\* A keymap file holds the complete layer list of the build it is named after,
\* whatever is lost, retried or requested while the layers are discovered
\* (onSummary, onLayerInfo, save).
FilesWhole == \A b \in Builds : cache[b].present => Whole(cache[b], b)

\* A client that hears KeymapLoaded and then reads the keymap finds the whole
\* keymap of the announced build, with the announced number of layers.
LoadedIsWhole ==
  signal.kind = "KeymapLoaded" =>
    /\ signal.build \in Builds
    /\ Whole(km, signal.build)
    /\ signal.count = LayerCount[signal.build]

\* Why files are whole: the inductive invariant behind FilesWhole and
\* LoadedIsWhole. What memory holds is part of one build; while a LayerInfo is on
\* its way the daemon is at the keyboard's own build, in memory and in its
\* status; and every report comes from that keyboard.
PartOfOneBuild(k) ==
  \A i \in Idx : k.layers[i] # NoBuild =>
    /\ k.build \in Builds
    /\ k.layers[i] = k.build
    /\ i < LayerCount[k.build]

HeaderOfBuild(k) == k.build # NoBuild => k.layerCount = LayerCount[k.build]

Discovering == km.build = fw /\ status.buildId = fw

SoundQueries == {q \in Query : q.kind = "LayerInfo" => Discovering}

SoundReports ==
  {m \in Report : /\ m.build = fw
                  /\ m.kind = "LayerInfo" => Discovering /\ m.layer < LayerCount[fw]}

LinkSound ==
  /\ toKbd \in Seq(SoundQueries)
  /\ toHost \in Seq(SoundReports)
  /\ ~linked => toKbd = <<>> /\ toHost = <<>>

FilesInv ==
  /\ FilesWhole
  /\ PartOfOneBuild(km) /\ HeaderOfBuild(km)
  /\ LinkSound
  /\ LoadedIsWhole

\* When nothing is in flight and the probe timer is off, the daemon has the
\* keymap of the build the keyboard runs, and its status says so: no order of
\* reports, retries and requests leaves a connected keyboard half discovered.
SettledIsSynced ==
  linked /\ probe = 0 /\ toKbd = <<>> /\ toHost = <<>> =>
    /\ Whole(km, fw)
    /\ status = [buildId |-> fw, cached |-> TRUE, layersCount |-> LayerCount[fw]]

\* Bindings belong to the build of the keymap they are stored in, in memory and
\* on disk: those of another firmware are never mixed in.
OwnBindings(k) ==
  \A i \in Idx :
    /\ \A p \in Pos : k.bindings[i][p] \in {NoBuild, k.build}
    /\ \A s \in SenIdx : k.sensorBindings[i][s] \in {NoBuild, k.build}

BindingsOfOneBuild ==
  OwnBindings(km) /\ \A b \in Builds : OwnBindings(cache[b])

FullLayer(k, i) == \A p \in Pos : k.bindings[i][p] # NoBuild

\* When nothing is in flight, a layer whose bindings were read from a keyboard
\* with sensors has all its sensor bindings too: the chain of sensor queries
\* that the last key starts is not cut short by another discovery.
FetchedLayersHaveSensors ==
  linked /\ probe = 0 /\ toKbd = <<>> /\ toHost = <<>> /\ km.sensors > 0 =>
    \A i \in 0..(LayerCount[fw] - 1) :
      FullLayer(km, i) => \A s \in SenIdx : km.sensorBindings[i][s] # NoBuild

NoDiskFailure == left["disk"] = Budget["disk"]

\* As long as every change of the files has succeeded, a layer whose bindings a file
\* has completely stays complete while the file is not removed: no later discovery,
\* update or lost report writes a poorer list over it (onBinding, update_bindings).
\* A refresh whose remove failed would leave the file to the list of a chain that it
\* has cut short.
FilesKeepBindings ==
  [][NoDiskFailure =>
       \A b \in Builds, i \in Idx :
         cache'[b].present /\ FullLayer(cache[b], i) => FullLayer(cache'[b], i)]_vars

\* A connected keyboard is discovered, or it is unplugged first.
Discovered == linked ~> (Whole(km, fw) \/ ~linked)

\* LayerBindingsLoaded is "fired when all bindings for a layer have arrived".
LayerBindingsComplete ==
  signal.kind = "LayerBindingsLoaded" =>
    signal.count = Keys /\ FullLayer(km, signal.layer)
=============================================================================
