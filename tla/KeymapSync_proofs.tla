-------------------------- MODULE KeymapSync_proofs --------------------------
(***************************************************************************)
(* Proofs about KeymapSync for any builds, numbers of layers, keys and     *)
(* sensors, and any losses, retries, requests, disk failures and budgets:  *)
(* its types, and that every keymap file is whole and KeymapLoaded         *)
(* announces whole keymaps. The inductive invariant is FilesInv.           *)
(***************************************************************************)
EXTENDS KeymapSync, TLAPS, FiniteSetTheorems

-----------------------------------------------------------------------------
(* Types of the operators *)

LEMMA FilledFinite ==
  ASSUME NEW n \in Nat, NEW f \in [0..(n - 1) -> Maybe]
  PROVE  /\ IsFiniteSet(Filled(f))
         /\ Cardinality(Filled(f)) \in Nat
<1>1. IsFiniteSet(0..(n - 1))
  BY FS_Interval
<1>2. Filled(f) \subseteq 0..(n - 1)
  BY DEF Filled
<1>3. QED
  BY <1>1, <1>2, FS_Subset, FS_CardinalityType

LEMMA NumLayersType ==
  ASSUME NEW k \in Keymap
  PROVE  NumLayers(k) \in Nat
<1>1. MaxLayers \in Nat /\ k.layers \in [0..(MaxLayers - 1) -> Maybe]
  BY SizesAssumption DEF Keymap, Idx
<1>2. QED
  BY <1>1, FilledFinite DEF NumLayers

LEMMA NoKeymapType == NoKeymap \in Keymap
BY SizesAssumption DEF NoKeymap, Keymap, Maybe, NoLayers, NoBindings, NoSensors

LEMMA ClearedType ==
  ASSUME NEW k \in Keymap
  PROVE  Cleared(k) \in Keymap
BY DEF Cleared, Keymap, Maybe, NoLayers, NoBindings, NoSensors

LEMMA DroppedType ==
  ASSUME NEW k \in Keymap
  PROVE  Dropped(k) \in Keymap
BY ClearedType DEF Dropped, Keymap

LEMMA SummarisedType ==
  ASSUME NEW k \in Keymap, NEW b \in Builds
  PROVE  Summarised(k, b) \in Keymap
<1>1. Cleared(k) \in Keymap
  BY ClearedType
<1>2. LayerCount[b] \in 0..MaxLayers /\ Keys \in Nat /\ Sensors \in Nat
  BY SizesAssumption
<1>3. QED
  BY <1>1, <1>2 DEF Summarised, Keymap, Maybe

LEMMA LoadType ==
  ASSUME NEW c \in [Builds -> Keymap], NEW b \in Builds
  PROVE  Load(c, b) \in Keymap
BY DEF Load, Keymap

LEMMA SaveType ==
  ASSUME NEW c \in [Builds -> Keymap], NEW k \in Keymap
  PROVE  Save(c, k) \in [Builds -> Keymap]
<1>1. [k EXCEPT !.present = TRUE, !.sensors = 0] \in Keymap
  BY DEF Keymap
<1>2. QED
  BY <1>1 DEF Save

LEMMA WithLayerType ==
  ASSUME NEW k \in Keymap, NEW m \in Report
  PROVE  WithLayer(k, m) \in Keymap
BY DEF WithLayer, Keymap, Report, Maybe

LEMMA WithBindingType ==
  ASSUME NEW k \in Keymap, NEW m \in Report
  PROVE  WithBinding(k, m) \in Keymap
BY DEF WithBinding, Keymap, Report, Maybe

LEMMA WithSensorType ==
  ASSUME NEW k \in Keymap, NEW m \in Report
  PROVE  WithSensor(k, m) \in Keymap
BY DEF WithSensor, Keymap, Report, Maybe

LEMMA UpdateBindingsType ==
  ASSUME NEW c \in [Builds -> Keymap], NEW b \in Maybe, NEW l \in Idx,
         NEW list \in [Pos -> Maybe]
  PROVE  UpdateBindings(c, b, l, list) \in [Builds -> Keymap]
<1>1. CASE b = NoBuild
  BY <1>1 DEF UpdateBindings
<1>2. CASE b # NoBuild
  <2>1. Load(c, b) \in Keymap
    BY <1>2, LoadType DEF Maybe
  <2>2. [Load(c, b) EXCEPT !.bindings[l] = list] \in Keymap
    BY <2>1 DEF Keymap
  <2>3. QED
    BY <2>2, SaveType DEF UpdateBindings
<1>3. QED
  BY <1>1, <1>2

LEMMA UpdateSensorsType ==
  ASSUME NEW c \in [Builds -> Keymap], NEW b \in Maybe, NEW l \in Idx,
         NEW list \in [SenIdx -> Maybe]
  PROVE  UpdateSensors(c, b, l, list) \in [Builds -> Keymap]
<1>1. CASE b = NoBuild
  BY <1>1 DEF UpdateSensors
<1>2. CASE b # NoBuild
  <2>1. Load(c, b) \in Keymap
    BY <1>2, LoadType DEF Maybe
  <2>2. [Load(c, b) EXCEPT !.sensorBindings[l] = list] \in Keymap
    BY <2>1 DEF Keymap
  <2>3. QED
    BY <2>2, SaveType DEF UpdateSensors
<1>3. QED
  BY <1>1, <1>2

LEMMA RemovedType ==
  ASSUME NEW c \in [Builds -> Keymap], NEW b \in Maybe
  PROVE  Removed(c, b) \in [Builds -> Keymap]
BY NoKeymapType DEF Removed

FoundRecord == [hit : Maybe, km : Keymap, st : Status]

LEMMA FoundType ==
  ASSUME NEW c \in [Builds -> Keymap], NEW b \in Maybe, NEW st \in Status, NEW k \in Keymap
  PROVE  Found(c, b, st, k) \in FoundRecord
<1>1. CASE b # NoBuild /\ Hit(c, b)
  <2>1. b \in Builds /\ NumLayers(c[b]) \in Nat /\ Load(c, b) \in Keymap
    BY <1>1, NumLayersType, LoadType DEF Maybe
  <2>2. QED
    BY <1>1, <2>1 DEF Found, FoundRecord, Status, Maybe
<1>2. CASE ~(b # NoBuild /\ Hit(c, b))
  BY <1>2 DEF Found, FoundRecord, Maybe
<1>3. QED
  BY <1>1, <1>2

LEMMA AnyCachedType ==
  ASSUME NEW c \in [Builds -> Keymap], NEW st \in Status, NEW k \in Keymap,
         NEW r \in AnyCached(c, st, k)
  PROVE  r \in FoundRecord
BY FoundType DEF AnyCached, CachedBuilds, Maybe

LEMMA LookupsType ==
  ASSUME NEW c \in [Builds -> Keymap], NEW st \in Status, NEW k \in Keymap,
         NEW r \in Lookups(c, st, k)
  PROVE  r \in FoundRecord
<1>1. NoBuild \in Maybe /\ st.buildId \in Maybe
  BY DEF Status, Maybe
<1>2. CASE HasLayers(k)
  BY <1>1, <1>2, FoundType DEF Lookups
<1>3. CASE ~HasLayers(k) /\ st.buildId # NoBuild
  BY <1>1, <1>3, FoundType DEF Lookups
<1>4. CASE ~HasLayers(k) /\ st.buildId = NoBuild
  BY <1>4, AnyCachedType DEF Lookups
<1>5. QED
  BY <1>2, <1>3, <1>4

-----------------------------------------------------------------------------
(* Types of the steps' common parts *)

LEMMA SpendType ==
  ASSUME TypeOK, NEW kinds \in SUBSET BudgetKinds, Spend(kinds)
  PROVE  left' \in [BudgetKinds -> Nat]
BY DEF TypeOK, Spend

LEMMA WriteType ==
  ASSUME TypeOK, NEW c \in [Builds -> Keymap], NEW spent \in SUBSET BudgetKinds,
         Write(c, spent)
  PROVE  /\ cache' \in [Builds -> Keymap]
         /\ left' \in [BudgetKinds -> Nat]
<1>1. spent \cup {"disk"} \in SUBSET BudgetKinds
  BY DEF BudgetKinds
<1>2. CASE cache' = c /\ Spend(spent)
  BY <1>2, SpendType
<1>3. CASE cache' = cache /\ Spend(spent \cup {"disk"})
  BY <1>1, <1>3, SpendType DEF TypeOK
<1>4. QED
  BY <1>2, <1>3 DEF Write

LEMMA AskType ==
  ASSUME NEW kind \in QueryKinds, NEW l \in Idx, NEW p \in Nat
  PROVE  /\ Ask(kind, l, p) \in Query
         /\ <<Ask(kind, l, p)>> \in Seq(Query)
<1>1. Ask(kind, l, p) \in Query
  BY DEF Ask, Query
<1>2. QED
  BY <1>1

LEMMA AskCurrentAndSummaryType == AskCurrentAndSummary \in Seq(Query)
<1>1. 0 \in Idx
  BY SizesAssumption DEF Idx
<1>2. Ask("CurrentLayer", 0, 0) \in Query /\ Ask("Summary", 0, 0) \in Query
  BY <1>1 DEF Ask, Query, QueryKinds
<1>3. QED
  BY <1>2 DEF AskCurrentAndSummary

LEMMA SummaryType == <<Ask("Summary", 0, 0)>> \in Seq(Query)
<1>1. 0 \in Idx
  BY SizesAssumption DEF Idx
<1>2. QED
  BY <1>1, AskType DEF QueryKinds

LEMMA SendType ==
  ASSUME TypeOK, NEW queries \in Seq(Query), Send(queries)
  PROVE  toKbd' \in Seq(Query)
BY DEF TypeOK, Send

LEMMA WantedType ==
  ASSUME NEW k \in Keymap, NEW l \in Idx \cup {AllLayers}
  PROVE  Wanted(k, l) \in Seq(Query)
<1>1. CASE l = AllLayers
  BY <1>1, SummaryType DEF Wanted, Missing
<1>2. CASE l # AllLayers
  <2>1. <<Ask("Binding", l, 0)>> \in Seq(Query) /\ <<Ask("Sensor", l, 0)>> \in Seq(Query)
    BY <1>2, AskType DEF QueryKinds
  <2>2. Missing(k, l) \in Seq(Query)
    BY <1>2, <2>1 DEF Missing
  <2>3. QED
    BY <2>2, SummaryType DEF Wanted
<1>3. QED
  BY <1>1, <1>2

LEMMA ReceivedReport ==
  ASSUME TypeOK, NEW kind, Received(kind)
  PROVE  Head(toHost) \in Report /\ toHost' \in Seq(Report)
BY DEF TypeOK, Received

LEMMA NoSignalType == NoSignal \in Signal
BY DEF NoSignal, Signal, Maybe

LEMMA QuietType ==
  ASSUME Quiet
  PROVE  signal' \in Signal
BY NoSignalType DEF Quiet

LEMMA KeymapLoadedType ==
  ASSUME NEW b \in Maybe, NEW source \in {"cache", "device"}, NEW n \in Nat
  PROVE  KeymapLoaded(b, source, n) \in Signal
BY DEF KeymapLoaded, NoSignal, Signal, Maybe

LEMMA LayerBindingsLoadedType ==
  ASSUME NEW l \in Nat, NEW n \in Nat
  PROVE  LayerBindingsLoaded(l, n) \in Signal
BY DEF LayerBindingsLoaded, NoSignal, Signal, Maybe

\* What a reading of the cache gives a connecting device or a client.
LEMMA AnnouncedType ==
  ASSUME NEW r \in FoundRecord
  PROVE  Announced(r) \in Signal
BY NoSignalType, KeymapLoadedType DEF Announced, FoundRecord, Status

-----------------------------------------------------------------------------
(* Every step keeps the types *)

LEMMA ConnectionTypes ==
  ASSUME TypeOK, Connect \/ Disconnect \/ Flash
  PROVE  TypeOK'
<1> USE BoundsAssumption
<1>1. CASE Connect
  <2>1. PICK r \in AnyCached(cache, NewStatus, NoKeymap) :
           /\ km' = r.km /\ status' = r.st
           /\ signal' = IF r.hit = NoBuild THEN NoSignal
                        ELSE KeymapLoaded(r.hit, "cache", r.st.layersCount)
    BY <1>1 DEF Connect
  <2>2. NewStatus \in Status
    BY DEF NewStatus, Status, Maybe
  <2>3. r \in FoundRecord
    BY <2>1, <2>2, AnyCachedType, NoKeymapType DEF TypeOK
  <2>4. signal' \in Signal
    BY <2>1, <2>3, AnnouncedType DEF Announced
  <2>5. toKbd' \in Seq(Query)
    BY <1>1, AskCurrentAndSummaryType, SendType DEF Connect
  <2>6. left' \in [BudgetKinds -> Nat]
    BY <1>1, SpendType DEF Connect, BudgetKinds
  <2>7. QED
    BY <1>1, <2>1, <2>3, <2>4, <2>5, <2>6 DEF TypeOK, Connect, FoundRecord
<1>2. CASE Disconnect
  <2>1. NewStatus \in Status
    BY DEF NewStatus, Status, Maybe
  <2>2. signal' \in Signal
    BY <1>2, QuietType DEF Disconnect
  <2>3. probe' \in 0..MaxRetries
    BY <1>2 DEF Disconnect
  <2>4. toKbd' \in Seq(Query) /\ toHost' \in Seq(Report)
    BY <1>2 DEF Disconnect
  <2>5. QED
    BY <1>2, <2>1, <2>2, <2>3, <2>4, NoKeymapType DEF TypeOK, Disconnect
<1>3. CASE Flash
  <2>1. fw' \in Builds /\ toKbd' = <<>>
    BY <1>3 DEF Flash
  <2>2. left' \in [BudgetKinds -> Nat]
    BY <1>3, SpendType DEF Flash, BudgetKinds
  <2>3. QED
    BY <1>3, <2>1, <2>2, QuietType DEF TypeOK, Flash
<1>4. QED
  BY <1>1, <1>2, <1>3

LEMMA ReplyType ==
  ASSUME TypeOK, NEW q \in Query
  PROVE  Reply(q) \in Report
BY DEF TypeOK, Reply, Query, Report

LEMMA KeyboardTypes ==
  ASSUME TypeOK, KeyboardAnswer \/ LayerChange \/ LoseExchange \/ ProbeRetry
  PROVE  TypeOK'
<1> USE BoundsAssumption
<1>1. CASE KeyboardAnswer
  <2>1. Head(toKbd) \in Query /\ Tail(toKbd) \in Seq(Query)
    BY <1>1 DEF TypeOK, KeyboardAnswer
  <2>2. Reply(Head(toKbd)) \in Report
    BY <2>1, ReplyType
  <2>3. toHost' \in Seq(Report)
    BY <1>1, <2>2 DEF TypeOK, KeyboardAnswer
  <2>4. QED
    BY <1>1, <2>1, <2>3, QuietType DEF TypeOK, KeyboardAnswer
<1>2. CASE LayerChange
  <2>1. Reply(Ask("CurrentLayer", 0, 0)) \in Report
    BY AskType, ReplyType, SizesAssumption DEF QueryKinds, Idx
  <2>2. toHost' \in Seq(Report)
    BY <1>2, <2>1 DEF TypeOK, LayerChange
  <2>3. left' \in [BudgetKinds -> Nat]
    BY <1>2, SpendType DEF LayerChange, BudgetKinds
  <2>4. QED
    BY <1>2, <2>2, <2>3, QuietType DEF TypeOK, LayerChange
<1>3. CASE LoseExchange
  <2>1. toKbd' \in Seq(Query)
    BY <1>3 DEF TypeOK, LoseExchange
  <2>2. left' \in [BudgetKinds -> Nat]
    BY <1>3, SpendType DEF LoseExchange, BudgetKinds
  <2>3. QED
    BY <1>3, <2>1, <2>2, QuietType DEF TypeOK, LoseExchange
<1>4. CASE ProbeRetry
  <2>1. toKbd' \in Seq(Query)
    BY <1>4, AskCurrentAndSummaryType, SendType DEF ProbeRetry
  <2>2. probe' \in 0..MaxRetries
    BY <1>4 DEF TypeOK, ProbeRetry
  <2>3. QED
    BY <1>4, <2>1, <2>2, QuietType DEF TypeOK, ProbeRetry
<1>5. QED
  BY <1>1, <1>2, <1>3, <1>4

LEMMA HandleTypes ==
  ASSUME TypeOK, Handle
  PROVE  TypeOK'
<1> USE BoundsAssumption, SizesAssumption
<1> DEFINE m == Head(toHost)
<1>1. m \in Report /\ m.build \in Builds /\ m.layer \in Idx /\ m.pos \in Nat
  <2>1. m \in Report
    BY ReceivedReport DEF Handle, LayerStateKnown, LayerStateCached, LayerStateUnknown,
       SummaryCached, SummaryDiscover, LayerInfoNext, LayerInfoDone, BindingNext,
       BindingDone, SensorNext, SensorDone
  <2>2. QED
    BY <2>1 DEF Report
<1>2. toHost' \in Seq(Report)
  BY ReceivedReport DEF Handle, LayerStateKnown, LayerStateCached, LayerStateUnknown,
     SummaryCached, SummaryDiscover, LayerInfoNext, LayerInfoDone, BindingNext,
     BindingDone, SensorNext, SensorDone
<1> DEFINE kl == WithLayer(km, m)
           kb == WithBinding(km, m)
           ks == WithSensor(km, m)
<1>x. kl \in Keymap /\ kb \in Keymap /\ ks \in Keymap
  <2>1. km \in Keymap
    BY DEF TypeOK
  <2>2. QED
    BY <1>1, <2>1, WithLayerType, WithBindingType, WithSensorType
<1>3. CASE LayerStateKnown
  <2>1. status' \in Status
    BY <1>1, <1>3 DEF TypeOK, LayerStateKnown, Status, Maybe
  <2>2. QED
    BY <1>2, <1>3, <2>1, QuietType DEF TypeOK, LayerStateKnown
<1>4. CASE LayerStateCached
  <2>1. NumLayers(cache[m.build]) \in Nat
    BY <1>1, NumLayersType DEF TypeOK
  <2>2. km' \in Keymap /\ status' \in Status /\ signal' \in Signal
    BY <1>1, <1>4, <2>1, LoadType, KeymapLoadedType
    DEF TypeOK, LayerStateCached, Status, Maybe
  <2>3. QED
    BY <1>2, <1>4, <2>2 DEF TypeOK, LayerStateCached
<1>5. CASE LayerStateUnknown
  <2>1. status' \in Status
    BY <1>1, <1>5 DEF TypeOK, LayerStateUnknown, Status, Maybe
  <2>2. toKbd' \in Seq(Query)
    BY <1>5, SummaryType, SendType DEF LayerStateUnknown
  <2>3. QED
    BY <1>2, <1>5, <2>1, <2>2, QuietType DEF TypeOK, LayerStateUnknown
<1>6. CASE SummaryCached
  <2>1. LayerCount[m.build] \in Nat
    BY <1>1
  <2>2. km' \in Keymap /\ status' \in Status /\ signal' \in Signal
    BY <1>1, <1>6, <2>1, LoadType, KeymapLoadedType
    DEF TypeOK, SummaryCached, Status, Maybe
  <2>3. QED
    BY <1>2, <1>6, <2>2 DEF TypeOK, SummaryCached
<1>7. CASE SummaryDiscover
  <2>1. LayerCount[m.build] \in Nat
    BY <1>1
  <2>2. km' \in Keymap /\ status' \in Status
    BY <1>1, <1>7, <2>1, SummarisedType DEF TypeOK, SummaryDiscover, Status, Maybe
  <2>3. toKbd' \in Seq(Query)
    <3>1. <<Ask("LayerInfo", 0, 0)>> \in Seq(Query)
      BY AskType DEF QueryKinds, Idx
    <3>2. QED
      BY <1>7, <3>1, SendType DEF SummaryDiscover
  <2>4. QED
    BY <1>2, <1>7, <2>2, <2>3, QuietType DEF TypeOK, SummaryDiscover
<1>8. CASE LayerInfoNext
  <2>1. NumLayers(kl) \in Nat /\ NumLayers(kl) < kl.layerCount /\ kl.layerCount \in 0..MaxLayers
    BY <1>x, <1>8, NumLayersType DEF LayerInfoNext, Keymap
  <2>2. NumLayers(kl) \in Idx
    BY <2>1 DEF Idx
  <2>3. <<Ask("LayerInfo", NumLayers(kl), 0)>> \in Seq(Query)
    BY <2>2, AskType DEF QueryKinds
  <2>4. toKbd' \in Seq(Query) /\ km' \in Keymap
    BY <1>x, <1>8, <2>3, SendType DEF LayerInfoNext
  <2>5. QED
    BY <1>2, <1>8, <2>4, QuietType DEF TypeOK, LayerInfoNext
<1>9. CASE LayerInfoDone
  <2>1. kl.build \in Maybe /\ kl.layerCount \in Nat
    BY <1>x DEF Keymap
  <2>2. Save(cache, kl) \in [Builds -> Keymap]
    BY <1>x, SaveType DEF TypeOK
  <2>3. cache' \in [Builds -> Keymap] /\ left' \in [BudgetKinds -> Nat]
    BY <1>9, <2>2, WriteType DEF LayerInfoDone
  <2>4. status' \in Status /\ signal' \in Signal /\ km' \in Keymap
    BY <1>x, <1>9, <2>1, KeymapLoadedType DEF TypeOK, LayerInfoDone, Status
  <2>5. QED
    BY <1>2, <1>9, <2>3, <2>4 DEF TypeOK, LayerInfoDone
<1>10. CASE BindingNext
  <2>1. toKbd' \in Seq(Query)
    <3>1. <<Ask("Binding", m.layer, m.pos + 1)>> \in Seq(Query)
      BY <1>1, AskType DEF QueryKinds
    <3>2. QED
      BY <1>10, <3>1, SendType DEF BindingNext
  <2>2. QED
    BY <1>x, <1>2, <1>10, <2>1, QuietType DEF TypeOK, BindingNext
<1>11. CASE BindingDone
  <2> DEFINE list == kb.bindings[m.layer]
             c == UpdateBindings(cache, status.buildId, m.layer, list)
  <2>1. list \in [Pos -> Maybe]
    BY <1>1, <1>x DEF Keymap
  <2>2. status.buildId \in Maybe
    BY DEF TypeOK, Status
  <2>3. c \in [Builds -> Keymap]
    BY <1>1, <2>1, <2>2, UpdateBindingsType DEF TypeOK
  <2>4. cache' \in [Builds -> Keymap] /\ left' \in [BudgetKinds -> Nat]
    <3>1. Write(c, {})
      BY <1>11 DEF BindingDone
    <3>2. QED
      BY <2>3, <3>1, WriteType
  <2>5. toKbd' \in Seq(Query)
    <3>1. <<Ask("Sensor", m.layer, 0)>> \in Seq(Query)
      BY <1>1, AskType DEF QueryKinds
    <3>2. PICK queries \in {<<Ask("Sensor", m.layer, 0)>>, <<>>} : Send(queries)
      BY <1>11 DEF BindingDone
    <3>3. CASE queries = <<>>
      <4>1. queries \in Seq(Query)
        BY <3>3
      <4>2. QED
        BY <3>2, <4>1, SendType
    <3>4. CASE queries = <<Ask("Sensor", m.layer, 0)>>
      BY <3>1, <3>2, <3>4, SendType
    <3>5. QED
      BY <3>2, <3>3, <3>4
  <2>6. signal' \in Signal
    <3>1. Keys \in Nat /\ list \in [0..(Keys - 1) -> Maybe]
      BY <2>1 DEF Pos
    <3>x. Cardinality(Filled(list)) \in Nat /\ m.layer \in Nat
      BY <1>1, <3>1, FilledFinite DEF Idx
    <3>2. QED
      BY <1>11, <3>x, LayerBindingsLoadedType DEF BindingDone
  <2>7. km' = kb
    BY <1>11 DEF BindingDone
  <2>8. QED
    BY <1>x, <1>2, <1>11, <2>4, <2>5, <2>6, <2>7 DEF TypeOK, BindingDone
<1>12. CASE SensorNext
  <2>1. toKbd' \in Seq(Query)
    <3>1. <<Ask("Sensor", m.layer, m.pos + 1)>> \in Seq(Query)
      BY <1>1, AskType DEF QueryKinds
    <3>2. QED
      BY <1>12, <3>1, SendType DEF SensorNext
  <2>2. QED
    BY <1>x, <1>2, <1>12, <2>1, QuietType DEF TypeOK, SensorNext
<1>13. CASE SensorDone
  <2> DEFINE c == UpdateSensors(cache, status.buildId, m.layer, ks.sensorBindings[m.layer])
  <2>1. ks.sensorBindings[m.layer] \in [SenIdx -> Maybe]
    BY <1>1, <1>x DEF Keymap
  <2>2. status.buildId \in Maybe
    BY DEF TypeOK, Status
  <2>3. c \in [Builds -> Keymap]
    BY <1>1, <2>1, <2>2, UpdateSensorsType DEF TypeOK
  <2>4. Write(c, {}) /\ km' = ks
    BY <1>13 DEF SensorDone
  <2>5. cache' \in [Builds -> Keymap] /\ left' \in [BudgetKinds -> Nat]
    BY <2>3, <2>4, WriteType
  <2>6. QED
    BY <1>x, <1>2, <1>13, <2>4, <2>5, QuietType DEF TypeOK, SensorDone
<1>14. QED
  BY <1>3, <1>4, <1>5, <1>6, <1>7, <1>8, <1>9, <1>10, <1>11, <1>12, <1>13 DEF Handle

LEMMA RequestTypes ==
  ASSUME TypeOK, Request
  PROVE  TypeOK'
<1> USE BoundsAssumption
<1>1. km \in Keymap /\ status \in Status /\ cache \in [Builds -> Keymap]
  BY DEF TypeOK
<1>2. CASE GetStatus
  <2>1. NumLayers(km) \in Nat
    BY <1>1, NumLayersType
  <2>2. status' \in Status
    BY <1>1, <1>2, <2>1 DEF GetStatus, Status, Keymap
  <2>3. QED
    BY <1>2, <2>2, QuietType DEF TypeOK, GetStatus
<1>3. CASE GetLayers
  <2>1. km' \in Keymap /\ status' \in Status
    BY <1>1, <1>3, LookupsType DEF GetLayers, FoundRecord
  <2>2. QED
    BY <1>3, <2>1, QuietType DEF TypeOK, GetLayers
<1>4. ASSUME NEW l \in Idx \cup {AllLayers}, GetKeymap(l) PROVE TypeOK'
  <2>1. PICK r \in Lookups(cache, status, km) :
          /\ km' = r.km /\ status' = r.st
          /\ signal' = Announced(r)
          /\ Send(Wanted(r.km, l))
    BY <1>4 DEF GetKeymap
  <2>2. r \in FoundRecord
    BY <1>1, <2>1, LookupsType
  <2>3. km' \in Keymap /\ status' \in Status /\ signal' \in Signal
    BY <2>1, <2>2, AnnouncedType DEF FoundRecord
  <2>4. Wanted(r.km, l) \in Seq(Query)
    BY <2>2, WantedType DEF FoundRecord
  <2>5. toKbd' \in Seq(Query)
    BY <2>1, <2>4, SendType
  <2>6. left' \in [BudgetKinds -> Nat]
    BY <1>4, SpendType DEF GetKeymap, BudgetKinds
  <2>7. QED
    BY <1>4, <2>3, <2>5, <2>6 DEF TypeOK, GetKeymap
<1>5. Removed(cache, status.buildId) \in [Builds -> Keymap] /\ {"request"} \in SUBSET BudgetKinds
  BY <1>1, RemovedType DEF Status, BudgetKinds
<1>6. Dropped(km) \in Keymap /\ [status EXCEPT !.cached = FALSE] \in Status
  BY <1>1, DroppedType DEF Status
<1>7. CASE RefreshKeymap
  <2>1. cache' \in [Builds -> Keymap] /\ left' \in [BudgetKinds -> Nat]
    BY <1>5, <1>7, WriteType DEF RefreshKeymap
  <2>2. toKbd' \in Seq(Query)
    BY <1>7, SummaryType, SendType DEF RefreshKeymap
  <2>3. QED
    BY <1>6, <1>7, <2>1, <2>2, QuietType DEF TypeOK, RefreshKeymap
<1>8. ASSUME NEW l \in Idx \cup {AllLayers}, RefreshAndGet(l) PROVE TypeOK'
  <2>1. cache' \in [Builds -> Keymap] /\ left' \in [BudgetKinds -> Nat]
    BY <1>5, <1>8, WriteType DEF RefreshAndGet
  <2>2. PICK r \in Lookups(cache', [status EXCEPT !.cached = FALSE], Dropped(km)) :
          /\ km' = r.km /\ status' = r.st
          /\ signal' = Announced(r)
          /\ Send(<<Ask("Summary", 0, 0)>> \o Wanted(r.km, l))
    BY <1>8 DEF RefreshAndGet
  <2>3. r \in FoundRecord
    BY <1>6, <2>1, <2>2, LookupsType
  <2>4. km' \in Keymap /\ status' \in Status /\ signal' \in Signal
    BY <2>2, <2>3, AnnouncedType DEF FoundRecord
  <2>5. Wanted(r.km, l) \in Seq(Query)
    BY <2>3, WantedType DEF FoundRecord
  <2>6. <<Ask("Summary", 0, 0)>> \o Wanted(r.km, l) \in Seq(Query)
    BY <2>5, SummaryType
  <2>7. toKbd' \in Seq(Query)
    BY <2>2, <2>6, SendType
  <2>8. QED
    BY <1>8, <2>1, <2>4, <2>7 DEF TypeOK, RefreshAndGet
<1>9. CASE ClearCache
  <2>1. PICK kept \in SUBSET CachedBuilds(cache) :
          /\ cache' = [b \in Builds |-> IF b \in kept THEN cache[b] ELSE NoKeymap]
          /\ Spend(IF kept = {} THEN {} ELSE {"disk"})
    BY <1>9 DEF ClearCache
  <2>2. cache' \in [Builds -> Keymap]
    BY <1>1, <2>1, NoKeymapType
  <2>3. PICK kinds \in SUBSET BudgetKinds : Spend(kinds)
    BY <2>1 DEF BudgetKinds
  <2>4. left' \in [BudgetKinds -> Nat]
    BY <2>3, SpendType
  <2>5. QED
    BY <1>9, <2>2, <2>4, QuietType DEF TypeOK, ClearCache
<1>10. QED
  BY <1>2, <1>3, <1>4, <1>7, <1>8, <1>9 DEF Request

LEMMA InitTypes == Init => TypeOK
<1> USE BoundsAssumption, SizesAssumption
<1>1. ASSUME NEW b \in Builds PROVE Stored(b) \in Keymap
  <2>1. /\ LayerCount[b] \in 0..MaxLayers /\ Keys \in Nat /\ b \in Maybe
        /\ [i \in Idx |-> IF i < LayerCount[b] THEN b ELSE NoBuild] \in [Idx -> Maybe]
    BY DEF Maybe
  <2>2. QED
    BY <2>1, NoKeymapType DEF Stored, Keymap
<1>2. NewStatus \in Status
  BY DEF NewStatus, Status, Maybe
<1>3. SUFFICES ASSUME Init PROVE TypeOK
  OBVIOUS
<1>4. cache \in [Builds -> Keymap]
  BY <1>1, <1>3, NoKeymapType DEF Init
<1>5. toKbd \in Seq(Query) /\ toHost \in Seq(Report) /\ probe \in 0..MaxRetries
  BY <1>3 DEF Init
<1>6. QED
  BY <1>2, <1>3, <1>4, <1>5, NoKeymapType, NoSignalType DEF Init, TypeOK

LEMMA StepTypes ==
  ASSUME TypeOK, [Next]_vars
  PROVE  TypeOK'
<1>1. CASE UNCHANGED vars
  BY <1>1 DEF TypeOK, vars
<1>2. QED
  BY <1>1, ConnectionTypes, KeyboardTypes, HandleTypes, RequestTypes DEF Next, Environment

\* No step of the daemon, the link or the keyboard leaves the types; in
\* particular no query or report names a layer the arrays have no room for.
THEOREM TypeCorrect == Spec => []TypeOK
<1>1. TypeOK /\ [Next]_vars => TypeOK'
  BY StepTypes
<1>2. QED
  BY <1>1, InitTypes, PTL DEF Spec

-----------------------------------------------------------------------------
(* Every file is whole *)

AllWhole(c) == \A b \in Builds : c[b].present => Whole(c[b], b)

-----------------------------------------------------------------------------
(* Whole keymaps *)

\* The layers of a whole keymap are counted right, and they are of one build.
LEMMA WholeCount ==
  ASSUME NEW k \in Keymap, NEW b \in Builds, Whole(k, b)
  PROVE  /\ NumLayers(k) = LayerCount[b]
         /\ PartOfOneBuild(k) /\ HeaderOfBuild(k)
<1> USE SizesAssumption, BuildsAssumption
<1>1. LayerCount[b] \in 1..MaxLayers /\ k.layers \in [Idx -> Maybe]
  BY DEF Keymap
<1>2. Filled(k.layers) = 0..(LayerCount[b] - 1)
  BY <1>1 DEF Filled, Whole, Idx
<1>3. Cardinality(0..(LayerCount[b] - 1)) = LayerCount[b]
  BY <1>1, FS_Interval
<1>4. NumLayers(k) = LayerCount[b]
  BY <1>2, <1>3 DEF NumLayers
<1>5. PartOfOneBuild(k)
  BY DEF PartOfOneBuild, Whole
<1>6. HeaderOfBuild(k)
  BY DEF HeaderOfBuild, Whole
<1>7. QED
  BY <1>4, <1>5, <1>6

\* Layers of one build, as many as its header says, are all its layers: what
\* onLayerInfo relies on when it only compares two numbers.
LEMMA CompleteIsWhole ==
  ASSUME NEW k \in Keymap, NEW b \in Builds, k.present, k.build = b,
         PartOfOneBuild(k), HeaderOfBuild(k), NumLayers(k) >= k.layerCount
  PROVE  Whole(k, b)
<1> USE SizesAssumption, BuildsAssumption
<1> DEFINE S == 0..(LayerCount[b] - 1)
<1>1. LayerCount[b] \in 1..MaxLayers /\ k.layers \in [Idx -> Maybe]
  BY DEF Keymap
<1>2. k.layerCount = LayerCount[b]
  BY DEF HeaderOfBuild
<1>3. Filled(k.layers) \in SUBSET S
  BY <1>1 DEF Filled, PartOfOneBuild, Idx
<1>4. IsFiniteSet(S) /\ Cardinality(S) = LayerCount[b]
  BY <1>1, FS_Interval
<1>5. Cardinality(Filled(k.layers)) <= Cardinality(S)
  BY <1>3, <1>4, FS_Subset
<1>6. NumLayers(k) \in Nat /\ NumLayers(k) = Cardinality(Filled(k.layers))
  BY NumLayersType DEF NumLayers
<1>7. Cardinality(S) = Cardinality(Filled(k.layers))
  BY <1>1, <1>2, <1>4, <1>5, <1>6
<1>8. Filled(k.layers) = S
  BY <1>3, <1>4, <1>7, FS_Subset
<1>9. \A i \in Idx : k.layers[i] = IF i < LayerCount[b] THEN b ELSE NoBuild
  BY <1>1, <1>8 DEF Filled, PartOfOneBuild, Idx
<1>10. QED
  BY <1>2, <1>9 DEF Whole

\* Changing what is not the layers or their header leaves a keymap whole.
LEMMA SameLayersWhole ==
  ASSUME NEW k, NEW k2, NEW b, Whole(k, b), k2.present, k2.build = k.build,
         k2.layerCount = k.layerCount, k2.layers = k.layers
  PROVE  Whole(k2, b)
BY DEF Whole

-----------------------------------------------------------------------------
(* The files *)

LEMMA LoadWhole ==
  ASSUME NEW c \in [Builds -> Keymap], AllWhole(c), NEW b \in Builds, c[b].present
  PROVE  /\ Load(c, b) \in Keymap
         /\ Load(c, b).build = b
         /\ Whole(Load(c, b), b)
<1>1. Whole(c[b], b) /\ c[b] \in Keymap
  BY DEF AllWhole
<1>2. Load(c, b) \in Keymap /\ Load(c, b).present
  BY <1>1, LoadType DEF Load, Keymap
<1>3. /\ Load(c, b).build = c[b].build
      /\ Load(c, b).layerCount = c[b].layerCount
      /\ Load(c, b).layers = c[b].layers
  BY <1>1 DEF Load, Keymap
<1>4. Whole(Load(c, b), b)
  BY <1>1, <1>2, <1>3, SameLayersWhole
<1>5. QED
  BY <1>2, <1>4 DEF Whole

LEMMA SaveWhole ==
  ASSUME NEW c \in [Builds -> Keymap], AllWhole(c), NEW k \in Keymap, NEW b \in Builds,
         Whole(k, b)
  PROVE  AllWhole(Save(c, k))
<1> DEFINE file == [k EXCEPT !.present = TRUE, !.sensors = 0]
<1>1. k.build = b /\ b # NoBuild
  BY BuildsAssumption DEF Whole
<1>2. /\ file.present /\ file.build = k.build
      /\ file.layerCount = k.layerCount /\ file.layers = k.layers
  BY DEF Keymap
<1>3. Whole(file, b)
  BY <1>2, SameLayersWhole
<1>4. \A x \in Builds : Save(c, k)[x] = IF x = b THEN file ELSE c[x]
  BY <1>1 DEF Save
<1>5. QED
  BY <1>3, <1>4 DEF AllWhole

LEMMA UpdateBindingsWhole ==
  ASSUME NEW c \in [Builds -> Keymap], AllWhole(c), NEW b \in Maybe, NEW l \in Idx,
         NEW list \in [Pos -> Maybe]
  PROVE  AllWhole(UpdateBindings(c, b, l, list))
<1> DEFINE k == Load(c, b)
           k2 == [k EXCEPT !.bindings[l] = list]
<1>1. CASE b = NoBuild \/ ~c[b].present
  BY <1>1 DEF UpdateBindings
<1>2. CASE b # NoBuild /\ c[b].present
  <2>1. b \in Builds /\ k \in Keymap /\ Whole(k, b)
    BY <1>2, LoadWhole DEF Maybe
  <2>2. /\ k2 \in Keymap /\ k2.build = k.build /\ k2.present = k.present
        /\ k2.layerCount = k.layerCount /\ k2.layers = k.layers
    BY <2>1 DEF Keymap
  <2>3. k.present
    BY <2>1 DEF Whole
  <2>4. Whole(k2, b)
    BY <2>1, <2>2, <2>3, SameLayersWhole
  <2>5. UpdateBindings(c, b, l, list) = Save(c, k2)
    BY <1>2 DEF UpdateBindings
  <2>6. QED
    BY <2>1, <2>2, <2>4, <2>5, SaveWhole
<1>3. QED
  BY <1>1, <1>2

LEMMA UpdateSensorsWhole ==
  ASSUME NEW c \in [Builds -> Keymap], AllWhole(c), NEW b \in Maybe, NEW l \in Idx,
         NEW list \in [SenIdx -> Maybe]
  PROVE  AllWhole(UpdateSensors(c, b, l, list))
<1> DEFINE k == Load(c, b)
           k2 == [k EXCEPT !.sensorBindings[l] = list]
<1>1. CASE b = NoBuild \/ ~c[b].present
  BY <1>1 DEF UpdateSensors
<1>2. CASE b # NoBuild /\ c[b].present
  <2>1. b \in Builds /\ k \in Keymap /\ Whole(k, b)
    BY <1>2, LoadWhole DEF Maybe
  <2>2. /\ k2 \in Keymap /\ k2.build = k.build /\ k2.present = k.present
        /\ k2.layerCount = k.layerCount /\ k2.layers = k.layers
    BY <2>1 DEF Keymap
  <2>3. k.present
    BY <2>1 DEF Whole
  <2>4. Whole(k2, b)
    BY <2>1, <2>2, <2>3, SameLayersWhole
  <2>5. UpdateSensors(c, b, l, list) = Save(c, k2)
    BY <1>2 DEF UpdateSensors
  <2>6. QED
    BY <2>1, <2>2, <2>4, <2>5, SaveWhole
<1>3. QED
  BY <1>1, <1>2

LEMMA RemovedWhole ==
  ASSUME NEW c \in [Builds -> Keymap], AllWhole(c), NEW b \in Maybe
  PROVE  AllWhole(Removed(c, b))
BY DEF AllWhole, Removed, NoKeymap

LEMMA WriteWhole ==
  ASSUME AllWhole(cache), NEW c, AllWhole(c), NEW spent, Write(c, spent)
  PROVE  AllWhole(cache')
BY DEF Write

-----------------------------------------------------------------------------
(* What a lookup in the cache gives *)

SoundKeymap(k) == PartOfOneBuild(k) /\ HeaderOfBuild(k)

\* A result of a lookup is of one build; one from a file is whole and counted.
SoundFound(r) ==
  /\ SoundKeymap(r.km)
  /\ r.hit # NoBuild => /\ r.hit \in Builds
                        /\ Whole(r.km, r.hit)
                        /\ r.st.layersCount = LayerCount[r.hit]

LEMMA FoundSound ==
  ASSUME NEW c \in [Builds -> Keymap], AllWhole(c), NEW b \in Maybe, NEW st, NEW k,
         SoundKeymap(k)
  PROVE  SoundFound(Found(c, b, st, k))
<1>1. CASE b # NoBuild /\ Hit(c, b)
  <2>1. b \in Builds /\ c[b].present /\ c[b] \in Keymap
    BY <1>1 DEF Hit, Maybe
  <2>2. Load(c, b) \in Keymap /\ Whole(Load(c, b), b) /\ Whole(c[b], b)
    BY <2>1, LoadWhole DEF AllWhole
  <2>3. SoundKeymap(Load(c, b)) /\ NumLayers(c[b]) = LayerCount[b]
    BY <2>1, <2>2, WholeCount DEF SoundKeymap
  <2>4. QED
    BY <1>1, <2>1, <2>2, <2>3 DEF SoundFound, Found
<1>2. CASE ~(b # NoBuild /\ Hit(c, b))
  BY <1>2 DEF SoundFound, Found
<1>3. QED
  BY <1>1, <1>2

LEMMA AnyCachedSound ==
  ASSUME NEW c \in [Builds -> Keymap], AllWhole(c), NEW st, NEW k, SoundKeymap(k),
         NEW r \in AnyCached(c, st, k)
  PROVE  SoundFound(r)
BY FoundSound DEF AnyCached, CachedBuilds, Maybe

LEMMA LookupsSound ==
  ASSUME NEW c \in [Builds -> Keymap], AllWhole(c), NEW st \in Status, NEW k, SoundKeymap(k),
         NEW r \in Lookups(c, st, k)
  PROVE  SoundFound(r)
BY FoundSound, AnyCachedSound DEF Lookups, Status, Maybe

\* A lookup does not take a daemon that is at the keyboard's build away from it.
LEMMA LookupsStay ==
  ASSUME NEW c \in [Builds -> Keymap], AllWhole(c), NEW st \in Status, NEW k,
         NEW b \in Builds, k.build = b, st.buildId = b, NEW r \in Lookups(c, st, k)
  PROVE  r.km.build = b /\ r.st.buildId = b
<1>1. b # NoBuild
  BY BuildsAssumption
<1>2. CASE HasLayers(k)
  BY <1>2 DEF Lookups, Found
<1>3. CASE ~HasLayers(k)
  <2>1. r = Found(c, b, st, k)
    BY <1>1, <1>3 DEF Lookups
  <2>2. CASE Hit(c, b)
    <3>1. Load(c, b).build = b
      BY <2>2, LoadWhole DEF Hit
    <3>2. QED
      BY <1>1, <2>1, <2>2, <3>1 DEF Found
  <2>3. CASE ~Hit(c, b)
    BY <2>1, <2>3 DEF Found
  <2>4. QED
    BY <2>2, <2>3
<1>4. QED
  BY <1>2, <1>3

-----------------------------------------------------------------------------
(* The link and the signal *)

LEMMA SeqFacts ==
  ASSUME NEW S, NEW s \in Seq(S), NEW t \in Seq(S)
  PROVE  /\ s \o t \in Seq(S)
         /\ s # <<>> => Head(s) \in S /\ Tail(s) \in Seq(S)
OBVIOUS

LEMMA SoundGrows ==
  ASSUME fw' = fw, Discovering => Discovering'
  PROVE  /\ Seq(SoundQueries) \subseteq Seq(SoundQueries')
         /\ Seq(SoundReports) \subseteq Seq(SoundReports')
<1>1. SoundQueries \subseteq SoundQueries' /\ SoundReports \subseteq SoundReports'
  BY DEF SoundQueries, SoundReports
<1>2. QED
  BY <1>1

\* A step that takes at most one report and appends sound queries leaves the link
\* sound, when it does not take the daemon away from the keyboard's build.
LEMMA LinkStep ==
  ASSUME LinkSound, linked, linked', fw' = fw, Discovering => Discovering',
         NEW qs, qs \in Seq(SoundQueries'),
         toKbd' = toKbd \o qs \/ toKbd' = toKbd,
         toHost' = toHost \/ (toHost # <<>> /\ toHost' = Tail(toHost))
  PROVE  LinkSound'
<1>1. toKbd \in Seq(SoundQueries') /\ toHost \in Seq(SoundReports')
  BY SoundGrows DEF LinkSound
<1>2. toKbd' \in Seq(SoundQueries')
  BY <1>1, SeqFacts
<1>3. toHost' \in Seq(SoundReports')
  BY <1>1, SeqFacts
<1>4. QED
  BY <1>2, <1>3 DEF LinkSound

LEMMA OtherAsksSound ==
  ASSUME NEW q \in Query, q.kind # "LayerInfo"
  PROVE  q \in SoundQueries'
BY DEF SoundQueries

LEMMA SummarySound == <<Ask("Summary", 0, 0)>> \in Seq(SoundQueries')
<1>1. 0 \in Idx
  BY SizesAssumption DEF Idx
<1>2. Ask("Summary", 0, 0) \in Query /\ Ask("Summary", 0, 0).kind # "LayerInfo"
  BY <1>1, AskType DEF Ask, QueryKinds
<1>3. QED
  BY <1>2, OtherAsksSound

LEMMA AskCurrentAndSummarySound == AskCurrentAndSummary \in Seq(SoundQueries')
<1>1. 0 \in Idx
  BY SizesAssumption DEF Idx
<1>2. /\ Ask("CurrentLayer", 0, 0) \in Query /\ Ask("CurrentLayer", 0, 0).kind # "LayerInfo"
      /\ Ask("Summary", 0, 0) \in Query /\ Ask("Summary", 0, 0).kind # "LayerInfo"
  BY <1>1, AskType DEF Ask, QueryKinds
<1>3. QED
  BY <1>2, OtherAsksSound DEF AskCurrentAndSummary

LEMMA BindingSound ==
  ASSUME NEW l \in Idx, NEW p \in Nat
  PROVE  /\ <<Ask("Binding", l, p)>> \in Seq(SoundQueries')
         /\ <<Ask("Sensor", l, p)>> \in Seq(SoundQueries')
<1>1. /\ Ask("Binding", l, p) \in Query /\ Ask("Binding", l, p).kind # "LayerInfo"
      /\ Ask("Sensor", l, p) \in Query /\ Ask("Sensor", l, p).kind # "LayerInfo"
  BY AskType DEF Ask, QueryKinds
<1>2. QED
  BY <1>1, OtherAsksSound

LEMMA WantedSound ==
  ASSUME NEW k \in Keymap, NEW l \in Idx \cup {AllLayers}
  PROVE  Wanted(k, l) \in Seq(SoundQueries')
<1>1. CASE l = AllLayers
  BY <1>1, SummarySound DEF Wanted, Missing
<1>2. CASE l # AllLayers
  <2>1. <<Ask("Binding", l, 0)>> \in Seq(SoundQueries')
        /\ <<Ask("Sensor", l, 0)>> \in Seq(SoundQueries')
    BY <1>2, BindingSound
  <2>2. Missing(k, l) \in Seq(SoundQueries')
    <3> DEFINE b == IF ~HasBindings(k, l) /\ k.keys > 0
                    THEN <<Ask("Binding", l, 0)>> ELSE <<>>
               s == IF k.sensors > 0 /\ ~HasSensors(k, l)
                    THEN <<Ask("Sensor", l, 0)>> ELSE <<>>
    <3>1. b \in Seq(SoundQueries') /\ s \in Seq(SoundQueries')
      BY <2>1
    <3>2. Missing(k, l) = b \o s
      BY <1>2 DEF Missing
    <3> HIDE DEF b, s
    <3>3. QED
      BY <3>1, <3>2
  <2>3. QED
    BY <2>2, SummarySound DEF Wanted
<1>3. QED
  BY <1>1, <1>2

LEMMA QuietLoaded ==
  ASSUME Quiet
  PROVE  LoadedIsWhole'
BY DEF Quiet, NoSignal, LoadedIsWhole

LEMMA SignalLoaded ==
  ASSUME NEW b \in Builds, NEW source, signal' = KeymapLoaded(b, source, LayerCount[b]),
         Whole(km', b)
  PROVE  LoadedIsWhole'
<1>1. signal'.build = b /\ signal'.count = LayerCount[b]
  BY DEF KeymapLoaded, NoSignal
<1>2. QED
  BY <1>1 DEF LoadedIsWhole, Whole

LEMMA AnnouncedLoaded ==
  ASSUME NEW r, SoundFound(r), km' = r.km, signal' = Announced(r)
  PROVE  LoadedIsWhole'
<1>1. CASE r.hit = NoBuild
  BY <1>1, QuietLoaded DEF Announced, Quiet
<1>2. CASE r.hit # NoBuild
  BY <1>2, SignalLoaded DEF Announced, SoundFound
<1>3. QED
  BY <1>1, <1>2

\* The parts of the invariant, as the steps below establish them.
LEMMA FilesInvParts ==
  ASSUME AllWhole(cache'), SoundKeymap(km'), LinkSound', LoadedIsWhole'
  PROVE  FilesInv'
BY DEF FilesInv, FilesWhole, AllWhole, SoundKeymap, PartOfOneBuild, HeaderOfBuild, Whole

-----------------------------------------------------------------------------
(* Connection and the keyboard *)

LEMMA ConnectionFiles ==
  ASSUME TypeOK, FilesInv, Connect \/ Disconnect \/ Flash
  PROVE  FilesInv'
<1>0. /\ cache \in [Builds -> Keymap] /\ AllWhole(cache)
      /\ LinkSound /\ SoundKeymap(km) /\ LoadedIsWhole
  BY DEF TypeOK, FilesInv, FilesWhole, AllWhole, SoundKeymap
<1>1. CASE Connect
  <2>1. PICK r \in AnyCached(cache, NewStatus, NoKeymap) :
           /\ km' = r.km /\ status' = r.st
           /\ signal' = IF r.hit = NoBuild THEN NoSignal
                        ELSE KeymapLoaded(r.hit, "cache", r.st.layersCount)
    BY <1>1 DEF Connect
  <2>2. SoundKeymap(NoKeymap)
    BY DEF SoundKeymap, PartOfOneBuild, HeaderOfBuild, NoKeymap, NoLayers
  <2>3. SoundFound(r)
    BY <1>0, <2>1, <2>2, AnyCachedSound
  <2>4. LoadedIsWhole'
    BY <2>1, <2>3, AnnouncedLoaded DEF Announced
  <2>5. AllWhole(cache') /\ SoundKeymap(km')
    BY <1>0, <1>1, <2>1, <2>3 DEF Connect, SoundFound
  <2>6. toKbd = <<>> /\ toHost' = <<>> /\ linked' /\ toKbd' = AskCurrentAndSummary
    <3>1. toKbd = <<>> /\ toHost = <<>>
      BY <1>0, <1>1 DEF Connect, LinkSound
    <3>2. toKbd' = toKbd \o AskCurrentAndSummary /\ toHost' = toHost /\ linked'
      BY <1>1 DEF Connect, Send
    <3>3. QED
      BY <3>1, <3>2 DEF AskCurrentAndSummary
  <2>7. LinkSound'
    <3>1. toKbd' \in Seq(SoundQueries')
      BY <2>6, AskCurrentAndSummarySound
    <3>2. toHost' \in Seq(SoundReports')
      BY <2>6
    <3>3. QED
      BY <2>6, <3>1, <3>2 DEF LinkSound
  <2>8. QED
    BY <2>4, <2>5, <2>7, FilesInvParts
<1>2. CASE Disconnect
  <2>1. LinkSound'
    <3>1. toKbd' = <<>> /\ toHost' = <<>>
      BY <1>2 DEF Disconnect
    <3>2. toKbd' \in Seq(SoundQueries') /\ toHost' \in Seq(SoundReports')
      BY <3>1
    <3>3. QED
      BY <3>1, <3>2 DEF LinkSound
  <2>2. SoundKeymap(km')
    BY <1>2 DEF Disconnect, SoundKeymap, PartOfOneBuild, HeaderOfBuild, NoKeymap, NoLayers
  <2>3. AllWhole(cache') /\ LoadedIsWhole'
    BY <1>0, <1>2, QuietLoaded DEF Disconnect
  <2>4. QED
    BY <2>1, <2>2, <2>3, FilesInvParts
<1>3. CASE Flash
  <2>1. LinkSound'
    <3>1. toKbd' = <<>> /\ toHost' = <<>>
      BY <1>0, <1>3 DEF Flash, LinkSound
    <3>2. toKbd' \in Seq(SoundQueries') /\ toHost' \in Seq(SoundReports')
      BY <3>1
    <3>3. QED
      BY <3>1, <3>2 DEF LinkSound
  <2>2. SoundKeymap(km') /\ AllWhole(cache') /\ LoadedIsWhole'
    BY <1>0, <1>3, QuietLoaded DEF Flash
  <2>3. QED
    BY <2>1, <2>2, FilesInvParts
<1>4. QED
  BY <1>1, <1>2, <1>3

\* An answer comes from the keyboard's build, and only about its own layers.
LEMMA ReplySound ==
  ASSUME TypeOK, NEW q \in SoundQueries, Answers(q)
  PROVE  Reply(q) \in SoundReports
<1>1. q \in Query /\ Reply(q) \in Report
  BY ReplyType DEF SoundQueries
<1>2. Reply(q).build = fw /\ Reply(q).kind = q.kind /\ Reply(q).layer = q.layer
  BY DEF Reply
<1>3. q.kind = "LayerInfo" => Discovering /\ q.layer < LayerCount[fw]
  BY DEF SoundQueries, Answers
<1>4. QED
  BY <1>1, <1>2, <1>3 DEF SoundReports

LEMMA KeyboardFiles ==
  ASSUME TypeOK, FilesInv, KeyboardAnswer \/ LayerChange \/ LoseExchange \/ ProbeRetry
  PROVE  FilesInv'
<1>0. /\ LinkSound /\ SoundKeymap(km) /\ AllWhole(cache)
      /\ toKbd \in Seq(SoundQueries) /\ toHost \in Seq(SoundReports)
  BY DEF FilesInv, FilesWhole, AllWhole, SoundKeymap, LinkSound
<1>1. /\ fw' = fw /\ linked' = linked /\ status' = status /\ km' = km /\ cache' = cache
      /\ Quiet
  BY DEF KeyboardAnswer, LayerChange, LoseExchange, ProbeRetry
<1>2. SoundKeymap(km') /\ AllWhole(cache') /\ LoadedIsWhole'
  BY <1>0, <1>1, QuietLoaded
<1>3. Discovering' = Discovering
  BY <1>1 DEF Discovering
<1>4. SoundQueries' = SoundQueries /\ SoundReports' = SoundReports
  BY <1>1, <1>3 DEF SoundQueries, SoundReports
<1>5. linked' /\ toKbd' \in Seq(SoundQueries) /\ toHost' \in Seq(SoundReports)
  <2>1. CASE KeyboardAnswer
    <3>1. linked /\ Head(toKbd) \in SoundQueries
      BY <1>0, <2>1, SeqFacts DEF KeyboardAnswer, LinkSound
    <3>2. toKbd' \in Seq(SoundQueries)
      BY <1>0, <2>1, SeqFacts DEF KeyboardAnswer
    <3>3. Answers(Head(toKbd)) => Append(toHost, Reply(Head(toKbd))) \in Seq(SoundReports)
      BY <1>0, <3>1, ReplySound
    <3>4. QED
      BY <1>0, <1>1, <2>1, <3>1, <3>2, <3>3 DEF KeyboardAnswer
  <2>2. CASE LayerChange
    <3>1. Ask("CurrentLayer", 0, 0) \in SoundQueries /\ Answers(Ask("CurrentLayer", 0, 0))
      <4>1. 0 \in Idx
        BY SizesAssumption DEF Idx
      <4>2. Ask("CurrentLayer", 0, 0) \in Query
        BY <4>1, AskType DEF QueryKinds
      <4>3. QED
        BY <4>2 DEF Ask, SoundQueries, Answers
    <3>2. Append(toHost, Reply(Ask("CurrentLayer", 0, 0))) \in Seq(SoundReports)
      BY <1>0, <3>1, ReplySound
    <3>3. QED
      BY <1>0, <1>1, <2>2, <3>2 DEF LayerChange
  <2>3. CASE LoseExchange
    <3>1. linked /\ toKbd' \in Seq(SoundQueries)
      BY <1>0, <2>3, SeqFacts DEF LoseExchange, LinkSound
    <3>2. QED
      BY <1>0, <1>1, <2>3, <3>1 DEF LoseExchange
  <2>4. CASE ProbeRetry
    <3>1. AskCurrentAndSummary \in Seq(SoundQueries)
      BY <1>4, AskCurrentAndSummarySound
    <3>2. linked /\ toHost' = toHost /\ toKbd' = toKbd \o AskCurrentAndSummary
      BY <2>4 DEF ProbeRetry, Send
    <3>3. toKbd' \in Seq(SoundQueries)
      BY <1>0, <3>1, <3>2, SeqFacts
    <3>4. QED
      BY <1>0, <1>1, <3>2, <3>3
  <2>5. QED
    BY <2>1, <2>2, <2>3, <2>4
<1>6. LinkSound'
  BY <1>4, <1>5 DEF LinkSound
<1>7. QED
  BY <1>2, <1>6, FilesInvParts

-----------------------------------------------------------------------------
(* Reports *)

\* The report at the head of the link: from the keyboard's build and, when it is
\* about a layer's info, for a daemon that is at that build.
LEMMA HeadSound ==
  ASSUME TypeOK, LinkSound, NEW kind, Received(kind)
  PROVE  /\ Head(toHost) \in Report /\ Head(toHost).build = fw /\ Head(toHost).kind = kind
         /\ kind = "LayerInfo" => Discovering /\ Head(toHost).layer < LayerCount[fw]
<1>1. Head(toHost) \in SoundReports /\ Head(toHost).kind = kind
  BY SeqFacts DEF LinkSound, Received
<1>2. QED
  BY <1>1 DEF SoundReports

\* Handling one report leaves the link sound.
LEMMA HandledLink ==
  ASSUME LinkSound, NEW kind, Received(kind), linked' = linked, fw' = fw,
         Discovering => Discovering',
         NEW qs, qs \in Seq(SoundQueries'), toKbd' = toKbd \o qs \/ toKbd' = toKbd
  PROVE  LinkSound'
<1>1. linked /\ linked' /\ toHost # <<>> /\ toHost' = Tail(toHost)
  BY DEF Received
<1>2. QED
  BY <1>1, LinkStep

LEMMA LayerStateFiles ==
  ASSUME TypeOK, FilesInv, LayerStateKnown \/ LayerStateCached \/ LayerStateUnknown
  PROVE  FilesInv'
<1> DEFINE m == Head(toHost)
<1>0. /\ cache \in [Builds -> Keymap] /\ AllWhole(cache)
      /\ LinkSound /\ SoundKeymap(km)
  BY DEF TypeOK, FilesInv, FilesWhole, AllWhole, SoundKeymap
<1>1. /\ Received("CurrentLayer") /\ linked' = linked /\ fw' = fw /\ cache' = cache
  BY DEF LayerStateKnown, LayerStateCached, LayerStateUnknown
<1>2. m \in Report /\ m.build = fw /\ fw \in Builds /\ status \in Status
  BY <1>0, <1>1, HeadSound DEF TypeOK
<1>3. CASE LayerStateKnown
  <2>1. status'.buildId = fw
    BY <1>2, <1>3 DEF LayerStateKnown, Status
  <2>2. Discovering => Discovering'
    BY <1>1, <1>3, <2>1 DEF LayerStateKnown, Discovering
  <2>3. LinkSound'
    BY <1>0, <1>1, <1>3, <2>2, SummarySound, HandledLink DEF LayerStateKnown
  <2>4. SoundKeymap(km') /\ LoadedIsWhole' /\ AllWhole(cache')
    BY <1>0, <1>1, <1>3, QuietLoaded DEF LayerStateKnown
  <2>5. QED
    BY <2>3, <2>4, FilesInvParts
<1>4. CASE LayerStateCached
  <2>1. /\ Hit(cache, fw) /\ km' = Load(cache, fw) /\ status'.buildId = fw
        /\ signal' = KeymapLoaded(fw, "cache", NumLayers(cache[fw]))
        /\ toKbd' = toKbd
    BY <1>2, <1>4 DEF LayerStateCached
  <2>2. cache[fw] \in Keymap /\ cache[fw].present /\ Whole(cache[fw], fw)
    BY <1>0, <1>2, <2>1 DEF Hit, AllWhole
  <2>3. km' \in Keymap /\ km'.build = fw /\ Whole(km', fw)
    BY <1>0, <1>2, <2>1, <2>2, LoadWhole
  <2>4. NumLayers(cache[fw]) = LayerCount[fw] /\ SoundKeymap(km')
    BY <1>2, <2>2, <2>3, WholeCount DEF SoundKeymap
  <2>5. LoadedIsWhole'
    BY <1>2, <2>1, <2>3, <2>4, SignalLoaded
  <2>6. LinkSound'
    BY <1>0, <1>1, <2>1, <2>3, SummarySound, HandledLink DEF Discovering
  <2>7. QED
    BY <1>0, <1>1, <2>4, <2>5, <2>6, FilesInvParts
<1>5. CASE LayerStateUnknown
  <2>1. status'.buildId = fw
    BY <1>2, <1>5 DEF LayerStateUnknown, Status
  <2>2. Discovering => Discovering'
    BY <1>1, <1>5, <2>1 DEF LayerStateUnknown, Discovering
  <2>3. LinkSound'
    BY <1>0, <1>1, <1>5, <2>2, SummarySound, HandledLink DEF LayerStateUnknown, Send
  <2>4. SoundKeymap(km') /\ LoadedIsWhole' /\ AllWhole(cache')
    BY <1>0, <1>1, <1>5, QuietLoaded DEF LayerStateUnknown
  <2>5. QED
    BY <2>3, <2>4, FilesInvParts
<1>6. QED
  BY <1>3, <1>4, <1>5

LEMMA SummaryFiles ==
  ASSUME TypeOK, FilesInv, SummaryCached \/ SummaryDiscover
  PROVE  FilesInv'
<1> DEFINE m == Head(toHost)
<1>0. /\ cache \in [Builds -> Keymap] /\ AllWhole(cache) /\ km \in Keymap
      /\ LinkSound /\ SoundKeymap(km)
  BY DEF TypeOK, FilesInv, FilesWhole, AllWhole, SoundKeymap
<1>1. /\ Received("Summary") /\ linked' = linked /\ fw' = fw /\ cache' = cache
  BY DEF SummaryCached, SummaryDiscover
<1>2. m.build = fw /\ fw \in Builds
  BY <1>0, <1>1, HeadSound DEF TypeOK
<1>3. CASE SummaryCached
  <2>1. /\ Hit(cache, fw) /\ km' = Load(cache, fw) /\ status'.buildId = fw
        /\ signal' = KeymapLoaded(fw, "cache", LayerCount[fw])
        /\ toKbd' = toKbd
    BY <1>2, <1>3 DEF SummaryCached
  <2>2. km' \in Keymap /\ km'.build = fw /\ Whole(km', fw)
    BY <1>0, <1>2, <2>1, LoadWhole DEF Hit
  <2>3. SoundKeymap(km')
    BY <1>2, <2>2, WholeCount DEF SoundKeymap
  <2>4. LoadedIsWhole'
    BY <1>2, <2>1, <2>2, SignalLoaded
  <2>5. LinkSound'
    BY <1>0, <1>1, <2>1, <2>2, SummarySound, HandledLink DEF Discovering
  <2>6. QED
    BY <1>0, <1>1, <2>3, <2>4, <2>5, FilesInvParts
<1>4. CASE SummaryDiscover
  <2>1. /\ km' = Summarised(km, fw) /\ status'.buildId = fw
        /\ toKbd' = toKbd \o <<Ask("LayerInfo", 0, 0)>>
    BY <1>2, <1>4 DEF SummaryDiscover, Send
  <2>2. km'.build = fw /\ km'.layerCount = LayerCount[fw] /\ km'.layers = NoLayers
    BY <1>0, <2>1 DEF Summarised, Cleared, Keymap
  <2>3. SoundKeymap(km')
    BY <2>2 DEF SoundKeymap, PartOfOneBuild, HeaderOfBuild, NoLayers
  <2>4. Discovering'
    BY <1>1, <2>1, <2>2 DEF Discovering
  <2>5. <<Ask("LayerInfo", 0, 0)>> \in Seq(SoundQueries')
    <3>1. Ask("LayerInfo", 0, 0) \in Query
      BY SizesAssumption, AskType DEF Idx, QueryKinds
    <3>2. Ask("LayerInfo", 0, 0) \in SoundQueries'
      BY <2>4, <3>1 DEF SoundQueries
    <3>3. QED
      BY <3>2
  <2>6. LinkSound'
    BY <1>0, <1>1, <2>1, <2>4, <2>5, HandledLink
  <2>7. LoadedIsWhole'
    BY <1>4, QuietLoaded DEF SummaryDiscover
  <2>8. QED
    BY <1>0, <1>1, <2>3, <2>6, <2>7, FilesInvParts
<1>5. QED
  BY <1>3, <1>4

LEMMA LayerInfoFiles ==
  ASSUME TypeOK, FilesInv, LayerInfoNext \/ LayerInfoDone
  PROVE  FilesInv'
<1> DEFINE m == Head(toHost)
           k == WithLayer(km, m)
<1>0. /\ cache \in [Builds -> Keymap] /\ AllWhole(cache) /\ km \in Keymap
      /\ LinkSound /\ SoundKeymap(km) /\ fw \in Builds
  BY DEF TypeOK, FilesInv, FilesWhole, AllWhole, SoundKeymap
<1>1. Received("LayerInfo") /\ linked' = linked /\ fw' = fw /\ km' = k
  BY DEF LayerInfoNext, LayerInfoDone
<1>2. m \in Report /\ m.build = fw /\ m.layer < LayerCount[fw] /\ Discovering
  BY <1>0, <1>1, HeadSound
<1>3. k \in Keymap /\ k.present /\ k.build = fw /\ k.layerCount = km.layerCount
  <2>1. k \in Keymap
    BY <1>0, <1>2, WithLayerType
  <2>2. QED
    BY <1>0, <1>2, <2>1 DEF WithLayer, Discovering, Keymap
<1>4. m.layer \in Idx /\ km.layers \in [Idx -> Maybe] /\ km.build = fw
  BY <1>0, <1>2 DEF Report, Keymap, Discovering
<1>5. k.layers = [km.layers EXCEPT ![m.layer] = m.build]
  BY <1>0 DEF WithLayer, Keymap
<1>6. SoundKeymap(k)
  <2>1. PartOfOneBuild(k)
    BY <1>0, <1>2, <1>3, <1>4, <1>5 DEF SoundKeymap, PartOfOneBuild
  <2>2. HeaderOfBuild(k)
    BY <1>0, <1>3, <1>4 DEF SoundKeymap, HeaderOfBuild
  <2>3. QED
    BY <2>1, <2>2 DEF SoundKeymap
<1> HIDE DEF k
<1>7. status'.buildId = status.buildId
  BY DEF LayerInfoNext, LayerInfoDone, TypeOK, Status
<1>8. Discovering'
  BY <1>1, <1>2, <1>3, <1>7 DEF Discovering
<1>9. CASE LayerInfoNext
  <2>1. /\ NumLayers(k) < k.layerCount
        /\ toKbd' = toKbd \o <<Ask("LayerInfo", NumLayers(k), 0)>>
        /\ Quiet /\ cache' = cache
    BY <1>9 DEF LayerInfoNext, Send, k
  <2>2. NumLayers(k) \in Idx
    <3>1. NumLayers(k) \in Nat /\ k.layerCount \in 0..MaxLayers
      BY <1>3, NumLayersType DEF Keymap
    <3>2. QED
      BY <2>1, <3>1, SizesAssumption DEF Idx
  <2>3. <<Ask("LayerInfo", NumLayers(k), 0)>> \in Seq(SoundQueries')
    <3>1. Ask("LayerInfo", NumLayers(k), 0) \in Query
      BY <2>2, AskType DEF QueryKinds
    <3>2. Ask("LayerInfo", NumLayers(k), 0) \in SoundQueries'
      BY <1>8, <3>1 DEF SoundQueries
    <3>3. QED
      BY <3>2
  <2>4. LinkSound'
    BY <1>0, <1>1, <1>8, <2>1, <2>3, HandledLink
  <2>5. QED
    BY <1>0, <1>1, <1>6, <2>1, <2>4, QuietLoaded, FilesInvParts
<1>10. CASE LayerInfoDone
  <2>1. /\ NumLayers(k) >= k.layerCount
        /\ Write(Save(cache, k), {})
        /\ signal' = KeymapLoaded(k.build, "device", k.layerCount)
        /\ toKbd' = toKbd
    BY <1>10 DEF LayerInfoDone, k
  <2>2. Whole(k, fw)
    BY <1>0, <1>3, <1>6, <2>1, CompleteIsWhole DEF SoundKeymap
  <2>3. AllWhole(cache')
    BY <1>0, <1>3, <2>1, <2>2, SaveWhole, WriteWhole
  <2>4. LoadedIsWhole'
    BY <1>0, <1>1, <1>3, <2>1, <2>2, SignalLoaded DEF Whole
  <2>5. LinkSound'
    BY <1>0, <1>1, <1>8, <2>1, SummarySound, HandledLink
  <2>6. QED
    BY <1>1, <1>6, <2>3, <2>4, <2>5, FilesInvParts
<1>11. QED
  BY <1>9, <1>10

\* The key chain changes neither layers nor header, in memory or in a file.
LEMMA BindingFiles ==
  ASSUME TypeOK, FilesInv, BindingNext \/ BindingDone
  PROVE  FilesInv'
<1> DEFINE m == Head(toHost)
           k == WithBinding(km, m)
<1>0. /\ cache \in [Builds -> Keymap] /\ AllWhole(cache) /\ km \in Keymap
      /\ LinkSound /\ SoundKeymap(km) /\ status \in Status
  BY DEF TypeOK, FilesInv, FilesWhole, AllWhole, SoundKeymap
<1>1. /\ Received("Binding") /\ linked' = linked /\ fw' = fw /\ km' = k /\ status' = status
  BY DEF BindingNext, BindingDone
<1>2. m \in Report /\ m.layer \in Idx /\ m.pos \in Nat
  BY <1>0, <1>1, HeadSound DEF Report
<1>3. k \in Keymap /\ k.build = km.build /\ k.layerCount = km.layerCount /\ k.layers = km.layers
  BY <1>0, <1>2, WithBindingType DEF WithBinding, Keymap
<1>4. SoundKeymap(k)
  BY <1>0, <1>3 DEF SoundKeymap, PartOfOneBuild, HeaderOfBuild
<1> HIDE DEF k
<1>5. Discovering => Discovering'
  BY <1>1, <1>3 DEF Discovering
<1>6. CASE BindingNext
  <2>1. toKbd' = toKbd \o <<Ask("Binding", m.layer, m.pos + 1)>> /\ Quiet /\ cache' = cache
    BY <1>6 DEF BindingNext, Send
  <2>2. <<Ask("Binding", m.layer, m.pos + 1)>> \in Seq(SoundQueries')
    BY <1>2, BindingSound
  <2>3. LinkSound'
    BY <1>0, <1>1, <1>5, <2>1, <2>2, HandledLink
  <2>4. QED
    BY <1>0, <1>1, <1>4, <2>1, <2>3, QuietLoaded, FilesInvParts
<1>7. CASE BindingDone
  <2> DEFINE qs == IF k.sensors > 0 THEN <<Ask("Sensor", m.layer, 0)>> ELSE <<>>
             list == k.bindings[m.layer]
             c == UpdateBindings(cache, status.buildId, m.layer, list)
  <2>1. /\ Write(c, {}) /\ toKbd' = toKbd \o qs
        /\ signal' = LayerBindingsLoaded(m.layer, Cardinality(Filled(list)))
    BY <1>7 DEF BindingDone, Send, k
  <2>2. qs \in Seq(SoundQueries')
    BY <1>2, BindingSound
  <2>3. list \in [Pos -> Maybe] /\ status.buildId \in Maybe
    BY <1>0, <1>2, <1>3 DEF Keymap, Status
  <2>4. AllWhole(c)
    BY <1>0, <1>2, <2>3, UpdateBindingsWhole
  <2> HIDE DEF qs, list, c
  <2>5. AllWhole(cache')
    BY <1>0, <2>1, <2>4, WriteWhole
  <2>6. LinkSound'
    BY <1>0, <1>1, <1>5, <2>1, <2>2, HandledLink
  <2>7. LoadedIsWhole'
    BY <2>1 DEF LoadedIsWhole, LayerBindingsLoaded, NoSignal
  <2>8. QED
    BY <1>1, <1>4, <2>5, <2>6, <2>7, FilesInvParts
<1>8. QED
  BY <1>6, <1>7

LEMMA SensorFiles ==
  ASSUME TypeOK, FilesInv, SensorNext \/ SensorDone
  PROVE  FilesInv'
<1> DEFINE m == Head(toHost)
           k == WithSensor(km, m)
<1>0. /\ cache \in [Builds -> Keymap] /\ AllWhole(cache) /\ km \in Keymap
      /\ LinkSound /\ SoundKeymap(km) /\ status \in Status
  BY DEF TypeOK, FilesInv, FilesWhole, AllWhole, SoundKeymap
<1>1. /\ Received("Sensor") /\ linked' = linked /\ fw' = fw /\ km' = k /\ status' = status
      /\ Quiet
  BY DEF SensorNext, SensorDone
<1>2. m \in Report /\ m.layer \in Idx /\ m.pos \in Nat
  BY <1>0, <1>1, HeadSound DEF Report
<1>3. k \in Keymap /\ k.build = km.build /\ k.layerCount = km.layerCount /\ k.layers = km.layers
  BY <1>0, <1>2, WithSensorType DEF WithSensor, Keymap
<1>4. SoundKeymap(k) /\ LoadedIsWhole'
  BY <1>0, <1>1, <1>3, QuietLoaded DEF SoundKeymap, PartOfOneBuild, HeaderOfBuild
<1> HIDE DEF k
<1>5. Discovering => Discovering'
  BY <1>1, <1>3 DEF Discovering
<1>6. CASE SensorNext
  <2>1. toKbd' = toKbd \o <<Ask("Sensor", m.layer, m.pos + 1)>> /\ cache' = cache
    BY <1>6 DEF SensorNext, Send
  <2>2. <<Ask("Sensor", m.layer, m.pos + 1)>> \in Seq(SoundQueries')
    BY <1>2, BindingSound
  <2>3. LinkSound'
    BY <1>0, <1>1, <1>5, <2>1, <2>2, HandledLink
  <2>4. QED
    BY <1>0, <1>1, <1>4, <2>1, <2>3, FilesInvParts
<1>7. CASE SensorDone
  <2> DEFINE list == k.sensorBindings[m.layer]
             c == UpdateSensors(cache, status.buildId, m.layer, list)
  <2>1. Write(c, {}) /\ toKbd' = toKbd
    BY <1>7 DEF SensorDone, k
  <2>2. list \in [SenIdx -> Maybe] /\ status.buildId \in Maybe
    BY <1>0, <1>2, <1>3 DEF Keymap, Status
  <2>3. AllWhole(c)
    BY <1>0, <1>2, <2>2, UpdateSensorsWhole
  <2> HIDE DEF list, c
  <2>4. AllWhole(cache')
    BY <1>0, <2>1, <2>3, WriteWhole
  <2>5. LinkSound'
    BY <1>0, <1>1, <1>5, <2>1, SummarySound, HandledLink
  <2>6. QED
    BY <1>1, <1>4, <2>4, <2>5, FilesInvParts
<1>8. QED
  BY <1>6, <1>7

-----------------------------------------------------------------------------
(* Requests *)

LEMMA DroppedSound ==
  ASSUME NEW k \in Keymap, SoundKeymap(k)
  PROVE  SoundKeymap(Dropped(k)) /\ Dropped(k).build = k.build
<1>1. /\ Dropped(k).build = k.build /\ Dropped(k).layerCount = k.layerCount
      /\ Dropped(k).layers = NoLayers
  BY DEF Dropped, Cleared, Keymap
<1>2. QED
  BY <1>1 DEF SoundKeymap, PartOfOneBuild, HeaderOfBuild, NoLayers

\* A step that looks in the cache and asks the keyboard for what it lacks.
LEMMA LookupFiles ==
  ASSUME TypeOK, FilesInv, linked, linked', fw' = fw, toHost' = toHost,
         cache' \in [Builds -> Keymap], AllWhole(cache'),
         NEW st \in Status, st.buildId = status.buildId,
         NEW k \in Keymap, SoundKeymap(k), k.build = km.build,
         NEW r, r \in Lookups(cache', st, k), km' = r.km, status' = r.st,
         NEW qs, qs \in Seq(SoundQueries'), toKbd' = toKbd \o qs \/ toKbd' = toKbd,
         signal' = Announced(r) \/ Quiet
  PROVE  FilesInv'
<1>1. SoundFound(r)
  BY LookupsSound
<1>2. Discovering => Discovering'
  <2>1. ASSUME Discovering PROVE Discovering'
    <3>1. fw \in Builds /\ k.build = fw /\ st.buildId = fw
      BY <2>1 DEF TypeOK, Discovering
    <3>2. r.km.build = fw /\ r.st.buildId = fw
      BY <3>1, LookupsStay
    <3>3. QED
      BY <3>2 DEF Discovering
  <2>2. QED
    BY <2>1
<1>3. LinkSound'
  BY <1>2, LinkStep DEF FilesInv
<1>4. LoadedIsWhole'
  BY <1>1, AnnouncedLoaded, QuietLoaded
<1>5. SoundKeymap(km')
  BY <1>1 DEF SoundFound
<1>6. QED
  BY <1>3, <1>4, <1>5, FilesInvParts

LEMMA RequestFiles ==
  ASSUME TypeOK, TypeOK', FilesInv, Request
  PROVE  FilesInv'
<1>0. /\ cache \in [Builds -> Keymap] /\ AllWhole(cache) /\ km \in Keymap
      /\ cache' \in [Builds -> Keymap]
      /\ LinkSound /\ SoundKeymap(km) /\ status \in Status /\ status.buildId \in Maybe
  BY DEF TypeOK, FilesInv, FilesWhole, AllWhole, SoundKeymap, Status
<1>1. CASE GetStatus
  <2>1. /\ linked /\ linked' /\ fw' = fw /\ km' = km /\ cache' = cache /\ Quiet
        /\ toKbd' = toKbd /\ toHost' = toHost
    BY <1>1 DEF GetStatus
  <2>2. Discovering => Discovering'
    BY <1>1, <2>1, BuildsAssumption DEF GetStatus, Discovering, TypeOK
  <2>3. LinkSound'
    BY <1>0, <2>1, <2>2, SummarySound, LinkStep
  <2>4. QED
    BY <1>0, <2>1, <2>3, QuietLoaded, FilesInvParts
<1>2. CASE GetLayers
  <2>1. PICK r \in Lookups(cache, status, km) : km' = r.km /\ status' = r.st
    BY <1>2 DEF GetLayers
  <2>2. /\ linked /\ linked' /\ fw' = fw /\ cache' = cache /\ Quiet
        /\ toKbd' = toKbd /\ toHost' = toHost
    BY <1>2 DEF GetLayers
  <2>3. QED
    BY <1>0, <2>1, <2>2, SummarySound, LookupFiles
<1>3. CASE RefreshKeymap
  <2>1. /\ linked /\ linked' /\ fw' = fw /\ Quiet /\ toHost' = toHost
        /\ km' = Dropped(km) /\ status'.buildId = status.buildId
        /\ toKbd' = toKbd \o <<Ask("Summary", 0, 0)>>
        /\ Write(Removed(cache, status.buildId), {"request"})
    BY <1>0, <1>3 DEF RefreshKeymap, Send, Status
  <2>2. SoundKeymap(km') /\ km'.build = km.build
    BY <1>0, <2>1, DroppedSound
  <2>3. AllWhole(cache')
    BY <1>0, <2>1, RemovedWhole, WriteWhole
  <2>4. LinkSound'
    BY <1>0, <2>1, <2>2, SummarySound, LinkStep DEF Discovering
  <2>5. QED
    BY <2>1, <2>2, <2>3, <2>4, QuietLoaded, FilesInvParts
<1>4. CASE ClearCache
  <2>1. /\ linked /\ linked' /\ fw' = fw /\ km' = km /\ status' = status /\ Quiet
        /\ toKbd' = toKbd /\ toHost' = toHost
    BY <1>4 DEF ClearCache
  <2>2. AllWhole(cache')
    BY <1>0, <1>4 DEF ClearCache, AllWhole, NoKeymap
  <2>3. LinkSound'
    BY <1>0, <2>1, SummarySound, LinkStep DEF Discovering
  <2>4. QED
    BY <1>0, <2>1, <2>2, <2>3, QuietLoaded, FilesInvParts
<1>5. ASSUME NEW l \in Idx \cup {AllLayers}, GetKeymap(l)
      PROVE  FilesInv'
  <2>1. PICK r \in Lookups(cache, status, km) :
           /\ km' = r.km /\ status' = r.st /\ signal' = Announced(r)
           /\ toKbd' = toKbd \o Wanted(r.km, l)
    BY <1>5 DEF GetKeymap, Send
  <2>2. Wanted(r.km, l) \in Seq(SoundQueries')
    BY <1>0, <2>1, LookupsType, WantedSound DEF FoundRecord
  <2>3. linked /\ linked' /\ fw' = fw /\ cache' = cache /\ toHost' = toHost
    BY <1>5 DEF GetKeymap
  <2>4. QED
    BY <1>0, <2>1, <2>2, <2>3, LookupFiles
<1>6. ASSUME NEW l \in Idx \cup {AllLayers}, RefreshAndGet(l)
      PROVE  FilesInv'
  <2> DEFINE st == [status EXCEPT !.cached = FALSE]
             k == Dropped(km)
  <2>1. PICK r \in Lookups(cache', st, k) :
           /\ km' = r.km /\ status' = r.st /\ signal' = Announced(r)
           /\ toKbd' = toKbd \o (<<Ask("Summary", 0, 0)>> \o Wanted(r.km, l))
    BY <1>6 DEF RefreshAndGet, Send
  <2>2. k \in Keymap /\ SoundKeymap(k) /\ k.build = km.build
    BY <1>0, DroppedType, DroppedSound
  <2>3. st \in Status /\ st.buildId = status.buildId
    BY <1>0 DEF Status
  <2> HIDE DEF st, k
  <2>4. <<Ask("Summary", 0, 0)>> \o Wanted(r.km, l) \in Seq(SoundQueries')
    <3>1. Wanted(r.km, l) \in Seq(SoundQueries')
      BY <1>0, <2>1, <2>2, <2>3, LookupsType, WantedSound DEF FoundRecord
    <3>2. QED
      BY <3>1, SummarySound, SeqFacts
  <2>5. /\ linked /\ linked' /\ fw' = fw /\ toHost' = toHost
        /\ Write(Removed(cache, status.buildId), {"request"})
    BY <1>6 DEF RefreshAndGet
  <2>6. AllWhole(cache')
    BY <1>0, <2>5, RemovedWhole, WriteWhole
  <2>7. QED
    BY <1>0, <2>1, <2>2, <2>3, <2>4, <2>5, <2>6, LookupFiles
<1>7. QED
  BY <1>1, <1>2, <1>3, <1>4, <1>5, <1>6 DEF Request

-----------------------------------------------------------------------------
(* The theorems *)

LEMMA InitFiles == Init => FilesInv
<1> SUFFICES ASSUME Init PROVE FilesInv
  OBVIOUS
<1>1. FilesWhole
  <2>1. ASSUME NEW b \in Builds PROVE Whole(Stored(b), b)
    BY DEF Whole, Stored, NoKeymap
  <2>2. \A b \in Builds : cache[b] = Stored(b) \/ cache[b] = NoKeymap
    BY DEF Init
  <2>3. ~NoKeymap.present
    BY DEF NoKeymap
  <2>4. QED
    BY <2>1, <2>2, <2>3 DEF FilesWhole
<1>2. PartOfOneBuild(km) /\ HeaderOfBuild(km)
  BY DEF Init, PartOfOneBuild, HeaderOfBuild, NoKeymap, NoLayers
<1>3. LinkSound
  BY DEF Init, LinkSound
<1>4. LoadedIsWhole
  BY DEF Init, LoadedIsWhole, NoSignal
<1>5. QED
  BY <1>1, <1>2, <1>3, <1>4 DEF FilesInv

\* Every step of the specification keeps the files whole, the keymap in memory of
\* one build, and the link sound.
LEMMA StepFiles ==
  ASSUME TypeOK, TypeOK', FilesInv, [Next]_vars
  PROVE  FilesInv'
<1>1. CASE Connect \/ Disconnect \/ Flash
  BY <1>1, ConnectionFiles
<1>2. CASE KeyboardAnswer \/ LayerChange \/ LoseExchange \/ ProbeRetry
  BY <1>2, KeyboardFiles
<1>3. CASE Handle
  BY <1>3, LayerStateFiles, SummaryFiles, LayerInfoFiles, BindingFiles, SensorFiles DEF Handle
<1>4. CASE Request
  BY <1>4, RequestFiles
<1>5. CASE UNCHANGED vars
  BY <1>5 DEF vars, FilesInv, FilesWhole, PartOfOneBuild, HeaderOfBuild, LinkSound,
     LoadedIsWhole, SoundQueries, SoundReports, Discovering, Whole
<1>6. QED
  BY <1>1, <1>2, <1>3, <1>4, <1>5 DEF Next, Environment

\* The inductive invariant holds of every reachable state.
THEOREM FilesInvAlways == Spec => []FilesInv
<1>1. Init => FilesInv
  BY InitFiles
<1>2. TypeOK /\ TypeOK' /\ FilesInv /\ [Next]_vars => FilesInv'
  BY StepFiles
<1>3. Spec => []TypeOK
  BY TypeCorrect
<1>4. QED
  BY <1>1, <1>2, <1>3, PTL DEF Spec

\* Every keymap file always holds the complete layer list of the build it is named
\* after (KeymapCache::save as onLayerInfo uses it).
THEOREM FilesWholeAlways == Spec => []FilesWhole
<1>1. FilesInv => FilesWhole
  BY DEF FilesInv
<1>2. QED
  BY <1>1, FilesInvAlways, PTL

\* Whatever KeymapLoaded announces, from the cache or from the keyboard, is a whole
\* keymap of the announced build, with its number of layers.
THEOREM LoadedIsWholeAlways == Spec => []LoadedIsWhole
<1>1. FilesInv => LoadedIsWhole
  BY DEF FilesInv
<1>2. QED
  BY <1>1, FilesInvAlways, PTL
=============================================================================
