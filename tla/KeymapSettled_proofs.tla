------------------------ MODULE KeymapSettled_proofs ------------------------
(***************************************************************************)
(* What KeymapSync reaches once nothing is in flight, for any builds and   *)
(* budgets, and under the losses each theorem allows: the keyboard's own   *)
(* keymap (SyncInv), bindings of one build (BindInv), all the sensors of   *)
(* a fetched layer (SensorInv) and files that keep their bindings          *)
(* (KeepInv). Of those, KeymapRestart keeps the first, for a keyboard that *)
(* keeps its build and with it a whole file (HomeInv, SettleInv).          *)
(***************************************************************************)
EXTENDS KeymapSync_proofs, KeymapRestart

-----------------------------------------------------------------------------
(* What is on its way, whatever its order *)

Items(s) == {s[i] : i \in DOMAIN s}

LEMMA ItemsType ==
  ASSUME NEW S, NEW s \in Seq(S)
  PROVE  Items(s) \subseteq S
BY DEF Items

LEMMA ItemsConcat ==
  ASSUME NEW S, NEW s \in Seq(S), NEW t \in Seq(S)
  PROVE  Items(s \o t) = Items(s) \cup Items(t)
<1> DEFINE u == s \o t
<1>1. /\ DOMAIN s = 1..Len(s) /\ DOMAIN t = 1..Len(t) /\ DOMAIN u = 1..(Len(s) + Len(t))
      /\ Len(s) \in Nat /\ Len(t) \in Nat
      /\ \A i \in 1..(Len(s) + Len(t)) : u[i] = IF i <= Len(s) THEN s[i] ELSE t[i - Len(s)]
  OBVIOUS
<1> HIDE DEF u
<1>2. ASSUME NEW i \in DOMAIN s PROVE s[i] \in Items(u)
  <2>1. i \in DOMAIN u /\ u[i] = s[i]
    BY <1>1
  <2>2. QED
    BY <2>1 DEF Items
<1>3. ASSUME NEW i \in DOMAIN t PROVE t[i] \in Items(u)
  <2>1. i + Len(s) \in DOMAIN u /\ u[i + Len(s)] = t[i]
    BY <1>1
  <2>2. QED
    BY <2>1 DEF Items
<1>4. ASSUME NEW i \in DOMAIN u PROVE u[i] \in Items(s) \cup Items(t)
  <2>1. CASE i <= Len(s)
    BY <1>1, <2>1 DEF Items
  <2>2. CASE ~(i <= Len(s))
    <3>1. i - Len(s) \in DOMAIN t /\ u[i] = t[i - Len(s)]
      BY <1>1, <2>2
    <3>2. QED
      BY <3>1 DEF Items
  <2>3. QED
    BY <2>1, <2>2
<1>5. QED
  BY <1>2, <1>3, <1>4 DEF Items, u

LEMMA ItemsOne ==
  ASSUME NEW m
  PROVE  Items(<<m>>) = {m} /\ Items(<<>>) = {}
BY DEF Items

LEMMA ItemsTwo ==
  ASSUME NEW m, NEW n
  PROVE  Items(<<m, n>>) = {m, n}
<1>1. DOMAIN <<m, n>> = {1, 2} /\ <<m, n>>[1] = m /\ <<m, n>>[2] = n
  OBVIOUS
<1>2. QED
  BY <1>1 DEF Items

LEMMA ItemsAppend ==
  ASSUME NEW S, NEW s \in Seq(S), NEW m \in S
  PROVE  Items(Append(s, m)) = Items(s) \cup {m}
<1> DEFINE t == <<m>>
<1>1. Append(s, m) = s \o t /\ t \in Seq(S) /\ Items(t) = {m}
  BY ItemsOne
<1> HIDE DEF t
<1>2. QED
  BY <1>1, ItemsConcat

LEMMA ItemsTail ==
  ASSUME NEW S, NEW s \in Seq(S), s # <<>>
  PROVE  Items(s) = {Head(s)} \cup Items(Tail(s))
<1> DEFINE h == <<Head(s)>>
           t == Tail(s)
<1>1. s = h \o t /\ h \in Seq(S) /\ t \in Seq(S) /\ Items(h) = {Head(s)}
  BY ItemsOne
<1> HIDE DEF h, t
<1>2. Items(h \o t) = Items(h) \cup Items(t)
  BY <1>1, ItemsConcat
<1>3. QED
  BY <1>1, <1>2 DEF t

\* A report is handled and queries follow it.
LEMMA HandledItems ==
  ASSUME TypeOK, NEW kind, Received(kind), NEW qs \in Seq(Query),
         toKbd' = toKbd \o qs \/ (toKbd' = toKbd /\ qs = <<>>)
  PROVE  /\ Items(toHost) = {Head(toHost)} \cup Items(toHost')
         /\ Items(toKbd') = Items(toKbd) \cup Items(qs)
         /\ Head(toHost).kind = kind
<1>1. toHost \in Seq(Report) /\ toHost # <<>> /\ toHost' = Tail(toHost) /\ toKbd \in Seq(Query)
  BY DEF TypeOK, Received
<1>2. Items(toHost) = {Head(toHost)} \cup Items(toHost')
  BY <1>1, ItemsTail
<1>3. Items(toKbd') = Items(toKbd) \cup Items(qs)
  <2>1. CASE toKbd' = toKbd \o qs
    BY <1>1, <2>1, ItemsConcat
  <2>2. CASE toKbd' = toKbd /\ qs = <<>>
    BY <2>2, ItemsOne
  <2>3. QED
    BY <2>1, <2>2
<1>4. QED
  BY <1>2, <1>3 DEF Received

\* The keyboard handles a query: it goes, and its answer comes if there is one.
LEMMA AnsweredItems ==
  ASSUME TypeOK, KeyboardAnswer
  PROVE  /\ Head(toKbd) \in Query
         /\ Items(toKbd) = {Head(toKbd)} \cup Items(toKbd')
         /\ Items(toHost') = Items(toHost) \cup
              (IF linked /\ Answers(Head(toKbd)) THEN {Reply(Head(toKbd))} ELSE {})
<1>1. /\ toKbd \in Seq(Query) /\ toKbd # <<>> /\ toKbd' = Tail(toKbd) /\ toHost \in Seq(Report)
      /\ Head(toKbd) \in Query
  BY DEF TypeOK, KeyboardAnswer
<1>2. Items(toKbd) = {Head(toKbd)} \cup Items(toKbd')
  BY <1>1, ItemsTail
<1>3. Reply(Head(toKbd)) \in Report
  BY <1>1, ReplyType
<1>4. Items(Append(toHost, Reply(Head(toKbd)))) = Items(toHost) \cup {Reply(Head(toKbd))}
  BY <1>1, <1>3, ItemsAppend
<1>5. QED
  BY <1>1, <1>2, <1>4 DEF KeyboardAnswer

LEMMA ChangeItems ==
  ASSUME TypeOK, LayerChange
  PROVE  Items(toHost') = Items(toHost) \cup {Reply(Ask("CurrentLayer", 0, 0))}
<1>1. Ask("CurrentLayer", 0, 0) \in Query
  BY AskType, SizesAssumption DEF QueryKinds, Idx
<1>2. Reply(Ask("CurrentLayer", 0, 0)) \in Report
  BY <1>1, ReplyType
<1>3. QED
  BY <1>2, ItemsAppend DEF TypeOK, LayerChange

LEMMA LostItems ==
  ASSUME TypeOK, LoseExchange
  PROVE  /\ Items(toKbd) = {Head(toKbd)} \cup Items(toKbd')
         /\ Head(toKbd).kind \in Losable
BY ItemsTail DEF TypeOK, LoseExchange

LEMMA SentItems ==
  ASSUME TypeOK, NEW qs \in Seq(Query), Send(qs)
  PROVE  Items(toKbd') = Items(toKbd) \cup Items(qs)
BY ItemsConcat DEF TypeOK, Send

\* The kinds of what the steps ask for.
LEMMA AskedItems ==
  /\ Items(AskCurrentAndSummary) = {Ask("CurrentLayer", 0, 0), Ask("Summary", 0, 0)}
  /\ \A kind, l, p : Ask(kind, l, p).kind = kind /\ Ask(kind, l, p).layer = l
                     /\ Ask(kind, l, p).pos = p
  /\ \A q : Reply(q).kind = q.kind /\ Reply(q).layer = q.layer /\ Reply(q).pos = q.pos
<1>1. Items(AskCurrentAndSummary) = {Ask("CurrentLayer", 0, 0), Ask("Summary", 0, 0)}
  BY ItemsTwo DEF AskCurrentAndSummary
<1>2. QED
  BY <1>1 DEF Ask, Reply

\* A client's request asks for a summary, or for the first binding or the first
\* sensor of one layer.
LEMMA WantedItems ==
  ASSUME NEW k \in Keymap, NEW l \in Idx \cup {AllLayers}, NEW q \in Items(Wanted(k, l))
  PROVE  \/ q = Ask("Summary", 0, 0)
         \/ /\ k.present /\ l \in Idx /\ q = Ask("Binding", l, 0)
            /\ ~HasBindings(k, l) /\ k.keys > 0
         \/ /\ k.present /\ l \in Idx /\ q = Ask("Sensor", l, 0)
            /\ ~HasSensors(k, l) /\ k.sensors > 0
<1> DEFINE b == IF ~HasBindings(k, l) /\ k.keys > 0 THEN <<Ask("Binding", l, 0)>> ELSE <<>>
           s == IF k.sensors > 0 /\ ~HasSensors(k, l) THEN <<Ask("Sensor", l, 0)>> ELSE <<>>
<1>1. CASE ~k.present
  BY <1>1, ItemsOne DEF Wanted
<1>2. CASE k.present /\ l = AllLayers
  BY <1>2, ItemsOne DEF Wanted, Missing
<1>3. CASE k.present /\ l # AllLayers
  <2>1. l \in Idx
    BY <1>3
  <2>2. b \in Seq(Query) /\ s \in Seq(Query)
    BY <2>1, AskType DEF QueryKinds
  <2>3. Wanted(k, l) = b \o s
    BY <1>3 DEF Wanted, Missing
  <2>4. /\ q \in Items(b) => q = Ask("Binding", l, 0) /\ ~HasBindings(k, l) /\ k.keys > 0
        /\ q \in Items(s) => q = Ask("Sensor", l, 0) /\ ~HasSensors(k, l) /\ k.sensors > 0
    BY ItemsOne
  <2> HIDE DEF b, s
  <2>5. Items(Wanted(k, l)) = Items(b) \cup Items(s)
    BY <2>2, <2>3, ItemsConcat
  <2>6. QED
    BY <1>3, <2>1, <2>4, <2>5
<1>4. QED
  BY <1>1, <1>2, <1>3

-----------------------------------------------------------------------------
(* The daemon has the keyboard's keymap when nothing is in flight *)

Has(s, kind) == \E m \in Items(s) : m.kind = kind

Flying(kind) == Has(toHost, kind) \/ Has(toKbd, kind)

\* While a connected daemon does not have the keymap, the probe timer runs, or the
\* summary or a layer of it is on its way.
Pending == probe > 0 \/ Flying("Summary") \/ Flying("LayerInfo")

SyncedTo(k, st, b) ==
  Whole(k, b) /\ st = [buildId |-> b, cached |-> TRUE, layersCount |-> LayerCount[b]]

Synced == SyncedTo(km, status, fw)

AskedLayersExist == \A q \in Items(toKbd) : q.kind = "LayerInfo" => q.layer < LayerCount[fw]

CountKnown == Flying("LayerInfo") => status.layersCount = LayerCount[fw]

SyncInv == (linked => Pending \/ Synced) /\ AskedLayersExist /\ CountKnown

LEMMA HasInitial ==
  ASSUME NEW kind
  PROVE  ~Has(<<>>, kind)
BY ItemsOne DEF Has

\* While a LayerInfo is on its way the daemon is at the keyboard's build.
LEMMA FlyingDiscovers ==
  ASSUME FilesInv, Flying("LayerInfo")
  PROVE  Discovering
<1>1. Items(toKbd) \subseteq SoundQueries /\ Items(toHost) \subseteq SoundReports
  BY ItemsType DEF FilesInv, LinkSound
<1>2. QED
  BY <1>1 DEF Flying, Has, SoundQueries, SoundReports

LEMMA WholeHasLayers ==
  ASSUME NEW k \in Keymap, NEW b \in Builds, Whole(k, b)
  PROVE  HasLayers(k)
<1>1. 0 \in Idx /\ LayerCount[b] > 0 /\ k.layers \in [Idx -> Maybe]
  BY SizesAssumption DEF Idx, Keymap
<1>2. k.layers[0] = b /\ b # NoBuild
  BY <1>1, BuildsAssumption DEF Whole
<1>3. QED
  BY <1>1, <1>2 DEF HasLayers, Filled

\* A lookup for a daemon that has layers changes nothing.
LEMMA LookupsIdle ==
  ASSUME NEW c, NEW st, NEW k, HasLayers(k), NEW r \in Lookups(c, st, k)
  PROVE  r.km = k /\ r.st = st /\ r.hit = NoBuild
BY DEF Lookups, Found

\* A lookup leaves the layer count of a daemon at its keyboard's build.
LEMMA LookupsCount ==
  ASSUME NEW c \in [Builds -> Keymap], AllWhole(c), NEW st \in Status, NEW k,
         NEW b \in Builds, st.buildId = b, st.layersCount = LayerCount[b],
         NEW r \in Lookups(c, st, k)
  PROVE  r.st.layersCount = LayerCount[b]
<1>1. CASE HasLayers(k)
  BY <1>1, LookupsIdle
<1>2. CASE ~HasLayers(k)
  <2>1. b # NoBuild
    BY BuildsAssumption
  <2>2. r = Found(c, b, st, k)
    BY <1>2, <2>1 DEF Lookups
  <2>3. CASE Hit(c, b)
    <3>1. Whole(c[b], b) /\ c[b] \in Keymap
      BY <2>3 DEF Hit, AllWhole
    <3>2. NumLayers(c[b]) = LayerCount[b]
      BY <3>1, WholeCount
    <3>3. QED
      BY <2>1, <2>2, <2>3, <3>2 DEF Found
  <2>4. CASE ~Hit(c, b)
    BY <2>2, <2>4 DEF Found
  <2>5. QED
    BY <2>3, <2>4
<1>3. QED
  BY <1>1, <1>2

SyncKinds == {"Summary", "LayerInfo"}

LEMMA ConnectionSync ==
  ASSUME TypeOK, FilesInv, SyncInv, Connect \/ Disconnect \/ Flash
  PROVE  SyncInv'
<1>1. CASE Connect
  <2>1. toKbd = <<>> /\ toHost' = <<>> /\ toHost = <<>>
    BY <1>1 DEF Connect, FilesInv, LinkSound
  <2>2. toKbd' = AskCurrentAndSummary
    BY <1>1, <2>1 DEF Connect, Send, AskCurrentAndSummary
  <2>3. Items(toHost') = {}
    BY <2>1, ItemsOne
  <2>4. \A q \in Items(toKbd') : q.kind # "LayerInfo"
    <3>1. Items(toKbd') = {Ask("CurrentLayer", 0, 0), Ask("Summary", 0, 0)}
      BY <2>2, AskedItems
    <3>2. QED
      BY <3>1 DEF Ask
  <2>5. probe' > 0
    BY <1>1, BoundsAssumption DEF Connect
  <2>6. QED
    BY <2>3, <2>4, <2>5 DEF SyncInv, Pending, AskedLayersExist, CountKnown, Flying, Has
<1>2. CASE Disconnect \/ Flash
  <2>1. ~linked' /\ toKbd' = <<>> /\ toHost' = <<>>
    BY <1>2 DEF Disconnect, Flash, FilesInv, LinkSound
  <2>2. Items(toHost') = {} /\ Items(toKbd') = {}
    BY <2>1, ItemsOne
  <2>3. QED
    BY <2>1, <2>2 DEF SyncInv, AskedLayersExist, CountKnown, Flying, Has
<1>3. QED
  BY <1>1, <1>2

\* The keyboard answers every query of the discovery that reaches it.
LEMMA KeyboardSync ==
  ASSUME Losable \cap SyncKinds = {}, TypeOK, FilesInv, SyncInv,
         KeyboardAnswer \/ LayerChange \/ LoseExchange \/ ProbeRetry
  PROVE  SyncInv'
<1>1. /\ fw' = fw /\ linked' = linked /\ status' = status /\ km' = km
  BY DEF KeyboardAnswer, LayerChange, LoseExchange, ProbeRetry
<1>2. Synced => Synced'
  BY <1>1 DEF Synced
<1>3. CASE KeyboardAnswer
  <2> DEFINE h == Head(toKbd)
  <2>1. linked
    BY <1>3 DEF KeyboardAnswer, FilesInv, LinkSound
  <2>2. /\ Items(toKbd) = {h} \cup Items(toKbd')
        /\ Items(toHost') = Items(toHost) \cup (IF Answers(h) THEN {Reply(h)} ELSE {})
        /\ Reply(h).kind = h.kind
    BY <1>3, <2>1, AnsweredItems, AskedItems
  <2>3. h.kind \in SyncKinds => Answers(h)
    BY <2>2 DEF SyncInv, AskedLayersExist, Answers, SyncKinds
  <2> HIDE DEF h
  <2>4. \A kind \in SyncKinds : Flying(kind)' <=> Flying(kind)
    BY <2>2, <2>3 DEF Flying, Has
  <2>5. probe' = probe /\ AskedLayersExist'
    BY <1>1, <1>3, <2>2 DEF KeyboardAnswer, SyncInv, AskedLayersExist
  <2>6. Pending => Pending'
    BY <2>4, <2>5 DEF Pending, SyncKinds
  <2>7. CountKnown'
    BY <1>1, <2>4 DEF SyncInv, CountKnown, SyncKinds
  <2>8. QED
    BY <1>1, <1>2, <2>5, <2>6, <2>7 DEF SyncInv
<1>4. CASE LayerChange
  <2>1. /\ Items(toHost') = Items(toHost) \cup {Reply(Ask("CurrentLayer", 0, 0))}
        /\ Reply(Ask("CurrentLayer", 0, 0)).kind = "CurrentLayer"
        /\ toKbd' = toKbd /\ probe' = probe
    BY <1>4, ChangeItems, AskedItems DEF LayerChange
  <2>2. \A kind \in SyncKinds : Flying(kind)' <=> Flying(kind)
    BY <2>1 DEF Flying, Has, SyncKinds
  <2>3. Pending => Pending'
    BY <2>1, <2>2 DEF Pending, SyncKinds
  <2>4. CountKnown' /\ AskedLayersExist'
    BY <1>1, <2>1, <2>2 DEF SyncInv, CountKnown, SyncKinds, AskedLayersExist
  <2>5. QED
    BY <1>1, <1>2, <2>3, <2>4 DEF SyncInv
<1>5. CASE LoseExchange
  <2>1. /\ Items(toKbd) = {Head(toKbd)} \cup Items(toKbd')
        /\ Head(toKbd).kind \notin SyncKinds
        /\ toHost' = toHost /\ probe' = probe
    BY <1>5, LostItems DEF LoseExchange
  <2>2. \A kind \in SyncKinds : Flying(kind)' <=> Flying(kind)
    BY <2>1 DEF Flying, Has
  <2>3. Pending => Pending'
    BY <2>1, <2>2 DEF Pending, SyncKinds
  <2>4. CountKnown' /\ AskedLayersExist'
    BY <1>1, <2>1, <2>2 DEF SyncInv, CountKnown, SyncKinds, AskedLayersExist
  <2>5. QED
    BY <1>1, <1>2, <2>3, <2>4 DEF SyncInv
<1>6. CASE ProbeRetry
  <2>1. /\ Items(toKbd') = Items(toKbd) \cup {Ask("CurrentLayer", 0, 0), Ask("Summary", 0, 0)}
        /\ toHost' = toHost
    BY <1>6, SentItems, AskCurrentAndSummaryType, AskedItems DEF ProbeRetry
  <2>2. Flying("Summary")' /\ (Flying("LayerInfo")' => Flying("LayerInfo"))
    BY <2>1, AskedItems DEF Flying, Has
  <2>3. CountKnown' /\ AskedLayersExist'
    BY <1>1, <2>1, <2>2, AskedItems DEF SyncInv, CountKnown, AskedLayersExist
  <2>4. QED
    BY <2>2, <2>3 DEF SyncInv, Pending
<1>7. QED
  BY <1>3, <1>4, <1>5, <1>6

LEMMA LayerStateSync ==
  ASSUME TypeOK, FilesInv, SyncInv,
         LayerStateKnown \/ LayerStateCached \/ LayerStateUnknown
  PROVE  SyncInv'
<1> DEFINE m == Head(toHost)
<1>0. /\ cache \in [Builds -> Keymap] /\ AllWhole(cache) /\ LinkSound
      /\ status \in Status /\ fw \in Builds
  BY DEF TypeOK, FilesInv, FilesWhole, AllWhole
<1>1. Received("CurrentLayer") /\ linked' = linked /\ fw' = fw
  BY DEF LayerStateKnown, LayerStateCached, LayerStateUnknown
<1>2. m \in Report /\ m.build = fw
  BY <1>0, <1>1, HeadSound
<1>3. CASE LayerStateKnown \/ LayerStateCached
  <2>1. toKbd' = toKbd
    BY <1>3 DEF LayerStateKnown, LayerStateCached
  <2>2. /\ Items(toHost) = {m} \cup Items(toHost') /\ m.kind = "CurrentLayer"
    <3>1. <<>> \in Seq(Query)
      OBVIOUS
    <3>2. QED
      BY <1>1, <2>1, <3>1, HandledItems
  <2>3. \A kind \in SyncKinds : Flying(kind)' <=> Flying(kind)
    BY <2>1, <2>2 DEF Flying, Has, SyncKinds
  <2>4. AskedLayersExist'
    BY <1>1, <2>1 DEF SyncInv, AskedLayersExist
  <2>5. CASE LayerStateKnown
    <3>1. km' = km /\ probe' = probe /\ status' = [status EXCEPT !.buildId = fw]
      BY <1>2, <2>5 DEF LayerStateKnown
    <3>2. status'.layersCount = status.layersCount
      BY <1>0, <3>1 DEF Status
    <3>3. Synced => Synced'
      <4>1. SUFFICES ASSUME Synced PROVE Synced'
        OBVIOUS
      <4>2. Whole(km, fw)
            /\ status = [buildId |-> fw, cached |-> TRUE, layersCount |-> LayerCount[fw]]
        BY <4>1 DEF Synced, SyncedTo
      <4>3. status' = [buildId |-> fw, cached |-> TRUE, layersCount |-> LayerCount[fw]]
        BY <3>1, <4>2
      <4>4. QED
        BY <1>1, <3>1, <4>2, <4>3 DEF Synced, SyncedTo
    <3>4. Pending => Pending'
      BY <2>3, <3>1 DEF Pending, SyncKinds
    <3>5. CountKnown'
      BY <1>1, <2>3, <3>2 DEF SyncInv, CountKnown, SyncKinds
    <3>6. QED
      BY <1>1, <2>4, <3>3, <3>4, <3>5 DEF SyncInv
  <2>6. CASE LayerStateCached
    <3>1. /\ Hit(cache, fw) /\ km' = Load(cache, fw)
          /\ status' = [buildId |-> fw, cached |-> TRUE, layersCount |-> NumLayers(cache[fw])]
      BY <1>2, <2>6 DEF LayerStateCached
    <3>2. Whole(Load(cache, fw), fw) /\ Whole(cache[fw], fw) /\ cache[fw] \in Keymap
      BY <1>0, <3>1, LoadWhole DEF Hit, AllWhole
    <3>3. NumLayers(cache[fw]) = LayerCount[fw]
      BY <1>0, <3>2, WholeCount
    <3>4. Synced' /\ CountKnown'
      BY <1>1, <3>1, <3>2, <3>3 DEF Synced, SyncedTo, CountKnown
    <3>5. QED
      BY <2>4, <3>4 DEF SyncInv
  <2>7. QED
    BY <1>3, <2>5, <2>6
<1>4. CASE LayerStateUnknown
  <2> DEFINE qs == <<Ask("Summary", 0, 0)>>
  <2>1. toKbd' = toKbd \o qs /\ status' = [status EXCEPT !.buildId = fw]
    BY <1>2, <1>4 DEF LayerStateUnknown, Send
  <2>2. qs \in Seq(Query) /\ Items(qs) = {Ask("Summary", 0, 0)}
    BY SummaryType, ItemsOne
  <2> HIDE DEF qs
  <2>3. /\ Items(toHost) = {m} \cup Items(toHost')
        /\ Items(toKbd') = Items(toKbd) \cup {Ask("Summary", 0, 0)}
    BY <1>1, <2>1, <2>2, HandledItems
  <2>4. Flying("Summary")' /\ (Flying("LayerInfo")' => Flying("LayerInfo"))
    BY <2>3, AskedItems DEF Flying, Has
  <2>5. status'.layersCount = status.layersCount
    BY <1>0, <2>1 DEF Status
  <2>6. CountKnown' /\ AskedLayersExist'
    BY <1>1, <2>3, <2>4, <2>5, AskedItems DEF SyncInv, CountKnown, AskedLayersExist
  <2>7. QED
    BY <2>4, <2>6 DEF SyncInv, Pending
<1>5. QED
  BY <1>3, <1>4

LEMMA SummarySync ==
  ASSUME TypeOK, FilesInv, SyncInv, SummaryCached \/ SummaryDiscover
  PROVE  SyncInv'
<1> DEFINE m == Head(toHost)
<1>0. /\ cache \in [Builds -> Keymap] /\ AllWhole(cache) /\ LinkSound /\ fw \in Builds
  BY DEF TypeOK, FilesInv, FilesWhole, AllWhole
<1>1. Received("Summary") /\ fw' = fw
  BY DEF SummaryCached, SummaryDiscover
<1>2. m \in Report /\ m.build = fw
  BY <1>0, <1>1, HeadSound
<1>3. status'.layersCount = LayerCount[fw]
  BY <1>2 DEF SummaryCached, SummaryDiscover
<1>4. CountKnown'
  BY <1>1, <1>3 DEF CountKnown
<1>5. CASE SummaryCached
  <2>1. /\ Hit(cache, fw) /\ km' = Load(cache, fw) /\ toKbd' = toKbd
        /\ status' = [buildId |-> fw, cached |-> TRUE, layersCount |-> LayerCount[fw]]
    BY <1>2, <1>5 DEF SummaryCached
  <2>2. Whole(Load(cache, fw), fw)
    BY <1>0, <2>1, LoadWhole DEF Hit
  <2>3. Synced' /\ AskedLayersExist'
    BY <1>1, <2>1, <2>2 DEF Synced, SyncedTo, SyncInv, AskedLayersExist
  <2>4. QED
    BY <1>4, <2>3 DEF SyncInv
<1>6. CASE SummaryDiscover
  <2> DEFINE qs == <<Ask("LayerInfo", 0, 0)>>
  <2>1. toKbd' = toKbd \o qs
    BY <1>6 DEF SummaryDiscover, Send
  <2>2. qs \in Seq(Query) /\ Items(qs) = {Ask("LayerInfo", 0, 0)}
    BY AskType, SizesAssumption, ItemsOne DEF QueryKinds, Idx
  <2> HIDE DEF qs
  <2>3. Items(toKbd') = Items(toKbd) \cup {Ask("LayerInfo", 0, 0)}
    BY <1>1, <2>1, <2>2, HandledItems
  <2>4. Flying("LayerInfo")'
    BY <2>3, AskedItems DEF Flying, Has
  <2>5. AskedLayersExist'
    BY <1>0, <1>1, <2>3, AskedItems, SizesAssumption DEF SyncInv, AskedLayersExist
  <2>6. QED
    BY <1>4, <2>4, <2>5 DEF SyncInv, Pending
<1>7. QED
  BY <1>5, <1>6

\* A report about one layer asks for the next one, or completes the keymap.
LEMMA LayerInfoSync ==
  ASSUME TypeOK, FilesInv, SyncInv, LayerInfoNext \/ LayerInfoDone
  PROVE  SyncInv'
<1> DEFINE m == Head(toHost)
           k == WithLayer(km, m)
<1>0. /\ km \in Keymap /\ LinkSound /\ SoundKeymap(km) /\ fw \in Builds /\ status \in Status
  BY DEF TypeOK, FilesInv, SoundKeymap
<1>1. Received("LayerInfo") /\ linked' = linked /\ fw' = fw /\ km' = k
  BY DEF LayerInfoNext, LayerInfoDone
<1>2. m \in Report /\ m.build = fw /\ m.layer < LayerCount[fw] /\ Discovering
  BY <1>0, <1>1, HeadSound
<1>3. k \in Keymap /\ k.present /\ k.build = fw /\ k.layerCount = LayerCount[fw]
  <2>1. k \in Keymap /\ k.build = km.build /\ k.layerCount = km.layerCount /\ k.present
    BY <1>0, <1>2, WithLayerType DEF WithLayer, Keymap
  <2>2. QED
    BY <1>0, <1>2, <2>1, BuildsAssumption DEF SoundKeymap, HeaderOfBuild, Discovering
<1>4. PartOfOneBuild(k) /\ HeaderOfBuild(k)
  <2>1. m.layer \in Idx /\ km.layers \in [Idx -> Maybe] /\ km.build = fw
    BY <1>0, <1>2 DEF Report, Keymap, Discovering
  <2>2. k.layers = [km.layers EXCEPT ![m.layer] = m.build]
    BY <1>0 DEF WithLayer, Keymap
  <2>3. QED
    BY <1>0, <1>2, <1>3, <2>1, <2>2 DEF SoundKeymap, PartOfOneBuild, HeaderOfBuild
<1> HIDE DEF k
<1>5. status.layersCount = LayerCount[fw]
  <2>1. m \in Items(toHost) /\ m.kind = "LayerInfo"
    BY <1>1, ItemsTail DEF Received, TypeOK
  <2>2. QED
    BY <2>1 DEF SyncInv, CountKnown, Flying, Has
<1>6. status'.layersCount = status.layersCount
  BY <1>0 DEF LayerInfoNext, LayerInfoDone, Status
<1>7. CountKnown'
  BY <1>1, <1>5, <1>6 DEF CountKnown
<1>8. CASE LayerInfoNext
  <2> DEFINE qs == <<Ask("LayerInfo", NumLayers(k), 0)>>
  <2>1. NumLayers(k) < LayerCount[fw] /\ toKbd' = toKbd \o qs
    BY <1>3, <1>8 DEF LayerInfoNext, Send, k
  <2>2. NumLayers(k) \in Idx
    BY <1>0, <1>3, <2>1, NumLayersType, SizesAssumption DEF Idx
  <2>3. qs \in Seq(Query) /\ Items(qs) = {Ask("LayerInfo", NumLayers(k), 0)}
    BY <2>2, AskType, ItemsOne DEF QueryKinds
  <2> HIDE DEF qs
  <2>4. Items(toKbd') = Items(toKbd) \cup {Ask("LayerInfo", NumLayers(k), 0)}
    BY <1>1, <2>1, <2>3, HandledItems
  <2>5. Flying("LayerInfo")'
    BY <2>4, AskedItems DEF Flying, Has
  <2>6. AskedLayersExist'
    BY <1>1, <2>1, <2>4, AskedItems DEF SyncInv, AskedLayersExist
  <2>7. QED
    BY <1>7, <2>5, <2>6 DEF SyncInv, Pending
<1>9. CASE LayerInfoDone
  <2>1. NumLayers(k) >= k.layerCount /\ status' = [status EXCEPT !.cached = TRUE] /\ toKbd' = toKbd
    BY <1>9 DEF LayerInfoDone, k
  <2>2. Whole(k, fw)
    BY <1>0, <1>3, <1>4, <2>1, CompleteIsWhole
  <2>3. status' = [buildId |-> fw, cached |-> TRUE, layersCount |-> LayerCount[fw]]
    BY <1>0, <1>2, <1>5, <2>1 DEF Status, Discovering
  <2>4. Synced' /\ AskedLayersExist'
    BY <1>1, <2>1, <2>2, <2>3 DEF Synced, SyncedTo, SyncInv, AskedLayersExist
  <2>5. QED
    BY <1>7, <2>4 DEF SyncInv
<1>10. QED
  BY <1>8, <1>9

LEMMA WithBindingKeeps ==
  ASSUME NEW k \in Keymap, NEW m \in Report
  PROVE  /\ WithBinding(k, m) \in Keymap
         /\ WithBinding(k, m).present
         /\ WithBinding(k, m).build = k.build
         /\ WithBinding(k, m).layerCount = k.layerCount
         /\ WithBinding(k, m).layers = k.layers
         /\ WithBinding(k, m).keys = k.keys
         /\ WithBinding(k, m).sensors = k.sensors
         /\ WithBinding(k, m).sensorBindings = k.sensorBindings
BY WithBindingType DEF WithBinding, Keymap, Report

LEMMA WithSensorKeeps ==
  ASSUME NEW k \in Keymap, NEW m \in Report
  PROVE  /\ WithSensor(k, m) \in Keymap
         /\ WithSensor(k, m).present
         /\ WithSensor(k, m).build = k.build
         /\ WithSensor(k, m).layerCount = k.layerCount
         /\ WithSensor(k, m).layers = k.layers
         /\ WithSensor(k, m).keys = k.keys
         /\ WithSensor(k, m).sensors = k.sensors
         /\ WithSensor(k, m).bindings = k.bindings
BY WithSensorType DEF WithSensor, Keymap, Report

SlotKinds == {"Binding", "Sensor"}

\* The two chains of bindings, as the other parts of the keymap see them: one
\* report is taken, and at most one query of a chain follows it.
LEMMA ChainStep ==
  ASSUME TypeOK, BindingNext \/ BindingDone \/ SensorNext \/ SensorDone
  PROVE  \E kind \in SlotKinds, qs \in Seq(Query) :
           /\ Received(kind)
           /\ toKbd' = toKbd \o qs \/ (toKbd' = toKbd /\ qs = <<>>)
           /\ \A q \in Items(qs) : q.kind \in SlotKinds
<1>1. ASSUME NEW kind \in SlotKinds, Received(kind), NEW l \in Idx, NEW p \in Nat,
             NEW k2 \in SlotKinds, toKbd' = toKbd \o <<Ask(k2, l, p)>>
      PROVE  \E qs \in Seq(Query) :
               /\ toKbd' = toKbd \o qs \/ (toKbd' = toKbd /\ qs = <<>>)
               /\ \A q \in Items(qs) : q.kind \in SlotKinds
  <2>1. <<Ask(k2, l, p)>> \in Seq(Query)
    BY AskType DEF SlotKinds, QueryKinds
  <2>2. \A q \in Items(<<Ask(k2, l, p)>>) : q.kind \in SlotKinds
    BY ItemsOne, AskedItems
  <2>3. QED
    BY <1>1, <2>1, <2>2
<1>2. ASSUME toKbd' = toKbd
      PROVE  \E qs \in Seq(Query) :
               /\ toKbd' = toKbd \o qs \/ (toKbd' = toKbd /\ qs = <<>>)
               /\ \A q \in Items(qs) : q.kind \in SlotKinds
  <2>1. <<>> \in Seq(Query)
    OBVIOUS
  <2>2. \A q \in Items(<<>>) : q.kind \in SlotKinds
    BY ItemsOne
  <2>3. QED
    BY <1>2, <2>1, <2>2
<1> DEFINE m == Head(toHost)
<1>3. \A kind : Received(kind) => m.layer \in Idx /\ m.pos \in Nat
  BY ReceivedReport DEF Report
<1>4. CASE BindingNext
  <2>1. Received("Binding") /\ toKbd' = toKbd \o <<Ask("Binding", m.layer, m.pos + 1)>>
    BY <1>4 DEF BindingNext, Send
  <2>2. m.pos + 1 \in Nat /\ m.layer \in Idx
    BY <1>3, <2>1
  <2>3. QED
    BY <1>1, <2>1, <2>2 DEF SlotKinds
<1>5. CASE BindingDone
  <2>1. Received("Binding")
    BY <1>5 DEF BindingDone
  <2>2. \/ toKbd' = toKbd \o <<Ask("Sensor", m.layer, 0)>>
        \/ toKbd' = toKbd \o <<>>
    BY <1>5 DEF BindingDone, Send
  <2>3. toKbd \o <<>> = toKbd
    BY DEF TypeOK
  <2>4. QED
    BY <1>1, <1>2, <1>3, <2>1, <2>2, <2>3 DEF SlotKinds
<1>6. CASE SensorNext
  <2>1. Received("Sensor") /\ toKbd' = toKbd \o <<Ask("Sensor", m.layer, m.pos + 1)>>
    BY <1>6 DEF SensorNext, Send
  <2>2. m.pos + 1 \in Nat /\ m.layer \in Idx
    BY <1>3, <2>1
  <2>3. QED
    BY <1>1, <2>1, <2>2 DEF SlotKinds
<1>7. CASE SensorDone
  BY <1>2, <1>7 DEF SensorDone, SlotKinds
<1>8. QED
  BY <1>4, <1>5, <1>6, <1>7

LEMMA SlotSync ==
  ASSUME TypeOK, FilesInv, SyncInv, BindingNext \/ BindingDone \/ SensorNext \/ SensorDone
  PROVE  SyncInv'
<1> DEFINE m == Head(toHost)
<1>1. PICK kind \in SlotKinds, qs \in Seq(Query) :
        /\ Received(kind)
        /\ toKbd' = toKbd \o qs \/ (toKbd' = toKbd /\ qs = <<>>)
        /\ \A q \in Items(qs) : q.kind \in SlotKinds
  BY ChainStep
<1>2. /\ Items(toHost) = {m} \cup Items(toHost') /\ m.kind \in SlotKinds
      /\ Items(toKbd') = Items(toKbd) \cup Items(qs)
  BY <1>1, HandledItems
<1>3. \A kind2 \in SyncKinds : Flying(kind2)' <=> Flying(kind2)
  BY <1>1, <1>2 DEF Flying, Has, SyncKinds, SlotKinds
<1>4. fw' = fw /\ linked' = linked /\ status' = status /\ probe' = probe
      /\ km' \in {WithBinding(km, m), WithSensor(km, m)}
  BY DEF BindingNext, BindingDone, SensorNext, SensorDone
<1>5. m \in Report /\ km \in Keymap
  BY <1>1, HeadSound DEF FilesInv, TypeOK
<1>6. Synced => Synced'
  <2>1. /\ km'.present /\ km'.build = km.build /\ km'.layerCount = km.layerCount
        /\ km'.layers = km.layers
    BY <1>4, <1>5, WithBindingKeeps, WithSensorKeeps
  <2>2. Whole(km, fw) => Whole(km', fw)
    BY <2>1, SameLayersWhole
  <2>3. QED
    BY <1>4, <2>2 DEF Synced, SyncedTo
<1>7. Pending => Pending'
  BY <1>3, <1>4 DEF Pending, SyncKinds
<1>8. CountKnown'
  BY <1>3, <1>4 DEF SyncInv, CountKnown, SyncKinds
<1>9. AskedLayersExist'
  BY <1>1, <1>2, <1>4 DEF SyncInv, AskedLayersExist, SlotKinds
<1>10. QED
  BY <1>4, <1>6, <1>7, <1>8, <1>9 DEF SyncInv

\* A daemon that looks its keymap up does not lose it, nor the count of layers.
LEMMA LookupSync ==
  ASSUME TypeOK, FilesInv, SyncInv, linked, fw' = fw, cache' \in [Builds -> Keymap],
         AllWhole(cache'), NEW st \in Status, st.buildId = status.buildId,
         st.layersCount = status.layersCount, NEW k,
         NEW r \in Lookups(cache', st, k), status' = r.st,
         NEW qs \in Seq(Query), toKbd' = toKbd \o qs \/ (toKbd' = toKbd /\ qs = <<>>),
         toHost' = toHost,
         \A q \in Items(qs) : q.kind # "LayerInfo"
  PROVE  /\ CountKnown' /\ AskedLayersExist'
         /\ \A kind \in SyncKinds : Flying(kind) => Flying(kind)'
         /\ (\E q \in Items(qs) : q.kind = "Summary") => Flying("Summary")'
<1>1. Items(toKbd') = Items(toKbd) \cup Items(qs)
  <2>1. CASE toKbd' = toKbd \o qs
    BY <2>1, ItemsConcat DEF TypeOK
  <2>2. CASE toKbd' = toKbd /\ qs = <<>>
    BY <2>2, ItemsOne
  <2>3. QED
    BY <2>1, <2>2
<1>2. /\ \A kind \in SyncKinds : Flying(kind) => Flying(kind)'
      /\ (\E q \in Items(qs) : q.kind = "Summary") => Flying("Summary")'
      /\ Flying("LayerInfo")' => Flying("LayerInfo")
  BY <1>1 DEF Flying, Has
<1>3. AskedLayersExist'
  BY <1>1 DEF SyncInv, AskedLayersExist
<1>4. CountKnown'
  <2>1. SUFFICES ASSUME Flying("LayerInfo")' PROVE status'.layersCount = LayerCount[fw]
    BY DEF CountKnown
  <2>2. st.layersCount = LayerCount[fw] /\ st.buildId = fw /\ fw \in Builds
    BY <1>2, <2>1, FlyingDiscovers DEF SyncInv, CountKnown, Discovering, TypeOK
  <2>3. QED
    BY <2>2, LookupsCount
<1>5. QED
  BY <1>2, <1>3, <1>4

LEMMA RequestSync ==
  ASSUME TypeOK, TypeOK', FilesInv, FilesInv', SyncInv, Request
  PROVE  SyncInv'
<1>0. /\ cache' \in [Builds -> Keymap] /\ AllWhole(cache') /\ km \in Keymap
      /\ status \in Status /\ fw \in Builds /\ toKbd \in Seq(Query) /\ <<>> \in Seq(Query)
  BY DEF TypeOK, FilesInv, FilesWhole, AllWhole
<1>1. linked /\ linked' /\ fw' = fw /\ toHost' = toHost /\ probe' = probe
  BY DEF Request, GetStatus, GetLayers, GetKeymap, RefreshKeymap, RefreshAndGet, ClearCache
<1>2. Synced => HasLayers(km)
  BY <1>0, WholeHasLayers DEF Synced, SyncedTo
<1>3. CASE GetStatus
  <2>1. /\ km' = km /\ toKbd' = toKbd
        /\ status' = [buildId |-> IF status.buildId = NoBuild THEN km.build ELSE status.buildId,
                      cached |-> TRUE,
                      layersCount |-> IF status.layersCount = 0 THEN NumLayers(km)
                                      ELSE status.layersCount]
    BY <1>3 DEF GetStatus
  <2>2. LayerCount[fw] # 0 /\ fw # NoBuild
    BY <1>0, SizesAssumption, BuildsAssumption
  <2>3. status.layersCount = LayerCount[fw] => status'.layersCount = LayerCount[fw]
    BY <2>1, <2>2
  <2>4. Synced => Synced'
    BY <1>1, <2>1, <2>2 DEF Synced, SyncedTo
  <2>5. Pending => Pending'
    BY <1>1, <2>1 DEF Pending, Flying
  <2>6. CountKnown' /\ AskedLayersExist'
    BY <1>1, <2>1, <2>3 DEF SyncInv, CountKnown, AskedLayersExist, Flying
  <2>7. QED
    BY <1>1, <2>4, <2>5, <2>6 DEF SyncInv
<1>4. CASE GetLayers
  <2>1. PICK r \in Lookups(cache', status, km) : km' = r.km /\ status' = r.st
    BY <1>4 DEF GetLayers
  <2>2. toKbd' = toKbd
    BY <1>4 DEF GetLayers
  <2>3. /\ CountKnown' /\ AskedLayersExist'
        /\ \A kind \in SyncKinds : Flying(kind) => Flying(kind)'
    BY <1>0, <1>1, <2>1, <2>2, LookupSync, ItemsOne
  <2>4. Synced => Synced'
    BY <1>1, <1>2, <2>1, LookupsIdle DEF Synced
  <2>5. Pending => Pending'
    BY <1>1, <2>3 DEF Pending, SyncKinds
  <2>6. QED
    BY <1>1, <2>3, <2>4, <2>5 DEF SyncInv
<1>5. ASSUME NEW l \in Idx \cup {AllLayers}, GetKeymap(l)
      PROVE  SyncInv'
  <2>1. PICK r \in Lookups(cache', status, km) :
          km' = r.km /\ status' = r.st /\ toKbd' = toKbd \o Wanted(r.km, l)
    BY <1>5 DEF GetKeymap, Send
  <2>2. r.km \in Keymap
    BY <1>0, <2>1, LookupsType DEF FoundRecord
  <2>3. /\ Wanted(r.km, l) \in Seq(Query)
        /\ \A q \in Items(Wanted(r.km, l)) : q.kind # "LayerInfo"
    BY <2>2, WantedType, WantedItems, AskedItems
  <2>4. /\ CountKnown' /\ AskedLayersExist'
        /\ \A kind \in SyncKinds : Flying(kind) => Flying(kind)'
    BY <1>0, <1>1, <2>1, <2>3, LookupSync
  <2>5. Synced => Synced'
    BY <1>1, <1>2, <2>1, LookupsIdle DEF Synced
  <2>6. Pending => Pending'
    BY <1>1, <2>4 DEF Pending, SyncKinds
  <2>7. QED
    BY <1>1, <2>4, <2>5, <2>6 DEF SyncInv
<1>6. CASE RefreshKeymap
  <2>1. status'.layersCount = status.layersCount
        /\ toKbd' = toKbd \o <<Ask("Summary", 0, 0)>>
    BY <1>0, <1>6 DEF RefreshKeymap, Send, Status
  <2>2. Items(toKbd') = Items(toKbd) \cup {Ask("Summary", 0, 0)}
    BY <1>6, SentItems, SummaryType, ItemsOne DEF RefreshKeymap
  <2>3. Flying("Summary")' /\ (Flying("LayerInfo")' => Flying("LayerInfo"))
    BY <1>1, <2>2, AskedItems DEF Flying, Has
  <2>4. CountKnown' /\ AskedLayersExist'
    BY <1>1, <2>1, <2>2, <2>3, AskedItems DEF SyncInv, CountKnown, AskedLayersExist
  <2>5. QED
    BY <2>3, <2>4 DEF SyncInv, Pending
<1>7. ASSUME NEW l \in Idx \cup {AllLayers}, RefreshAndGet(l)
      PROVE  SyncInv'
  <2> DEFINE st == [status EXCEPT !.cached = FALSE]
             k == Dropped(km)
  <2>1. PICK r \in Lookups(cache', st, k) :
          /\ km' = r.km /\ status' = r.st
          /\ toKbd' = toKbd \o (<<Ask("Summary", 0, 0)>> \o Wanted(r.km, l))
    BY <1>7 DEF RefreshAndGet, Send
  <2>2. /\ st \in Status /\ st.buildId = status.buildId /\ st.layersCount = status.layersCount
        /\ k \in Keymap
    BY <1>0, DroppedType DEF Status
  <2> HIDE DEF st, k
  <2>3. r.km \in Keymap
    BY <1>0, <2>1, <2>2, LookupsType DEF FoundRecord
  <2> DEFINE ask == <<Ask("Summary", 0, 0)>>
             qs == ask \o Wanted(r.km, l)
  <2>4. ask \in Seq(Query) /\ Items(ask) = {Ask("Summary", 0, 0)} /\ Wanted(r.km, l) \in Seq(Query)
    BY <2>3, SummaryType, ItemsOne, WantedType
  <2> HIDE DEF ask
  <2>5. qs \in Seq(Query) /\ Items(qs) = {Ask("Summary", 0, 0)} \cup Items(Wanted(r.km, l))
    BY <2>4, ItemsConcat
  <2>6. toKbd' = toKbd \o qs
    BY <2>1 DEF ask
  <2> HIDE DEF qs
  <2>7. (\A q \in Items(qs) : q.kind # "LayerInfo") /\ (\E q \in Items(qs) : q.kind = "Summary")
    BY <2>3, <2>5, WantedItems, AskedItems
  <2>8. CountKnown' /\ AskedLayersExist' /\ Flying("Summary")'
    BY <1>0, <1>1, <2>1, <2>2, <2>5, <2>6, <2>7, LookupSync
  <2>9. QED
    BY <2>8 DEF SyncInv, Pending
<1>8. CASE ClearCache
  <2>1. status' = status /\ km' = km /\ toKbd' = toKbd
    BY <1>8 DEF ClearCache
  <2>2. QED
    BY <1>1, <2>1 DEF SyncInv, Pending, Synced, Flying, AskedLayersExist, CountKnown
<1>9. QED
  BY <1>3, <1>4, <1>5, <1>6, <1>7, <1>8 DEF Request

LEMMA InitSync == Init => SyncInv
<1> SUFFICES ASSUME Init PROVE SyncInv
  OBVIOUS
<1>1. ~linked /\ Items(toKbd) = {} /\ Items(toHost) = {}
  BY ItemsOne DEF Init
<1>2. QED
  BY <1>1 DEF SyncInv, AskedLayersExist, CountKnown, Flying, Has

LEMMA StepSync ==
  ASSUME Losable \cap SyncKinds = {}, TypeOK, TypeOK', FilesInv, FilesInv', SyncInv,
         [Next]_vars
  PROVE  SyncInv'
<1>1. CASE Connect \/ Disconnect \/ Flash
  BY <1>1, ConnectionSync
<1>2. CASE KeyboardAnswer \/ LayerChange \/ LoseExchange \/ ProbeRetry
  BY <1>2, KeyboardSync
<1>3. CASE Handle
  BY <1>3, LayerStateSync, SummarySync, LayerInfoSync, SlotSync DEF Handle
<1>4. CASE Request
  BY <1>4, RequestSync
<1>5. CASE UNCHANGED vars
  BY <1>5 DEF vars, SyncInv, Pending, Synced, Flying, AskedLayersExist, CountKnown
<1>6. QED
  BY <1>1, <1>2, <1>3, <1>4, <1>5 DEF Next, Environment

LEMMA SyncSettles == SyncInv => SettledIsSynced
<1>1. SUFFICES ASSUME SyncInv, linked, probe = 0, toKbd = <<>>, toHost = <<>>
               PROVE  Synced
  BY DEF SettledIsSynced, Synced, SyncedTo
<1>2. \A kind : ~Flying(kind)
  BY <1>1, HasInitial DEF Flying
<1>3. QED
  BY <1>1, <1>2 DEF SyncInv, Pending

\* As long as the link loses neither a summary nor a layer of the discovery (it may
\* lose bindings, sensors and layer reports, and the disk may fail), a connected
\* keyboard with nothing in flight is served its own whole keymap, with a status
\* that says so: onSummary and onLayerInfo restart each other's chains, and no
\* refresh, lookup or probe retry leaves one half done.
THEOREM SettledIsSyncedAlways ==
  ASSUME Losable \cap {"Summary", "LayerInfo"} = {}
  PROVE  Spec => []SettledIsSynced
<1>1. SyncInv => SettledIsSynced
  BY SyncSettles
<1>2. TypeOK /\ TypeOK' /\ FilesInv /\ FilesInv' /\ SyncInv /\ [Next]_vars => SyncInv'
  BY StepSync DEF SyncKinds
<1>3. QED
  BY <1>1, <1>2, InitSync, TypeCorrect, FilesInvAlways, PTL DEF Spec

-----------------------------------------------------------------------------
(* Bindings are of the build of the keymap that holds them *)

\* In s a summary comes before any binding or sensor.
SummaryFirst(s) ==
  \E i \in DOMAIN s : /\ s[i].kind = "Summary"
                      /\ \A j \in DOMAIN s : j < i => s[j].kind \notin SlotKinds

NoSlots(s) == \A i \in DOMAIN s : s[i].kind \notin SlotKinds

\* No binding or sensor reaches the daemon before the keyboard's summary does.
Awaiting == SummaryFirst(toHost) \/ (NoSlots(toHost) /\ SummaryFirst(toKbd))

OwnFiles(c) == \A b \in Builds : OwnBindings(c[b])

BindInv == (linked => Discovering \/ Awaiting) /\ OwnBindings(km) /\ OwnFiles(cache)

LEMMA FirstConcat ==
  ASSUME NEW S, NEW s \in Seq(S), NEW t \in Seq(S), SummaryFirst(s)
  PROVE  SummaryFirst(s \o t)
<1> DEFINE u == s \o t
<1>1. DOMAIN s = 1..Len(s) /\ DOMAIN u = 1..(Len(s) + Len(t))
      /\ Len(s) \in Nat /\ Len(t) \in Nat /\ \A i \in DOMAIN s : u[i] = s[i]
  OBVIOUS
<1>2. PICK i \in DOMAIN s : /\ s[i].kind = "Summary"
                            /\ \A j \in DOMAIN s : j < i => s[j].kind \notin SlotKinds
  BY DEF SummaryFirst
<1> HIDE DEF u
<1>3. i \in DOMAIN u /\ u[i].kind = "Summary"
  BY <1>1, <1>2
<1>4. ASSUME NEW j \in DOMAIN u, j < i PROVE u[j].kind \notin SlotKinds
  BY <1>1, <1>2, <1>4
<1>5. QED
  BY <1>3, <1>4 DEF SummaryFirst, u

LEMMA FirstAppend ==
  ASSUME NEW S, NEW s \in Seq(S), NEW m \in S
  PROVE  /\ SummaryFirst(s) => SummaryFirst(Append(s, m))
         /\ NoSlots(s) /\ m.kind = "Summary" => SummaryFirst(Append(s, m))
         /\ NoSlots(s) /\ m.kind \notin SlotKinds => NoSlots(Append(s, m))
<1> DEFINE u == Append(s, m)
<1>1. /\ DOMAIN s = 1..Len(s) /\ DOMAIN u = 1..(Len(s) + 1) /\ Len(s) \in Nat
      /\ \A i \in DOMAIN s : u[i] = s[i]
      /\ u[Len(s) + 1] = m
  OBVIOUS
<1>2. SummaryFirst(s) => SummaryFirst(u)
  <2>1. Append(s, m) = s \o <<m>> /\ <<m>> \in Seq(S)
    OBVIOUS
  <2>2. QED
    BY <2>1, FirstConcat
<1> HIDE DEF u
<1>3. ASSUME NoSlots(s), m.kind = "Summary" PROVE SummaryFirst(u)
  <2>1. Len(s) + 1 \in DOMAIN u /\ u[Len(s) + 1].kind = "Summary"
    BY <1>1, <1>3
  <2>2. ASSUME NEW j \in DOMAIN u, j < Len(s) + 1 PROVE u[j].kind \notin SlotKinds
    <3>1. j \in DOMAIN s
      BY <1>1, <2>2
    <3>2. QED
      BY <1>1, <1>3, <3>1 DEF NoSlots
  <2>3. QED
    BY <2>1, <2>2 DEF SummaryFirst
<1>4. ASSUME NoSlots(s), m.kind \notin SlotKinds, NEW j \in DOMAIN u PROVE u[j].kind \notin SlotKinds
  BY <1>1, <1>4 DEF NoSlots
<1>5. QED
  BY <1>2, <1>3, <1>4 DEF NoSlots, u

LEMMA FirstTail ==
  ASSUME NEW S, NEW s \in Seq(S), s # <<>>
  PROVE  /\ NoSlots(s) => Head(s).kind \notin SlotKinds /\ NoSlots(Tail(s))
         /\ SummaryFirst(s) /\ Head(s).kind # "Summary"
              => Head(s).kind \notin SlotKinds /\ SummaryFirst(Tail(s))
<1> DEFINE u == Tail(s)
<1>1. /\ DOMAIN s = 1..Len(s) /\ DOMAIN u = 1..(Len(s) - 1) /\ Len(s) \in Nat \ {0}
      /\ \A i \in DOMAIN u : u[i] = s[i + 1]
      /\ Head(s) = s[1]
  OBVIOUS
<1> HIDE DEF u
<1>2. ASSUME NoSlots(s) PROVE Head(s).kind \notin SlotKinds /\ NoSlots(u)
  BY <1>1, <1>2 DEF NoSlots
<1>3. ASSUME SummaryFirst(s), Head(s).kind # "Summary"
      PROVE  Head(s).kind \notin SlotKinds /\ SummaryFirst(u)
  <2>1. PICK i \in DOMAIN s : /\ s[i].kind = "Summary"
                              /\ \A j \in DOMAIN s : j < i => s[j].kind \notin SlotKinds
    BY <1>3 DEF SummaryFirst
  <2>2. i # 1
    BY <1>1, <1>3, <2>1
  <2>3. Head(s).kind \notin SlotKinds
    BY <1>1, <2>1, <2>2
  <2>4. i - 1 \in DOMAIN u /\ u[i - 1].kind = "Summary"
    BY <1>1, <2>1, <2>2
  <2>5. ASSUME NEW j \in DOMAIN u, j < i - 1 PROVE u[j].kind \notin SlotKinds
    <3>1. j + 1 \in DOMAIN s /\ j + 1 < i /\ u[j] = s[j + 1]
      BY <1>1, <2>5
    <3>2. QED
      BY <2>1, <3>1
  <2>6. QED
    BY <2>3, <2>4, <2>5 DEF SummaryFirst
<1>4. QED
  BY <1>2, <1>3 DEF u

\* Keymaps and files whose bindings are their own.
LEMMA NoKeymapOwn == OwnBindings(NoKeymap)
BY DEF OwnBindings, NoKeymap, NoBindings, NoSensors

LEMMA SameBindingsOwn ==
  ASSUME NEW k, NEW k2, OwnBindings(k), k2.build = k.build, k2.bindings = k.bindings,
         k2.sensorBindings = k.sensorBindings
  PROVE  OwnBindings(k2)
BY DEF OwnBindings

LEMMA LoadOwn ==
  ASSUME NEW c \in [Builds -> Keymap], OwnFiles(c), NEW b \in Builds
  PROVE  OwnBindings(Load(c, b))
<1>1. c[b] \in Keymap /\ OwnBindings(c[b])
  BY DEF OwnFiles
<1>2. /\ Load(c, b).build = c[b].build /\ Load(c, b).bindings = c[b].bindings
      /\ Load(c, b).sensorBindings = c[b].sensorBindings
  BY <1>1 DEF Load, Keymap
<1>3. QED
  BY <1>1, <1>2, SameBindingsOwn

LEMMA SaveOwn ==
  ASSUME NEW c \in [Builds -> Keymap], OwnFiles(c), NEW k \in Keymap, OwnBindings(k)
  PROVE  OwnFiles(Save(c, k))
<1> DEFINE file == [k EXCEPT !.present = TRUE, !.sensors = 0]
<1>1. /\ file.build = k.build /\ file.bindings = k.bindings
      /\ file.sensorBindings = k.sensorBindings
  BY DEF Keymap
<1>2. OwnBindings(file)
  BY <1>1, SameBindingsOwn
<1>3. \A x \in Builds : Save(c, k)[x] = file \/ Save(c, k)[x] = c[x]
  BY DEF Save
<1>4. QED
  BY <1>2, <1>3 DEF OwnFiles

LEMMA UpdateBindingsOwn ==
  ASSUME NEW c \in [Builds -> Keymap], OwnFiles(c), AllWhole(c), NEW b \in Maybe,
         NEW l \in Idx, NEW list \in [Pos -> Maybe], \A p \in Pos : list[p] \in {NoBuild, b}
  PROVE  OwnFiles(UpdateBindings(c, b, l, list))
<1> DEFINE k == Load(c, b)
           k2 == [k EXCEPT !.bindings[l] = list]
<1>1. CASE b = NoBuild \/ ~c[b].present
  BY <1>1 DEF UpdateBindings
<1>2. CASE b # NoBuild /\ c[b].present
  <2>1. b \in Builds /\ k \in Keymap /\ k.build = b /\ OwnBindings(k)
    BY <1>2, LoadWhole, LoadOwn DEF Maybe
  <2> HIDE DEF k
  <2>2. /\ k2 \in Keymap /\ k2.build = b /\ k2.sensorBindings = k.sensorBindings
        /\ k2.bindings = [k.bindings EXCEPT ![l] = list]
    BY <2>1 DEF Keymap
  <2>3. \A i \in Idx : k2.bindings[i] = IF i = l THEN list ELSE k.bindings[i]
    BY <2>1, <2>2 DEF Keymap
  <2>4. OwnBindings(k2)
    BY <2>1, <2>2, <2>3 DEF OwnBindings
  <2>5. UpdateBindings(c, b, l, list) = Save(c, k2)
    BY <1>2 DEF UpdateBindings, k
  <2>6. QED
    BY <2>2, <2>4, <2>5, SaveOwn
<1>3. QED
  BY <1>1, <1>2

LEMMA UpdateSensorsOwn ==
  ASSUME NEW c \in [Builds -> Keymap], OwnFiles(c), AllWhole(c), NEW b \in Maybe,
         NEW l \in Idx, NEW list \in [SenIdx -> Maybe],
         \A s \in SenIdx : list[s] \in {NoBuild, b}
  PROVE  OwnFiles(UpdateSensors(c, b, l, list))
<1> DEFINE k == Load(c, b)
           k2 == [k EXCEPT !.sensorBindings[l] = list]
<1>1. CASE b = NoBuild \/ ~c[b].present
  BY <1>1 DEF UpdateSensors
<1>2. CASE b # NoBuild /\ c[b].present
  <2>1. b \in Builds /\ k \in Keymap /\ k.build = b /\ OwnBindings(k)
    BY <1>2, LoadWhole, LoadOwn DEF Maybe
  <2> HIDE DEF k
  <2>2. /\ k2 \in Keymap /\ k2.build = b /\ k2.bindings = k.bindings
        /\ k2.sensorBindings = [k.sensorBindings EXCEPT ![l] = list]
    BY <2>1 DEF Keymap
  <2>3. \A i \in Idx : k2.sensorBindings[i] = IF i = l THEN list ELSE k.sensorBindings[i]
    BY <2>1, <2>2 DEF Keymap
  <2>4. OwnBindings(k2)
    BY <2>1, <2>2, <2>3 DEF OwnBindings
  <2>5. UpdateSensors(c, b, l, list) = Save(c, k2)
    BY <1>2 DEF UpdateSensors, k
  <2>6. QED
    BY <2>2, <2>4, <2>5, SaveOwn
<1>3. QED
  BY <1>1, <1>2

LEMMA WriteOwn ==
  ASSUME OwnFiles(cache), NEW c, OwnFiles(c), NEW spent, Write(c, spent)
  PROVE  OwnFiles(cache')
BY DEF Write

LEMMA FoundOwn ==
  ASSUME NEW c \in [Builds -> Keymap], OwnFiles(c), NEW b \in Maybe, NEW st, NEW k,
         OwnBindings(k)
  PROVE  OwnBindings(Found(c, b, st, k).km)
BY LoadOwn DEF Found, Maybe

LEMMA LookupsOwn ==
  ASSUME NEW c \in [Builds -> Keymap], OwnFiles(c), NEW st \in Status, NEW k,
         OwnBindings(k)
  PROVE  /\ \A r \in AnyCached(c, st, k) : OwnBindings(r.km)
         /\ \A r \in Lookups(c, st, k) : OwnBindings(r.km)
<1>1. \A r \in AnyCached(c, st, k) : OwnBindings(r.km)
  BY FoundOwn DEF AnyCached, CachedBuilds, Maybe
<1>2. QED
  BY <1>1, FoundOwn DEF Lookups, Status, Maybe

LEMMA DroppedOwn ==
  ASSUME NEW k \in Keymap
  PROVE  OwnBindings(Dropped(k))
<1>1. Dropped(k).bindings = NoBindings /\ Dropped(k).sensorBindings = NoSensors
  BY DEF Dropped, Cleared, Keymap
<1>2. QED
  BY <1>1 DEF OwnBindings, NoBindings, NoSensors

LEMMA SummarisedOwn ==
  ASSUME NEW k \in Keymap, NEW b \in Builds
  PROVE  OwnBindings(Summarised(k, b))
<1>1. Summarised(k, b).bindings = NoBindings /\ Summarised(k, b).sensorBindings = NoSensors
  BY DEF Summarised, Cleared, Keymap
<1>2. QED
  BY <1>1 DEF OwnBindings, NoBindings, NoSensors

LEMMA WithBindingOwn ==
  ASSUME NEW k \in Keymap, OwnBindings(k), NEW m \in Report, m.build = k.build
  PROVE  OwnBindings(WithBinding(k, m))
<1> DEFINE k2 == WithBinding(k, m)
<1>1. k2.bindings = [k.bindings EXCEPT ![m.layer][m.pos] = m.build]
  BY DEF WithBinding, Keymap
<1>2. k2.build = k.build /\ k2.sensorBindings = k.sensorBindings
  BY WithBindingKeeps
<1>3. k.bindings \in [Idx -> [Pos -> Maybe]]
  BY DEF Keymap
<1> HIDE DEF k2
<1>4. \A i \in Idx, p \in Pos : k2.bindings[i][p] \in {k.bindings[i][p], m.build}
  BY <1>1, <1>3
<1>5. QED
  BY <1>2, <1>4 DEF OwnBindings, k2

LEMMA WithSensorOwn ==
  ASSUME NEW k \in Keymap, OwnBindings(k), NEW m \in Report, m.build = k.build
  PROVE  OwnBindings(WithSensor(k, m))
<1> DEFINE k2 == WithSensor(k, m)
<1>1. k2.sensorBindings = [k.sensorBindings EXCEPT ![m.layer][m.pos] = m.build]
  BY DEF WithSensor, Keymap
<1>2. k2.build = k.build /\ k2.bindings = k.bindings
  BY WithSensorKeeps
<1>3. k.sensorBindings \in [Idx -> [SenIdx -> Maybe]]
  BY DEF Keymap
<1> HIDE DEF k2
<1>4. \A i \in Idx, s \in SenIdx : k2.sensorBindings[i][s] \in {k.sensorBindings[i][s], m.build}
  BY <1>1, <1>3
<1>5. QED
  BY <1>2, <1>4 DEF OwnBindings, k2

LEMMA BindParts ==
  ASSUME linked' => Discovering' \/ Awaiting', OwnBindings(km'), OwnFiles(cache')
  PROVE  BindInv'
BY DEF BindInv, OwnFiles, OwnBindings

\* More queries do not overtake the summary.
LEMMA AwaitMore ==
  ASSUME TypeOK, Awaiting, toHost' = toHost, NEW qs \in Seq(Query),
         toKbd' = toKbd \o qs \/ toKbd' = toKbd
  PROVE  Awaiting'
<1>1. SummaryFirst(toKbd) => SummaryFirst(toKbd')
  BY FirstConcat DEF TypeOK
<1>2. QED
  BY <1>1 DEF Awaiting

\* While the summary is awaited, the reports handled are neither bindings nor sensors.
LEMMA AwaitHandled ==
  ASSUME TypeOK, Awaiting, NEW kind, Received(kind), kind # "Summary",
         NEW qs \in Seq(Query), toKbd' = toKbd \o qs \/ toKbd' = toKbd
  PROVE  kind \notin SlotKinds /\ Awaiting'
<1>1. toHost \in Seq(Report) /\ toHost # <<>> /\ toHost' = Tail(toHost) /\ Head(toHost).kind = kind
  BY DEF TypeOK, Received
<1>2. SummaryFirst(toKbd) => SummaryFirst(toKbd')
  BY FirstConcat DEF TypeOK
<1>3. QED
  BY <1>1, <1>2, FirstTail DEF Awaiting

LEMMA ConnectionBind ==
  ASSUME TypeOK, FilesInv, BindInv, Connect \/ Disconnect \/ Flash
  PROVE  BindInv'
<1>0. cache \in [Builds -> Keymap] /\ OwnFiles(cache) /\ OwnBindings(km)
  BY DEF TypeOK, BindInv
<1>1. CASE Connect
  <2>1. PICK r \in AnyCached(cache, NewStatus, NoKeymap) : km' = r.km
    BY <1>1 DEF Connect
  <2>2. NewStatus \in Status
    BY DEF NewStatus, Status, Maybe
  <2>3. OwnBindings(km') /\ OwnFiles(cache')
    BY <1>0, <1>1, <2>1, <2>2, LookupsOwn, NoKeymapOwn DEF Connect
  <2>4. toKbd = <<>> /\ toHost = <<>> /\ toHost' = toHost
    BY <1>1 DEF Connect, FilesInv, LinkSound
  <2>5. toKbd' = AskCurrentAndSummary
    BY <1>1, <2>4 DEF Connect, Send, AskCurrentAndSummary
  <2>6. NoSlots(toHost')
    BY <2>4 DEF NoSlots
  <2>7. SummaryFirst(toKbd')
    <3>1. /\ DOMAIN toKbd' = {1, 2}
          /\ toKbd'[1].kind = "CurrentLayer" /\ toKbd'[2].kind = "Summary"
      BY <2>5 DEF AskCurrentAndSummary, Ask
    <3>2. QED
      BY <3>1 DEF SummaryFirst, SlotKinds
  <2>8. QED
    BY <2>3, <2>6, <2>7, BindParts DEF Awaiting
<1>2. CASE Disconnect \/ Flash
  <2>1. ~linked' /\ cache' = cache /\ km' \in {km, NoKeymap}
    BY <1>2 DEF Disconnect, Flash
  <2>2. QED
    BY <1>0, <2>1, NoKeymapOwn, BindParts
<1>3. QED
  BY <1>1, <1>2

LEMMA KeyboardBind ==
  ASSUME "Summary" \notin Losable, TypeOK, FilesInv, BindInv,
         KeyboardAnswer \/ LayerChange \/ LoseExchange \/ ProbeRetry
  PROVE  BindInv'
<1>1. /\ fw' = fw /\ linked' = linked /\ status' = status /\ km' = km /\ cache' = cache
  BY DEF KeyboardAnswer, LayerChange, LoseExchange, ProbeRetry
<1>2. Discovering => Discovering'
  BY <1>1 DEF Discovering
<1>3. toKbd \in Seq(Query) /\ toHost \in Seq(Report)
  BY DEF TypeOK
<1>4. ASSUME linked, Awaiting PROVE Awaiting'
  <2>1. CASE KeyboardAnswer
    <3> DEFINE q == Head(toKbd)
    <3>1. /\ toKbd # <<>> /\ toKbd' = Tail(toKbd) /\ q \in Query
          /\ toHost' = IF Answers(q) THEN Append(toHost, Reply(q)) ELSE toHost
      BY <1>3, <1>4, <2>1 DEF KeyboardAnswer
    <3>2. Reply(q) \in Report /\ Reply(q).kind = q.kind
      BY <3>1, ReplyType, AskedItems
    <3>3. q.kind = "Summary" => Answers(q)
      BY DEF Answers
    <3> HIDE DEF q
    <3>4. CASE SummaryFirst(toHost)
      BY <1>3, <3>1, <3>2, <3>4, FirstAppend DEF Awaiting
    <3>5. CASE NoSlots(toHost) /\ SummaryFirst(toKbd) /\ q.kind = "Summary"
      BY <1>3, <3>1, <3>2, <3>3, <3>5, FirstAppend DEF Awaiting
    <3>6. CASE NoSlots(toHost) /\ SummaryFirst(toKbd) /\ q.kind # "Summary"
      <4>1. q.kind \notin SlotKinds /\ SummaryFirst(toKbd')
        BY <1>3, <3>1, <3>6, FirstTail DEF q
      <4>2. NoSlots(toHost')
        BY <1>3, <3>1, <3>2, <3>6, <4>1, FirstAppend
      <4>3. QED
        BY <4>1, <4>2 DEF Awaiting
    <3>7. QED
      BY <1>4, <3>4, <3>5, <3>6 DEF Awaiting
  <2>2. CASE LayerChange
    <3> DEFINE m == Reply(Ask("CurrentLayer", 0, 0))
    <3>1. Ask("CurrentLayer", 0, 0) \in Query
      BY AskType, SizesAssumption DEF QueryKinds, Idx
    <3>2. m \in Report /\ m.kind = "CurrentLayer"
      BY <3>1, ReplyType, AskedItems
    <3>3. toHost' = Append(toHost, m) /\ toKbd' = toKbd
      BY <2>2 DEF LayerChange
    <3> HIDE DEF m
    <3>4. QED
      BY <1>3, <1>4, <3>2, <3>3, FirstAppend DEF Awaiting, SlotKinds
  <2>3. CASE LoseExchange
    <3>1. toKbd # <<>> /\ toKbd' = Tail(toKbd) /\ toHost' = toHost /\ Head(toKbd).kind # "Summary"
      BY <2>3 DEF LoseExchange
    <3>2. QED
      BY <1>3, <1>4, <3>1, FirstTail DEF Awaiting
  <2>4. CASE ProbeRetry
    BY <1>4, <2>4, AskCurrentAndSummaryType, AwaitMore DEF ProbeRetry, Send
  <2>5. QED
    BY <2>1, <2>2, <2>3, <2>4
<1>5. QED
  BY <1>1, <1>2, <1>4, BindParts DEF BindInv

LEMMA LayerStateBind ==
  ASSUME TypeOK, FilesInv, BindInv, LayerStateKnown \/ LayerStateCached \/ LayerStateUnknown
  PROVE  BindInv'
<1> DEFINE m == Head(toHost)
<1>0. /\ cache \in [Builds -> Keymap] /\ AllWhole(cache) /\ LinkSound /\ fw \in Builds
      /\ status \in Status /\ OwnBindings(km) /\ OwnFiles(cache)
  BY DEF TypeOK, FilesInv, FilesWhole, AllWhole, BindInv
<1>1. Received("CurrentLayer") /\ linked /\ fw' = fw /\ cache' = cache
  BY DEF LayerStateKnown, LayerStateCached, LayerStateUnknown, Received
<1>2. m \in Report /\ m.build = fw
  BY <1>0, <1>1, HeadSound
<1>3. CASE LayerStateCached
  <2>1. Hit(cache, fw) /\ km' = Load(cache, fw) /\ status'.buildId = fw
    BY <1>2, <1>3 DEF LayerStateCached
  <2>2. km'.build = fw /\ OwnBindings(km')
    BY <1>0, <2>1, LoadWhole, LoadOwn DEF Hit
  <2>3. Discovering'
    BY <1>1, <2>1, <2>2 DEF Discovering
  <2>4. QED
    BY <1>0, <1>1, <2>2, <2>3, BindParts
<1>4. CASE LayerStateKnown \/ LayerStateUnknown
  <2>1. km' = km /\ status'.buildId = fw
    BY <1>0, <1>2, <1>4 DEF LayerStateKnown, LayerStateUnknown, Status
  <2>2. Discovering => Discovering'
    BY <1>1, <2>1 DEF Discovering
  <2>3. Awaiting => Awaiting'
    BY <1>1, <1>4, SummaryType, AwaitHandled DEF LayerStateKnown, LayerStateUnknown, Send
  <2>4. QED
    BY <1>0, <1>1, <2>1, <2>2, <2>3, BindParts DEF BindInv
<1>5. QED
  BY <1>3, <1>4

LEMMA SummaryBind ==
  ASSUME TypeOK, FilesInv, BindInv, SummaryCached \/ SummaryDiscover
  PROVE  BindInv'
<1> DEFINE m == Head(toHost)
<1>0. /\ cache \in [Builds -> Keymap] /\ AllWhole(cache) /\ LinkSound /\ fw \in Builds
      /\ km \in Keymap /\ OwnFiles(cache)
  BY DEF TypeOK, FilesInv, FilesWhole, AllWhole, BindInv
<1>1. Received("Summary") /\ fw' = fw /\ cache' = cache
  BY DEF SummaryCached, SummaryDiscover
<1>2. m \in Report /\ m.build = fw
  BY <1>0, <1>1, HeadSound
<1>3. status'.buildId = fw
  BY <1>2 DEF SummaryCached, SummaryDiscover
<1>4. km'.build = fw /\ OwnBindings(km')
  <2>1. CASE SummaryCached
    BY <1>0, <1>2, <2>1, LoadWhole, LoadOwn DEF SummaryCached, Hit
  <2>2. CASE SummaryDiscover
    <3>1. km' = Summarised(km, fw)
      BY <1>2, <2>2 DEF SummaryDiscover
    <3>2. Summarised(km, fw).build = fw
      BY <1>0, ClearedType DEF Summarised, Keymap
    <3>3. QED
      BY <1>0, <3>1, <3>2, SummarisedOwn
  <2>3. QED
    BY <2>1, <2>2
<1>5. Discovering'
  BY <1>1, <1>3, <1>4 DEF Discovering
<1>6. QED
  BY <1>0, <1>1, <1>4, <1>5, BindParts

LEMMA LayerInfoBind ==
  ASSUME TypeOK, FilesInv, BindInv, LayerInfoNext \/ LayerInfoDone
  PROVE  BindInv'
<1> DEFINE m == Head(toHost)
           k == WithLayer(km, m)
<1>0. /\ cache \in [Builds -> Keymap] /\ LinkSound /\ km \in Keymap /\ status \in Status
      /\ OwnBindings(km) /\ OwnFiles(cache)
  BY DEF TypeOK, FilesInv, BindInv
<1>1. Received("LayerInfo") /\ fw' = fw /\ km' = k /\ status'.buildId = status.buildId
  BY <1>0 DEF LayerInfoNext, LayerInfoDone, Status
<1>2. m \in Report /\ Discovering
  BY <1>0, <1>1, HeadSound
<1>3. /\ k \in Keymap /\ k.build = km.build /\ k.bindings = km.bindings
      /\ k.sensorBindings = km.sensorBindings
  BY <1>0, <1>2, WithLayerType DEF WithLayer, Keymap
<1>4. OwnBindings(k)
  BY <1>0, <1>3, SameBindingsOwn
<1> HIDE DEF k
<1>5. Discovering'
  BY <1>1, <1>2, <1>3 DEF Discovering
<1>6. OwnFiles(cache')
  <2>1. CASE LayerInfoNext
    BY <1>0, <2>1 DEF LayerInfoNext
  <2>2. CASE LayerInfoDone
    <3>1. Write(Save(cache, k), {})
      BY <2>2 DEF LayerInfoDone, k
    <3>2. QED
      BY <1>0, <1>3, <1>4, <3>1, SaveOwn, WriteOwn
  <2>3. QED
    BY <2>1, <2>2
<1>7. QED
  BY <1>1, <1>4, <1>5, <1>6, BindParts

\* A binding or sensor that is handled comes from the build of the keymap and of the
\* status, so the list of its layer goes to the file of that build.
LEMMA SlotBind ==
  ASSUME TypeOK, FilesInv, BindInv, BindingNext \/ BindingDone \/ SensorNext \/ SensorDone
  PROVE  BindInv'
<1> DEFINE m == Head(toHost)
           kb == WithBinding(km, m)
           ks == WithSensor(km, m)
<1>0. /\ cache \in [Builds -> Keymap] /\ AllWhole(cache) /\ LinkSound /\ km \in Keymap
      /\ status \in Status /\ OwnBindings(km) /\ OwnFiles(cache) /\ fw \in Builds
  BY DEF TypeOK, FilesInv, FilesWhole, AllWhole, BindInv
<1>1. PICK kind \in SlotKinds, qs \in Seq(Query) :
        Received(kind) /\ (toKbd' = toKbd \o qs \/ toKbd' = toKbd)
  BY <1>0, ChainStep
<1>2. m \in Report /\ m.build = fw /\ linked
  BY <1>0, <1>1, HeadSound DEF Received
<1>3. Discovering
  BY <1>1, <1>2, AwaitHandled DEF BindInv, SlotKinds
<1>4. /\ kb \in Keymap /\ kb.build = fw /\ ks \in Keymap /\ ks.build = fw
      /\ OwnBindings(kb) /\ OwnBindings(ks)
  BY <1>0, <1>2, <1>3, WithBindingKeeps, WithSensorKeeps, WithBindingOwn, WithSensorOwn
  DEF Discovering
<1>5. km' \in {kb, ks} /\ fw' = fw /\ status' = status
  BY DEF BindingNext, BindingDone, SensorNext, SensorDone
<1>6. Discovering' /\ OwnBindings(km')
  BY <1>3, <1>4, <1>5 DEF Discovering
<1>7. status.buildId = fw /\ fw \in Maybe /\ m.layer \in Idx
  BY <1>0, <1>2, <1>3 DEF Discovering, Maybe, Report
<1> HIDE DEF kb, ks
<1>8. OwnFiles(cache')
  <2>1. CASE BindingNext \/ SensorNext
    BY <1>0, <2>1 DEF BindingNext, SensorNext
  <2>2. CASE BindingDone
    <3> DEFINE list == kb.bindings[m.layer]
    <3>1. Write(UpdateBindings(cache, fw, m.layer, list), {})
      BY <1>7, <2>2 DEF BindingDone, kb
    <3>2. list \in [Pos -> Maybe] /\ \A p \in Pos : list[p] \in {NoBuild, fw}
      BY <1>4, <1>7 DEF Keymap, OwnBindings
    <3> HIDE DEF list
    <3>3. QED
      BY <1>0, <1>7, <3>1, <3>2, UpdateBindingsOwn, WriteOwn
  <2>3. CASE SensorDone
    <3> DEFINE list == ks.sensorBindings[m.layer]
    <3>1. Write(UpdateSensors(cache, fw, m.layer, list), {})
      BY <1>7, <2>3 DEF SensorDone, ks
    <3>2. list \in [SenIdx -> Maybe] /\ \A s \in SenIdx : list[s] \in {NoBuild, fw}
      BY <1>4, <1>7 DEF Keymap, OwnBindings
    <3> HIDE DEF list
    <3>3. QED
      BY <1>0, <1>7, <3>1, <3>2, UpdateSensorsOwn, WriteOwn
  <2>4. QED
    BY <2>1, <2>2, <2>3
<1>9. QED
  BY <1>6, <1>8, BindParts

LEMMA RequestBind ==
  ASSUME TypeOK, TypeOK', FilesInv, FilesInv', BindInv, Request
  PROVE  BindInv'
<1>0. /\ cache \in [Builds -> Keymap] /\ cache' \in [Builds -> Keymap] /\ km \in Keymap
      /\ AllWhole(cache) /\ AllWhole(cache') /\ status \in Status /\ fw \in Builds
      /\ OwnBindings(km) /\ OwnFiles(cache) /\ <<>> \in Seq(Query)
  BY DEF TypeOK, FilesInv, FilesWhole, AllWhole, BindInv
<1>1. linked /\ linked' /\ fw' = fw /\ toHost' = toHost
  BY DEF Request, GetStatus, GetLayers, GetKeymap, RefreshKeymap, RefreshAndGet, ClearCache
<1>2. ASSUME NEW st \in Status, st.buildId = status.buildId, NEW k \in Keymap,
             k.build = km.build, OwnBindings(k), NEW r \in Lookups(cache', st, k),
             km' = r.km, status' = r.st, OwnFiles(cache'),
             NEW qs \in Seq(Query), toKbd' = toKbd \o qs \/ toKbd' = toKbd
      PROVE  BindInv'
  <2>1. OwnBindings(km')
    BY <1>0, <1>2, LookupsOwn
  <2>2. Discovering => Discovering'
    <3>1. SUFFICES ASSUME Discovering PROVE Discovering'
      OBVIOUS
    <3>2. k.build = fw /\ st.buildId = fw
      BY <1>2, <3>1 DEF Discovering
    <3>3. r.km.build = fw /\ r.st.buildId = fw
      BY <1>0, <1>2, <3>2, LookupsStay
    <3>4. QED
      BY <1>1, <1>2, <3>3 DEF Discovering
  <2>3. Awaiting => Awaiting'
    BY <1>1, <1>2, AwaitMore
  <2>4. QED
    BY <1>1, <1>2, <2>1, <2>2, <2>3, BindParts DEF BindInv
<1>3. ASSUME NEW b \in Maybe, Write(Removed(cache, b), {"request"})
      PROVE  OwnFiles(cache')
  <2>1. OwnFiles(Removed(cache, b))
    BY <1>0, NoKeymapOwn DEF OwnFiles, Removed
  <2>2. QED
    BY <1>0, <1>3, <2>1, WriteOwn
<1>4. status.buildId \in Maybe
  BY <1>0 DEF Status
<1>5. CASE GetStatus
  <2>1. Discovering => Discovering'
    BY <1>0, <1>5, BuildsAssumption DEF GetStatus, Discovering
  <2>2. km' = km /\ cache' = cache /\ (Awaiting => Awaiting')
    BY <1>5 DEF GetStatus, Awaiting
  <2>3. QED
    BY <1>0, <1>1, <2>1, <2>2, BindParts DEF BindInv
<1>6. CASE GetLayers
  <2>1. PICK r \in Lookups(cache', status, km) : km' = r.km /\ status' = r.st
    BY <1>6 DEF GetLayers
  <2>2. toKbd' = toKbd /\ cache' = cache
    BY <1>6 DEF GetLayers
  <2>3. QED
    BY <1>0, <1>2, <2>1, <2>2
<1>7. ASSUME NEW l \in Idx \cup {AllLayers}, GetKeymap(l)
      PROVE  BindInv'
  <2>1. PICK r \in Lookups(cache', status, km) :
          km' = r.km /\ status' = r.st /\ toKbd' = toKbd \o Wanted(r.km, l)
    BY <1>7 DEF GetKeymap, Send
  <2>2. cache' = cache
    BY <1>7 DEF GetKeymap
  <2>3. Wanted(r.km, l) \in Seq(Query)
    BY <1>0, <2>1, LookupsType, WantedType DEF FoundRecord
  <2>4. QED
    BY <1>0, <1>2, <2>1, <2>2, <2>3
<1>8. CASE RefreshKeymap
  <2>1. /\ km' = Dropped(km) /\ status'.buildId = status.buildId
        /\ toKbd' = toKbd \o <<Ask("Summary", 0, 0)>>
    BY <1>0, <1>8 DEF RefreshKeymap, Send, Status
  <2>2. OwnFiles(cache')
    BY <1>3, <1>4, <1>8 DEF RefreshKeymap
  <2>3. km'.build = km.build /\ OwnBindings(km')
    BY <1>0, <2>1, DroppedOwn DEF Dropped, Cleared, Keymap
  <2>4. Discovering => Discovering'
    BY <1>1, <2>1, <2>3 DEF Discovering
  <2>5. Awaiting => Awaiting'
    BY <1>1, <2>1, SummaryType, AwaitMore
  <2>6. QED
    BY <1>1, <2>2, <2>3, <2>4, <2>5, BindParts DEF BindInv
<1>9. ASSUME NEW l \in Idx \cup {AllLayers}, RefreshAndGet(l)
      PROVE  BindInv'
  <2> DEFINE st == [status EXCEPT !.cached = FALSE]
             k == Dropped(km)
  <2>1. PICK r \in Lookups(cache', st, k) :
          /\ km' = r.km /\ status' = r.st
          /\ toKbd' = toKbd \o (<<Ask("Summary", 0, 0)>> \o Wanted(r.km, l))
    BY <1>9 DEF RefreshAndGet, Send
  <2>2. OwnFiles(cache')
    BY <1>3, <1>4, <1>9 DEF RefreshAndGet
  <2>3. /\ st \in Status /\ st.buildId = status.buildId
        /\ k \in Keymap /\ k.build = km.build /\ OwnBindings(k)
    BY <1>0, DroppedType, DroppedOwn DEF Status, Dropped, Cleared, Keymap
  <2> HIDE DEF st, k
  <2>4. Wanted(r.km, l) \in Seq(Query)
    BY <1>0, <2>1, <2>3, LookupsType, WantedType DEF FoundRecord
  <2>5. <<Ask("Summary", 0, 0)>> \o Wanted(r.km, l) \in Seq(Query)
    BY <2>4, SummaryType, SeqFacts
  <2>6. QED
    BY <1>2, <2>1, <2>2, <2>3, <2>5
<1>10. CASE ClearCache
  <2>1. status' = status /\ km' = km /\ toKbd' = toKbd
    BY <1>10 DEF ClearCache
  <2>2. OwnFiles(cache')
    BY <1>0, <1>10, NoKeymapOwn DEF ClearCache, OwnFiles
  <2>3. QED
    BY <1>0, <1>1, <2>1, <2>2, BindParts DEF BindInv, Discovering, Awaiting
<1>11. QED
  BY <1>5, <1>6, <1>7, <1>8, <1>9, <1>10 DEF Request

LEMMA InitBind == Init => BindInv
<1> SUFFICES ASSUME Init PROVE BindInv
  OBVIOUS
<1>1. ASSUME NEW b \in Builds PROVE OwnBindings(Stored(b))
  <2>1. Stored(b).bindings = NoBindings /\ Stored(b).sensorBindings = NoSensors
    BY DEF Stored, NoKeymap
  <2>2. QED
    BY <2>1 DEF OwnBindings, NoBindings, NoSensors
<1>2. OwnFiles(cache)
  BY <1>1, NoKeymapOwn DEF Init, OwnFiles
<1>3. QED
  BY <1>2, NoKeymapOwn DEF Init, BindInv

LEMMA StepBind ==
  ASSUME "Summary" \notin Losable, TypeOK, TypeOK', FilesInv, FilesInv', BindInv,
         [Next]_vars
  PROVE  BindInv'
<1>1. CASE Connect \/ Disconnect \/ Flash
  BY <1>1, ConnectionBind
<1>2. CASE KeyboardAnswer \/ LayerChange \/ LoseExchange \/ ProbeRetry
  BY <1>2, KeyboardBind
<1>3. CASE Handle
  BY <1>3, LayerStateBind, SummaryBind, LayerInfoBind, SlotBind DEF Handle
<1>4. CASE Request
  BY <1>4, RequestBind
<1>5. CASE UNCHANGED vars
  BY <1>5 DEF vars, BindInv, Discovering, Awaiting, OwnFiles, OwnBindings
<1>6. QED
  BY <1>1, <1>2, <1>3, <1>4, <1>5 DEF Next, Environment

\* As long as no summary is lost, a keymap in memory or in a file holds only bindings
\* of its own build: a keymap that onConnect shows from the file of another firmware
\* gets no binding before the summary has put the keyboard's own in its place.
THEOREM BindingsOfOneBuildAlways ==
  ASSUME "Summary" \notin Losable
  PROVE  Spec => []BindingsOfOneBuild
<1>1. BindInv => BindingsOfOneBuild
  BY DEF BindInv, OwnFiles, BindingsOfOneBuild
<1>2. TypeOK /\ TypeOK' /\ FilesInv /\ FilesInv' /\ BindInv /\ [Next]_vars => BindInv'
  BY StepBind
<1>3. QED
  BY <1>1, <1>2, InitBind, TypeCorrect, FilesInvAlways, PTL DEF Spec

-----------------------------------------------------------------------------
(* A layer with its bindings gets its sensors *)

\* The first n sensors of layer l are known.
SensorsTo(k, l, n) == \A s \in SenIdx : s < n => k.sensorBindings[l][s] # NoBuild

\* In s is the next link of the chain of sensor queries for layer l of keymap k.
ChainIn(s, k, l) ==
  \E q \in Items(s) : /\ q.kind = "Sensor" /\ q.layer = l /\ q.pos < Sensors
                      /\ SensorsTo(k, l, q.pos)

Chained(k, l) == SensorsTo(k, l, Sensors) \/ ChainIn(toHost, k, l) \/ ChainIn(toKbd, k, l)

\* The last key's binding is what starts the chain of sensors.
LastKnown(k, l) == l < LayerCount[fw] /\ k.bindings[l][Keys - 1] # NoBuild

SensorInv ==
  linked /\ km.sensors > 0 =>
    /\ km.sensors = Sensors /\ km.keys = Keys
    /\ \A l \in Idx : LastKnown(km, l) => Chained(km, l)

LEMMA SensorParts ==
  ASSUME km'.sensors = Sensors, km'.keys = Keys,
         \A l \in Idx : l < LayerCount[fw'] /\ km'.bindings[l][Keys - 1] # NoBuild =>
           SensorsTo(km', l, Sensors) \/ ChainIn(toHost', km', l) \/ ChainIn(toKbd', km', l)
  PROVE  SensorInv'
BY DEF SensorInv, LastKnown, Chained

\* Only the report it waits for ends a chain.
LEMMA ChainStays ==
  ASSUME NEW k, NEW k2, NEW l,
         \A s \in SenIdx : k.sensorBindings[l][s] # NoBuild => k2.sensorBindings[l][s] # NoBuild,
         \A q \in Items(toHost) : q.kind = "Sensor" => q \in Items(toHost'),
         \A q \in Items(toKbd) : q.kind = "Sensor" => q \in Items(toKbd'),
         Chained(k, l)
  PROVE  SensorsTo(k2, l, Sensors) \/ ChainIn(toHost', k2, l) \/ ChainIn(toKbd', k2, l)
<1>1. \A n : SensorsTo(k, l, n) => SensorsTo(k2, l, n)
  BY DEF SensorsTo
<1>2. QED
  BY <1>1 DEF Chained, ChainIn

\* A keymap that has just been looked up, loaded or set up has nothing to chain.
LEMMA LookupsSensors ==
  ASSUME NEW c \in [Builds -> Keymap], NEW st \in Status, NEW k
  PROVE  /\ \A r \in AnyCached(c, st, k) : r.km = k \/ r.km.sensors = 0
         /\ \A r \in Lookups(c, st, k) : r.km = k \/ r.km.sensors = 0
<1>1. \A b \in Builds : Load(c, b).sensors = 0
  BY DEF Load, Keymap
<1>2. \A b \in Maybe : Found(c, b, st, k).km = k \/ Found(c, b, st, k).km.sensors = 0
  BY <1>1 DEF Found, Maybe
<1>3. \A r \in AnyCached(c, st, k) : r.km = k \/ r.km.sensors = 0
  BY <1>2 DEF AnyCached, CachedBuilds, Maybe
<1>4. QED
  BY <1>2, <1>3 DEF Lookups, Status, Maybe

LEMMA SensorIdle ==
  ASSUME km'.sensors = 0
  PROVE  SensorInv'
BY DEF SensorInv

\* A step that leaves the header of the keymap, its bindings and the chains.
LEMMA SensorFrame ==
  ASSUME SensorInv, linked, fw' = fw, km'.sensors = km.sensors, km'.keys = km.keys,
         km'.bindings = km.bindings, km'.sensorBindings = km.sensorBindings,
         \A q \in Items(toHost) : q.kind = "Sensor" => q \in Items(toHost'),
         \A q \in Items(toKbd) : q.kind = "Sensor" => q \in Items(toKbd')
  PROVE  SensorInv'
<1>1. CASE ~(km.sensors > 0)
  BY <1>1 DEF SensorInv
<1>2. CASE km.sensors > 0
  <2>1. ASSUME NEW l \in Idx, l < LayerCount[fw'], km'.bindings[l][Keys - 1] # NoBuild
        PROVE  SensorsTo(km', l, Sensors) \/ ChainIn(toHost', km', l) \/ ChainIn(toKbd', km', l)
    <3>1. Chained(km, l)
      BY <1>2, <2>1 DEF SensorInv, LastKnown
    <3>2. QED
      BY <3>1, ChainStays
  <2>2. km'.sensors = Sensors /\ km'.keys = Keys
    BY <1>2 DEF SensorInv
  <2>3. QED
    BY <2>1, <2>2, SensorParts
<1>3. QED
  BY <1>1, <1>2

LEMMA ConnectionSensor ==
  ASSUME TypeOK, FilesInv, SensorInv, Connect \/ Disconnect \/ Flash
  PROVE  SensorInv'
<1>1. CASE Connect
  <2>1. PICK r \in AnyCached(cache, NewStatus, NoKeymap) : km' = r.km
    BY <1>1 DEF Connect
  <2>2. NewStatus \in Status
    BY DEF NewStatus, Status, Maybe
  <2>3. km'.sensors = 0
    BY <2>1, <2>2, LookupsSensors DEF TypeOK, NoKeymap
  <2>4. QED
    BY <2>3, SensorIdle
<1>2. CASE Disconnect \/ Flash
  BY <1>2 DEF Disconnect, Flash, SensorInv
<1>3. QED
  BY <1>1, <1>2

\* The keyboard answers a sensor query about a layer that it has, and none is lost.
LEMMA KeyboardSensor ==
  ASSUME "Sensor" \notin Losable, TypeOK, FilesInv, SensorInv,
         KeyboardAnswer \/ LayerChange \/ LoseExchange \/ ProbeRetry
  PROVE  SensorInv'
<1>1. /\ fw' = fw /\ linked' = linked /\ km' = km
  BY DEF KeyboardAnswer, LayerChange, LoseExchange, ProbeRetry
<1>2. CASE ~linked
  BY <1>1, <1>2 DEF SensorInv
<1>3. CASE linked /\ KeyboardAnswer
  <2> DEFINE h == Head(toKbd)
  <2>1. /\ Items(toKbd) = {h} \cup Items(toKbd')
        /\ Items(toHost') = Items(toHost) \cup (IF Answers(h) THEN {Reply(h)} ELSE {})
        /\ Reply(h).kind = h.kind /\ Reply(h).layer = h.layer /\ Reply(h).pos = h.pos
    BY <1>3, AnsweredItems, AskedItems
  <2>2. \A l : h.layer = l /\ l < LayerCount[fw] => Answers(h)
    BY DEF Answers
  <2> HIDE DEF h
  <2>3. CASE km.sensors > 0
    <3>1. ASSUME NEW l \in Idx, l < LayerCount[fw'], km'.bindings[l][Keys - 1] # NoBuild
          PROVE  SensorsTo(km', l, Sensors) \/ ChainIn(toHost', km', l) \/ ChainIn(toKbd', km', l)
      <4>1. Chained(km, l)
        BY <1>1, <1>3, <2>3, <3>1 DEF SensorInv, LastKnown
      <4>2. ChainIn(toHost, km, l) => ChainIn(toHost', km, l)
        BY <2>1 DEF ChainIn
      <4>3. ChainIn(toKbd, km, l) => ChainIn(toHost', km, l) \/ ChainIn(toKbd', km, l)
        BY <1>1, <2>1, <2>2, <3>1 DEF ChainIn
      <4>4. QED
        BY <1>1, <4>1, <4>2, <4>3 DEF Chained
    <3>2. QED
      BY <1>1, <1>3, <2>3, <3>1, SensorParts DEF SensorInv
  <2>4. QED
    BY <1>1, <2>3 DEF SensorInv
<1>4. CASE linked /\ (LayerChange \/ LoseExchange \/ ProbeRetry)
  <2>1. \A q \in Items(toHost) : q.kind = "Sensor" => q \in Items(toHost')
    BY <1>4, ChangeItems DEF LayerChange, LoseExchange, ProbeRetry
  <2>2. \A q \in Items(toKbd) : q.kind = "Sensor" => q \in Items(toKbd')
    BY <1>4, LostItems, SentItems, AskCurrentAndSummaryType DEF LayerChange, ProbeRetry
  <2>3. QED
    BY <1>1, <1>4, <2>1, <2>2, SensorFrame
<1>5. QED
  BY <1>2, <1>3, <1>4

LEMMA SyncReportsSensor ==
  ASSUME TypeOK, FilesInv, SensorInv,
         \/ LayerStateKnown \/ LayerStateCached \/ LayerStateUnknown
         \/ SummaryCached \/ SummaryDiscover
         \/ LayerInfoNext \/ LayerInfoDone
  PROVE  SensorInv'
<1> DEFINE m == Head(toHost)
<1>0. /\ cache \in [Builds -> Keymap] /\ km \in Keymap /\ LinkSound /\ toKbd \in Seq(Query)
  BY DEF TypeOK, FilesInv
<1>1. linked /\ fw' = fw
  BY DEF LayerStateKnown, LayerStateCached, LayerStateUnknown, SummaryCached, SummaryDiscover,
     LayerInfoNext, LayerInfoDone, Received
<1>2. CASE LayerStateCached \/ SummaryCached
  <2>1. PICK kind : Received(kind)
    BY <1>2 DEF LayerStateCached, SummaryCached
  <2>2. m.build \in Builds /\ km' = Load(cache, m.build)
    BY <1>0, <1>2, <2>1, HeadSound DEF LayerStateCached, SummaryCached, Report
  <2>3. km'.sensors = 0
    BY <1>0, <2>2 DEF Load, Keymap
  <2>4. QED
    BY <2>3, SensorIdle
<1>3. CASE SummaryDiscover
  <2>1. Received("Summary") /\ km' = Summarised(km, m.build)
    BY <1>3 DEF SummaryDiscover
  <2>2. /\ km'.sensors = Sensors /\ km'.keys = Keys /\ km'.bindings = NoBindings
    BY <1>0, <2>1 DEF Summarised, Cleared, Keymap
  <2>3. \A l \in Idx : km'.bindings[l][Keys - 1] = NoBuild
    BY <2>2, SizesAssumption DEF NoBindings, Pos
  <2>4. QED
    BY <2>2, <2>3, SensorParts
<1>4. CASE LayerStateKnown \/ LayerStateUnknown \/ LayerInfoNext \/ LayerInfoDone
  <2>1. PICK kind \in {"CurrentLayer", "LayerInfo"} : Received(kind)
    BY <1>4 DEF LayerStateKnown, LayerStateUnknown, LayerInfoNext, LayerInfoDone
  <2>2. m \in Report /\ m.kind # "Sensor"
    BY <1>0, <2>1, HeadSound
  <2>3. \A q \in Items(toHost) : q.kind = "Sensor" => q \in Items(toHost')
    BY <2>1, <2>2, ItemsTail DEF TypeOK, Received
  <2>4. \A q \in Items(toKbd) : q \in Items(toKbd')
    <3>1. CASE LayerStateKnown \/ LayerInfoDone
      BY <3>1 DEF LayerStateKnown, LayerInfoDone
    <3>2. CASE LayerStateUnknown
      BY <3>2, SummaryType, SentItems DEF LayerStateUnknown
    <3>3. CASE LayerInfoNext
      <4> DEFINE k == WithLayer(km, m)
      <4>1. k \in Keymap
        BY <1>0, <2>2, WithLayerType
      <4> HIDE DEF k
      <4>2. NumLayers(k) \in Nat /\ k.layerCount \in 0..MaxLayers
        BY <4>1, NumLayersType DEF Keymap
      <4>3. NumLayers(k) < k.layerCount /\ Send(<<Ask("LayerInfo", NumLayers(k), 0)>>)
        BY <3>3 DEF LayerInfoNext, k
      <4>4. NumLayers(k) \in Idx
        BY <4>2, <4>3, SizesAssumption DEF Idx
      <4>5. <<Ask("LayerInfo", NumLayers(k), 0)>> \in Seq(Query)
        BY <4>4, AskType DEF QueryKinds
      <4>6. QED
        BY <4>3, <4>5, SentItems
    <3>4. QED
      BY <1>4, <3>1, <3>2, <3>3
  <2>5. /\ km'.sensors = km.sensors /\ km'.keys = km.keys /\ km'.bindings = km.bindings
        /\ km'.sensorBindings = km.sensorBindings
    <3>1. km' = km \/ km' = WithLayer(km, m)
      BY <1>4 DEF LayerStateKnown, LayerStateUnknown, LayerInfoNext, LayerInfoDone
    <3>2. QED
      BY <1>0, <3>1 DEF WithLayer, Keymap
  <2>6. QED
    BY <1>1, <2>3, <2>4, <2>5, SensorFrame
<1>5. QED
  BY <1>2, <1>3, <1>4

\* The last key's binding starts a chain for its layer; any other one changes nothing.
LEMMA BindingSensor ==
  ASSUME TypeOK, FilesInv, SensorInv, BindingNext \/ BindingDone
  PROVE  SensorInv'
<1> DEFINE m == Head(toHost)
           k == WithBinding(km, m)
<1>0. km \in Keymap /\ LinkSound /\ Keys - 1 \in Pos /\ Keys \in Nat /\ Sensors \in Nat
  BY SizesAssumption DEF TypeOK, FilesInv, Pos
<1>1. Received("Binding") /\ linked /\ fw' = fw /\ km' = k
  BY DEF BindingNext, BindingDone, Received
<1>2. m \in Report /\ m.kind = "Binding" /\ m.layer \in Idx /\ m.pos \in Nat
  BY <1>0, <1>1, HeadSound DEF Report
<1>3. /\ k.sensors = km.sensors /\ k.keys = km.keys
      /\ k.sensorBindings = km.sensorBindings
  BY <1>0, <1>2, WithBindingKeeps
<1>4. \A l \in Idx : k.bindings[l][Keys - 1] =
        IF l = m.layer /\ Keys - 1 = m.pos THEN m.build ELSE km.bindings[l][Keys - 1]
  <2>1. /\ k.bindings = [km.bindings EXCEPT ![m.layer][m.pos] = m.build]
        /\ km.bindings \in [Idx -> [Pos -> Maybe]]
    BY <1>0 DEF WithBinding, Keymap
  <2>2. QED
    BY <1>0, <2>1
<1> HIDE DEF k
<1>5. \A q \in Items(toHost) : q.kind = "Sensor" => q \in Items(toHost')
  BY <1>1, <1>2, ItemsTail DEF TypeOK, Received
<1>6. CASE ~(km.sensors > 0)
  BY <1>1, <1>3, <1>6 DEF SensorInv
<1>7. CASE km.sensors > 0
  <2>1. km.sensors = Sensors /\ km.keys = Keys
    BY <1>1, <1>7 DEF SensorInv
  <2>2. \A q \in Items(toKbd) : q \in Items(toKbd')
    <3>1. PICK kind \in SlotKinds, qs \in Seq(Query) :
            /\ Received(kind)
            /\ toKbd' = toKbd \o qs \/ (toKbd' = toKbd /\ qs = <<>>)
      BY <1>0, ChainStep
    <3>2. QED
      BY <3>1, HandledItems
  <2>3. ASSUME NEW l \in Idx, l < LayerCount[fw'], km'.bindings[l][Keys - 1] # NoBuild
        PROVE  SensorsTo(km', l, Sensors) \/ ChainIn(toHost', km', l) \/ ChainIn(toKbd', km', l)
    <3>1. CASE LastKnown(km, l)
      <4>1. Chained(km, l)
        BY <1>1, <1>7, <3>1 DEF SensorInv
      <4>2. QED
        BY <1>1, <1>3, <1>5, <2>2, <4>1, ChainStays
    <3>2. CASE ~LastKnown(km, l)
      <4>1. l = m.layer /\ m.pos = Keys - 1
        BY <1>1, <1>4, <2>3, <3>2 DEF LastKnown
      <4>2. BindingDone
        BY <1>0, <2>1, <4>1 DEF BindingNext
      <4>3. Send(<<Ask("Sensor", l, 0)>>)
        BY <1>3, <1>7, <4>1, <4>2 DEF BindingDone, k
      <4>4. <<Ask("Sensor", l, 0)>> \in Seq(Query)
        BY AskType DEF QueryKinds
      <4>5. Ask("Sensor", l, 0) \in Items(toKbd')
        BY <4>3, <4>4, SentItems, ItemsOne
      <4>6. SensorsTo(km', l, 0)
        BY DEF SensorsTo, SenIdx
      <4>7. QED
        BY <1>7, <2>1, <4>5, <4>6, AskedItems DEF ChainIn
    <3>3. QED
      BY <3>1, <3>2
  <2>4. QED
    BY <1>1, <1>3, <2>1, <2>3, SensorParts
<1>8. QED
  BY <1>6, <1>7

\* A sensor's binding moves its chain on, or ends it with the last sensor.
LEMMA SensorSensor ==
  ASSUME TypeOK, FilesInv, SensorInv, SensorNext \/ SensorDone
  PROVE  SensorInv'
<1> DEFINE m == Head(toHost)
           k == WithSensor(km, m)
<1>0. km \in Keymap /\ LinkSound /\ Sensors \in Nat
  BY SizesAssumption DEF TypeOK, FilesInv
<1>1. Received("Sensor") /\ linked /\ fw' = fw /\ km' = k
  BY DEF SensorNext, SensorDone, Received
<1>2. m \in Report /\ m.build \in Builds /\ m.layer \in Idx /\ m.pos \in Nat
  BY <1>0, <1>1, HeadSound DEF Report
<1>3. k.sensors = km.sensors /\ k.keys = km.keys /\ k.bindings = km.bindings
  BY <1>0, <1>2, WithSensorKeeps
<1>4. \A l \in Idx, s \in SenIdx : k.sensorBindings[l][s] =
        IF l = m.layer /\ s = m.pos THEN m.build ELSE km.sensorBindings[l][s]
  <2>1. /\ k.sensorBindings = [km.sensorBindings EXCEPT ![m.layer][m.pos] = m.build]
        /\ km.sensorBindings \in [Idx -> [SenIdx -> Maybe]]
    BY <1>0 DEF WithSensor, Keymap
  <2>2. QED
    BY <2>1
<1> HIDE DEF k
<1>5. \A l \in Idx, s \in SenIdx :
        km.sensorBindings[l][s] # NoBuild => k.sensorBindings[l][s] # NoBuild
  BY <1>2, <1>4, BuildsAssumption
<1>6. CASE ~(km.sensors > 0)
  BY <1>1, <1>3, <1>6 DEF SensorInv
<1>7. CASE km.sensors > 0
  <2>1. km.sensors = Sensors /\ km.keys = Keys
    BY <1>1, <1>7 DEF SensorInv
  <2>2. PICK kind \in SlotKinds, qs \in Seq(Query) :
          /\ Received(kind)
          /\ toKbd' = toKbd \o qs \/ (toKbd' = toKbd /\ qs = <<>>)
    BY <1>0, ChainStep
  <2>3. /\ Items(toHost) = {m} \cup Items(toHost')
        /\ \A q \in Items(toKbd) : q \in Items(toKbd')
    BY <2>2, HandledItems
  <2>4. ASSUME NEW l \in Idx, l < LayerCount[fw'], km'.bindings[l][Keys - 1] # NoBuild
        PROVE  SensorsTo(km', l, Sensors) \/ ChainIn(toHost', km', l) \/ ChainIn(toKbd', km', l)
    <3>1. Chained(km, l)
      BY <1>1, <1>3, <1>7, <2>4 DEF SensorInv, LastKnown
    <3>2. \A n : SensorsTo(km, l, n) => SensorsTo(k, l, n)
      BY <1>5 DEF SensorsTo
    <3>3. CASE SensorsTo(km, l, Sensors) \/ ChainIn(toHost', km, l) \/ ChainIn(toKbd, km, l)
      BY <1>1, <2>3, <3>2, <3>3 DEF ChainIn
    <3>4. CASE m.layer = l /\ m.pos < Sensors /\ SensorsTo(km, l, m.pos)
      <4>1. SensorsTo(k, l, m.pos + 1)
        <5>1. ASSUME NEW s \in SenIdx, s < m.pos + 1 PROVE k.sensorBindings[l][s] # NoBuild
          <6>1. CASE s = m.pos
            BY <1>2, <1>4, <3>4, <6>1, BuildsAssumption
          <6>2. CASE s # m.pos
            <7>1. s < m.pos
              BY <1>2, <5>1, <6>2 DEF SenIdx
            <7>2. QED
              BY <1>5, <3>4, <7>1 DEF SensorsTo
          <6>3. QED
            BY <6>1, <6>2
        <5>2. QED
          BY <5>1 DEF SensorsTo
      <4>2. CASE SensorNext
        <5>1. m.pos + 1 < Sensors /\ Send(<<Ask("Sensor", l, m.pos + 1)>>)
          BY <2>1, <3>4, <4>2 DEF SensorNext
        <5>2. <<Ask("Sensor", l, m.pos + 1)>> \in Seq(Query)
          BY <1>2, AskType DEF QueryKinds
        <5>3. Ask("Sensor", l, m.pos + 1) \in Items(toKbd')
          BY <5>1, <5>2, SentItems, ItemsOne
        <5>4. QED
          BY <1>1, <4>1, <5>1, <5>3, AskedItems DEF ChainIn
      <4>3. CASE SensorDone
        <5>1. m.pos + 1 = Sensors
          BY <1>0, <1>2, <2>1, <3>4, <4>3 DEF SensorDone
        <5>2. QED
          BY <1>1, <4>1, <5>1
      <4>4. QED
        BY <4>2, <4>3
    <3>5. QED
      BY <2>3, <3>1, <3>3, <3>4 DEF Chained, ChainIn
  <2>5. QED
    BY <1>1, <1>3, <2>1, <2>4, SensorParts
<1>8. QED
  BY <1>6, <1>7

LEMMA RequestSensor ==
  ASSUME TypeOK, TypeOK', FilesInv, SensorInv, Request
  PROVE  SensorInv'
<1>0. /\ cache \in [Builds -> Keymap] /\ cache' \in [Builds -> Keymap] /\ km \in Keymap
      /\ status \in Status
  BY DEF TypeOK
<1>1. linked /\ fw' = fw /\ toHost' = toHost
  BY DEF Request, GetStatus, GetLayers, GetKeymap, RefreshKeymap, RefreshAndGet, ClearCache
<1>2. ASSUME \A q \in Items(toKbd) : q \in Items(toKbd'), km' = km
      PROVE  SensorInv'
  BY <1>1, <1>2, SensorFrame
<1>3. ASSUME km' = Dropped(km)
      PROVE  SensorInv'
  <2>1. /\ km'.sensors = km.sensors /\ km'.keys = km.keys /\ km'.bindings = NoBindings
    BY <1>0, <1>3 DEF Dropped, Cleared, Keymap
  <2>2. \A l \in Idx : km'.bindings[l][Keys - 1] = NoBuild
    BY <2>1, SizesAssumption DEF NoBindings, Pos
  <2>3. QED
    BY <1>1, <2>1, <2>2, SensorParts DEF SensorInv
<1>4. CASE GetStatus \/ ClearCache
  BY <1>2, <1>4 DEF GetStatus, ClearCache
<1>5. CASE GetLayers
  <2>1. PICK r \in Lookups(cache, status, km) : km' = r.km
    BY <1>5 DEF GetLayers
  <2>2. toKbd' = toKbd /\ (km' = km \/ km'.sensors = 0)
    BY <1>0, <1>5, <2>1, LookupsSensors DEF GetLayers
  <2>3. QED
    BY <1>2, <2>2, SensorIdle
<1>6. ASSUME NEW l \in Idx \cup {AllLayers}, GetKeymap(l)
      PROVE  SensorInv'
  <2>1. PICK r \in Lookups(cache, status, km) : km' = r.km /\ Send(Wanted(r.km, l))
    BY <1>6 DEF GetKeymap
  <2>2. Wanted(r.km, l) \in Seq(Query)
    BY <1>0, <2>1, LookupsType, WantedType DEF FoundRecord
  <2>3. \A q \in Items(toKbd) : q \in Items(toKbd')
    BY <2>1, <2>2, SentItems
  <2>4. QED
    BY <1>0, <1>2, <2>1, <2>3, LookupsSensors, SensorIdle
<1>7. CASE RefreshKeymap
  BY <1>3, <1>7 DEF RefreshKeymap
<1>8. ASSUME NEW l \in Idx \cup {AllLayers}, RefreshAndGet(l)
      PROVE  SensorInv'
  <2>1. PICK r \in Lookups(cache', [status EXCEPT !.cached = FALSE], Dropped(km)) : km' = r.km
    BY <1>8 DEF RefreshAndGet
  <2>2. [status EXCEPT !.cached = FALSE] \in Status
    BY <1>0 DEF Status
  <2>3. km' = Dropped(km) \/ km'.sensors = 0
    BY <1>0, <2>1, <2>2, LookupsSensors
  <2>4. QED
    BY <1>3, <2>3, SensorIdle
<1>9. QED
  BY <1>4, <1>5, <1>6, <1>7, <1>8 DEF Request

LEMMA StepSensor ==
  ASSUME "Sensor" \notin Losable, TypeOK, TypeOK', FilesInv, SensorInv, [Next]_vars
  PROVE  SensorInv'
<1>1. CASE Connect \/ Disconnect \/ Flash
  BY <1>1, ConnectionSensor
<1>2. CASE KeyboardAnswer \/ LayerChange \/ LoseExchange \/ ProbeRetry
  BY <1>2, KeyboardSensor
<1>3. CASE Handle
  BY <1>3, SyncReportsSensor, BindingSensor, SensorSensor DEF Handle
<1>4. CASE Request
  BY <1>4, RequestSensor
<1>5. CASE UNCHANGED vars
  BY <1>5 DEF vars, SensorInv, LastKnown, Chained
<1>6. QED
  BY <1>1, <1>2, <1>3, <1>4, <1>5 DEF Next, Environment

\* As long as no sensor query or its answer is lost, a layer whose last key was read
\* from a keyboard with sensors has all its sensor bindings once nothing is in flight,
\* whatever else is lost, requested or refreshed meanwhile: onBinding's chain of sensor
\* queries runs to its end or the bindings are dropped with it.
THEOREM FetchedLayersHaveSensorsAlways ==
  ASSUME "Sensor" \notin Losable
  PROVE  Spec => []FetchedLayersHaveSensors
<1>1. Init => SensorInv
  BY DEF Init, SensorInv
<1>2. TypeOK /\ SensorInv => FetchedLayersHaveSensors
  <2>1. SUFFICES ASSUME TypeOK, SensorInv, linked, toKbd = <<>>, toHost = <<>>, km.sensors > 0,
                        NEW i \in 0..(LayerCount[fw] - 1), FullLayer(km, i)
                 PROVE  \A s \in SenIdx : km.sensorBindings[i][s] # NoBuild
    BY DEF FetchedLayersHaveSensors
  <2>2. i \in Idx /\ i < LayerCount[fw] /\ Keys - 1 \in Pos
    BY <2>1, SizesAssumption DEF TypeOK, Idx, Pos
  <2>3. Chained(km, i)
    BY <2>1, <2>2 DEF SensorInv, LastKnown, FullLayer
  <2>4. Items(toKbd) = {} /\ Items(toHost) = {}
    BY <2>1, ItemsOne
  <2>5. SensorsTo(km, i, Sensors)
    BY <2>3, <2>4 DEF Chained, ChainIn
  <2>6. QED
    BY <2>5, SizesAssumption DEF SensorsTo, SenIdx
<1>3. TypeOK /\ TypeOK' /\ FilesInv /\ SensorInv /\ [Next]_vars => SensorInv'
  BY StepSensor
<1>4. QED
  BY <1>1, <1>2, <1>3, TypeCorrect, FilesInvAlways, PTL DEF Spec

-----------------------------------------------------------------------------
(* Files keep the bindings they have *)

\* The keys before p of layer l are known.
KnownTo(k, l, p) == \A q \in Pos : q < p => k.bindings[l][q] # NoBuild

KeepFiles(c) ==
  \A b \in Builds : /\ c[b].present => c[b].keys = Keys
                    /\ ~c[b].present => c[b].bindings = NoBindings

\* Memory and files of a daemon connected to a keyboard that runs b. At the keyboard's
\* build, memory knows at least what the file does. At another one it was shown from a
\* file, or it has no layers and there is no file that an update could reach.
KeepMemory(k, st, c, b) ==
  /\ k.build = b =>
       /\ st.buildId = b /\ k.keys = Keys
       /\ c[b].present => \A l \in Idx : FullLayer(c[b], l) => FullLayer(k, l)
  /\ k.build # b /\ HasLayers(k) => st.buildId # NoBuild /\ k.keys = Keys
  /\ k.build # b /\ ~HasLayers(k) /\ st.buildId # NoBuild => ~c[st.buildId].present
  /\ st.buildId = NoBuild => k.keys = 0

\* A chain of bindings for a keymap that was shown from another build's file has left
\* no key out.
KeepChains(s, k, st, b) ==
  \A q \in Items(s) : q.kind = "Binding" =>
    /\ st.buildId # NoBuild
    /\ k.build # b /\ HasLayers(k) => KnownTo(k, q.layer, q.pos)

Keep ==
  /\ KeepFiles(cache)
  /\ linked => /\ KeepMemory(km, status, cache, fw)
               /\ KeepChains(toKbd, km, status, fw) /\ KeepChains(toHost, km, status, fw)

KeepInv == left["disk"] <= Budget["disk"] /\ (NoDiskFailure => Keep)

-----------------------------------------------------------------------------
(* The budget of disk failures *)

LEMMA SpendDisk ==
  ASSUME TypeOK, NEW kinds \in SUBSET BudgetKinds, Spend(kinds)
  PROVE  left'["disk"] = IF "disk" \in kinds THEN left["disk"] - 1 ELSE left["disk"]
BY DEF TypeOK, Spend, BudgetKinds

\* A change of the files that spent no failure has happened.
LEMMA WriteDone ==
  ASSUME TypeOK, left["disk"] <= Budget["disk"], NEW c, NEW spent \in SUBSET BudgetKinds,
         Write(c, spent), "disk" \notin spent
  PROVE  /\ left'["disk"] \in {left["disk"], left["disk"] - 1}
         /\ NoDiskFailure' => cache' = c
         /\ cache' \in {cache, c}
<1>1. left["disk"] \in Nat /\ Budget["disk"] \in Nat
  BY BoundsAssumption DEF TypeOK, BudgetKinds
<1>2. CASE cache' = c /\ Spend(spent)
  BY <1>2, SpendDisk
<1>3. CASE cache' = cache /\ Spend(spent \cup {"disk"})
  <2>1. spent \cup {"disk"} \in SUBSET BudgetKinds
    BY DEF BudgetKinds
  <2>2. left'["disk"] = left["disk"] - 1
    BY <1>3, <2>1, SpendDisk
  <2>3. QED
    BY <1>1, <1>3, <2>2 DEF NoDiskFailure
<1>4. QED
  BY <1>2, <1>3 DEF Write

LEMMA BudgetOnlyFalls ==
  ASSUME TypeOK, left["disk"] <= Budget["disk"], [Next]_vars
  PROVE  left'["disk"] <= Budget["disk"] /\ (NoDiskFailure' => NoDiskFailure)
<1>1. left["disk"] \in Nat /\ Budget["disk"] \in Nat
  BY BoundsAssumption DEF TypeOK, BudgetKinds
<1>2. left'["disk"] \in {left["disk"], left["disk"] - 1}
  <2>1. CASE left' = left
    BY <2>1
  <2>2. CASE \E kinds \in SUBSET BudgetKinds : Spend(kinds)
    BY <2>2, SpendDisk
  <2>3. CASE \E c, spent : Write(c, spent) /\ spent \in SUBSET BudgetKinds /\ "disk" \notin spent
    BY <2>3, WriteDone
  <2>4. CASE Connect \/ Flash \/ LayerChange \/ LoseExchange
    BY <2>2, <2>4 DEF Connect, Flash, LayerChange, LoseExchange, BudgetKinds
  <2>5. CASE Disconnect \/ KeyboardAnswer \/ ProbeRetry \/ GetStatus \/ GetLayers \/ UNCHANGED vars
    BY <2>1, <2>5 DEF Disconnect, KeyboardAnswer, ProbeRetry, GetStatus, GetLayers, vars
  <2>6. CASE Handle
    <3>1. CASE LayerInfoDone \/ BindingDone \/ SensorDone
      BY <2>3, <3>1 DEF LayerInfoDone, BindingDone, SensorDone
    <3>2. CASE ~(LayerInfoDone \/ BindingDone \/ SensorDone)
      BY <2>1, <2>6, <3>2 DEF Handle, LayerStateKnown, LayerStateCached, LayerStateUnknown,
         SummaryCached, SummaryDiscover, LayerInfoNext, BindingNext, SensorNext
    <3>3. QED
      BY <3>1, <3>2
  <2>7. CASE RefreshKeymap \/ ClearCache
             \/ \E l \in Idx \cup {AllLayers} : GetKeymap(l) \/ RefreshAndGet(l)
    <3>1. CASE RefreshKeymap
      BY <2>3, <3>1 DEF RefreshKeymap, BudgetKinds
    <3>2. CASE ClearCache
      BY <2>2, <3>2 DEF ClearCache, BudgetKinds
    <3>3. ASSUME NEW l, GetKeymap(l) PROVE left'["disk"] \in {left["disk"], left["disk"] - 1}
      BY <2>2, <3>3 DEF GetKeymap, BudgetKinds
    <3>4. ASSUME NEW l, RefreshAndGet(l) PROVE left'["disk"] \in {left["disk"], left["disk"] - 1}
      BY <2>3, <3>4 DEF RefreshAndGet, BudgetKinds
    <3>5. QED
      BY <2>7, <3>1, <3>2, <3>3, <3>4
  <2>8. QED
    BY <2>4, <2>5, <2>6, <2>7 DEF Next, Request, Environment
<1>3. QED
  BY <1>1, <1>2 DEF NoDiskFailure
-----------------------------------------------------------------------------
(* What a step does to the files and to the keymap in memory *)

LEMMA WithBindingGrows ==
  ASSUME NEW k \in Keymap, NEW m \in Report
  PROVE  /\ \A l \in Idx, p \in Pos :
              k.bindings[l][p] # NoBuild => WithBinding(k, m).bindings[l][p] # NoBuild
         /\ m.pos \in Pos => WithBinding(k, m).bindings[m.layer][m.pos] # NoBuild
<1>1. WithBinding(k, m).bindings = [k.bindings EXCEPT ![m.layer][m.pos] = m.build]
  BY DEF WithBinding, Keymap
<1>2. k.bindings \in [Idx -> [Pos -> Maybe]] /\ m.layer \in Idx /\ m.build # NoBuild
  BY BuildsAssumption DEF Keymap, Report
<1>3. QED
  BY <1>1, <1>2

\* A file is rewritten with the same header and all but one of its lists.
LEMMA UpdateBindingsFile ==
  ASSUME NEW c \in [Builds -> Keymap], AllWhole(c), NEW b \in Maybe, NEW l \in Idx,
         NEW list \in [Pos -> Maybe], NEW x \in Builds
  PROVE  LET u == UpdateBindings(c, b, l, list) IN
         /\ u[x].present = c[x].present /\ u[x].keys = c[x].keys
         /\ u[x].bindings = IF x = b /\ c[b].present THEN [c[b].bindings EXCEPT ![l] = list]
                            ELSE c[x].bindings
<1> DEFINE k == Load(c, b)
           k2 == [k EXCEPT !.bindings[l] = list]
           file == [k2 EXCEPT !.present = TRUE, !.sensors = 0]
<1>1. CASE b = NoBuild \/ ~c[b].present
  BY <1>1, BuildsAssumption DEF UpdateBindings
<1>2. CASE b # NoBuild /\ c[b].present
  <2>1. b \in Builds /\ k \in Keymap /\ k.build = b /\ c[b] \in Keymap
    BY <1>2, LoadWhole DEF Maybe
  <2>2. k.keys = c[b].keys /\ k.bindings = c[b].bindings
    BY <2>1 DEF Load, Keymap
  <2>3. UpdateBindings(c, b, l, list) = Save(c, k2)
    BY <1>2 DEF UpdateBindings
  <2> HIDE DEF k
  <2>4. k2 \in Keymap /\ k2.build = b /\ k2.keys = c[b].keys
        /\ k2.bindings = [c[b].bindings EXCEPT ![l] = list]
    BY <2>1, <2>2 DEF Keymap
  <2>5. Save(c, k2) = [c EXCEPT ![b] = file]
    BY <1>2, <2>4 DEF Save
  <2> HIDE DEF k2
  <2>6. file.present = c[b].present /\ file.keys = c[b].keys
        /\ file.bindings = [c[b].bindings EXCEPT ![l] = list]
    BY <1>2, <2>1, <2>4 DEF Keymap
  <2> HIDE DEF file
  <2>7. UpdateBindings(c, b, l, list)[x] = IF x = b THEN file ELSE c[x]
    BY <2>1, <2>3, <2>5
  <2>8. CASE x = b
    BY <1>2, <2>6, <2>7, <2>8
  <2>9. CASE x # b
    BY <2>7, <2>9
  <2>10. QED
    BY <2>8, <2>9
<1>3. QED
  BY <1>1, <1>2

LEMMA UpdateSensorsFile ==
  ASSUME NEW c \in [Builds -> Keymap], AllWhole(c), NEW b \in Maybe, NEW l \in Idx,
         NEW list \in [SenIdx -> Maybe], NEW x \in Builds
  PROVE  LET u == UpdateSensors(c, b, l, list) IN
         u[x].present = c[x].present /\ u[x].keys = c[x].keys /\ u[x].bindings = c[x].bindings
<1> DEFINE k == Load(c, b)
           k2 == [k EXCEPT !.sensorBindings[l] = list]
           file == [k2 EXCEPT !.present = TRUE, !.sensors = 0]
<1>1. CASE b = NoBuild \/ ~c[b].present
  BY <1>1 DEF UpdateSensors
<1>2. CASE b # NoBuild /\ c[b].present
  <2>1. b \in Builds /\ k \in Keymap /\ k.build = b /\ c[b] \in Keymap
    BY <1>2, LoadWhole DEF Maybe
  <2>2. k.keys = c[b].keys /\ k.bindings = c[b].bindings
    BY <2>1 DEF Load, Keymap
  <2>3. UpdateSensors(c, b, l, list) = Save(c, k2)
    BY <1>2 DEF UpdateSensors
  <2> HIDE DEF k
  <2>4. k2 \in Keymap /\ k2.build = b /\ k2.keys = c[b].keys /\ k2.bindings = c[b].bindings
    BY <2>1, <2>2 DEF Keymap
  <2>5. Save(c, k2) = [c EXCEPT ![b] = file]
    BY <1>2, <2>4 DEF Save
  <2> HIDE DEF k2
  <2>6. file.present = c[b].present /\ file.keys = c[b].keys /\ file.bindings = c[b].bindings
    BY <1>2, <2>1, <2>4 DEF Keymap
  <2> HIDE DEF file
  <2>7. QED
    BY <1>2, <2>1, <2>3, <2>5, <2>6
<1>3. QED
  BY <1>1, <1>2

\* The save that ends a discovery.
LEMMA SaveFile ==
  ASSUME NEW c \in [Builds -> Keymap], NEW k \in Keymap, NEW b \in Builds, k.build = b,
         NEW x \in Builds
  PROVE  IF x = b THEN /\ Save(c, k)[x].present /\ Save(c, k)[x].keys = k.keys
                       /\ Save(c, k)[x].bindings = k.bindings
         ELSE Save(c, k)[x] = c[x]
<1> DEFINE file == [k EXCEPT !.present = TRUE, !.sensors = 0]
<1>1. file.present /\ file.keys = k.keys /\ file.bindings = k.bindings
  BY DEF Keymap
<1>2. Save(c, k) = [c EXCEPT ![b] = file]
  BY BuildsAssumption DEF Save
<1> HIDE DEF file
<1>3. QED
  BY <1>1, <1>2

\* The keymap of a file with a keymap in it, and the file it came from.
LEMMA LoadKnows ==
  ASSUME NEW c \in [Builds -> Keymap], AllWhole(c), KeepFiles(c), NEW b \in Builds, c[b].present
  PROVE  /\ Load(c, b).build = b /\ Load(c, b).keys = Keys
         /\ Load(c, b).bindings = c[b].bindings
         /\ HasLayers(Load(c, b))
<1>1. Load(c, b).build = b /\ HasLayers(Load(c, b))
  BY LoadWhole, WholeHasLayers
<1>2. Load(c, b).keys = Keys /\ Load(c, b).bindings = c[b].bindings
  BY DEF Load, Keymap, KeepFiles
<1>3. QED
  BY <1>1, <1>2

LEMMA NoFileNotFull ==
  ASSUME NEW c, KeepFiles(c), NEW b \in Builds, NEW i \in Idx, FullLayer(c[b], i)
  PROVE  c[b].present
<1>1. 0 \in Pos
  BY SizesAssumption DEF Pos
<1>2. QED
  BY <1>1 DEF KeepFiles, FullLayer, NoBindings
-----------------------------------------------------------------------------
(* Lookups, refreshes and the link, seen by Keep *)

LEMMA LookupKeeps ==
  ASSUME NEW c \in [Builds -> Keymap], AllWhole(c), KeepFiles(c), NEW st \in Status,
         NEW k, NEW b \in Builds, KeepMemory(k, st, c, b), NEW r \in Lookups(c, st, k)
  PROVE  /\ KeepMemory(r.km, r.st, c, b)
         /\ r.st.buildId # NoBuild \/ st.buildId = NoBuild
         /\ \/ r.km = k /\ r.st = st
            \/ r.km.build = b
            \/ st.buildId = NoBuild
<1>1. CASE r.km = k /\ r.st = st
  BY <1>1
<1>2. ASSUME NEW x \in Builds, Hit(c, x), r.km = Load(c, x), r.st.buildId = x
      PROVE  KeepMemory(r.km, r.st, c, b)
  BY <1>2, LoadKnows, BuildsAssumption DEF KeepMemory, FullLayer, Hit
<1>3. CASE \E x \in Builds : r = Found(c, x, st, k) /\ (st.buildId = NoBuild \/ st.buildId = x)
           /\ ~HasLayers(k)
  <2>1. PICK x \in Builds : r = Found(c, x, st, k) /\ (st.buildId = NoBuild \/ st.buildId = x)
    BY <1>3
  <2>2. x # NoBuild
    BY BuildsAssumption
  <2>3. CASE ~Hit(c, x)
    BY <1>1, <2>1, <2>3 DEF Found
  <2>4. CASE Hit(c, x)
    <3>1. r.km = Load(c, x) /\ r.st.buildId = x
      BY <2>1, <2>2, <2>4 DEF Found
    <3>2. st.buildId # NoBuild => k.build = b /\ st.buildId = b
      BY <1>3, <2>1, <2>4 DEF KeepMemory, Hit
    <3>3. r.km.build = x
      BY <2>4, <3>1, LoadKnows DEF Hit
    <3>4. QED
      BY <1>2, <2>1, <2>2, <2>4, <3>1, <3>2, <3>3
  <2>5. QED
    BY <2>3, <2>4
<1>4. CASE r = Found(c, NoBuild, st, k)
  BY <1>1, <1>4 DEF Found
<1>5. QED
  BY <1>3, <1>4 DEF Lookups, AnyCached, CachedBuilds, Status, Maybe

LEMMA ConnectKeeps ==
  ASSUME NEW c \in [Builds -> Keymap], AllWhole(c), KeepFiles(c), NEW b \in Builds,
         NEW r \in AnyCached(c, NewStatus, NoKeymap)
  PROVE  KeepMemory(r.km, r.st, c, b)
<1>1. NewStatus \in Status /\ NewStatus.buildId = NoBuild
  BY DEF NewStatus, Status, Maybe
<1>2. /\ NoKeymap.build = NoBuild /\ NoKeymap.keys = 0 /\ ~HasLayers(NoKeymap)
      /\ b # NoBuild
  BY BuildsAssumption DEF NoKeymap, HasLayers, Filled, NoLayers
<1>3. KeepMemory(NoKeymap, NewStatus, c, b)
  BY <1>1, <1>2 DEF KeepMemory
<1>4. r \in Lookups(c, NewStatus, NoKeymap)
  BY <1>1, <1>2 DEF Lookups
<1>5. QED
  BY <1>1, <1>3, <1>4, LookupKeeps

\* A refresh whose remove has happened leaves nothing to keep of the status' build.
LEMMA RefreshKeeps ==
  ASSUME NEW c \in [Builds -> Keymap], KeepFiles(c), NEW st \in Status,
         NEW k \in Keymap, NEW b \in Builds, KeepMemory(k, st, c, b)
  PROVE  /\ KeepFiles(Removed(c, st.buildId))
         /\ KeepMemory(Dropped(k), [st EXCEPT !.cached = FALSE], Removed(c, st.buildId), b)
         /\ ~HasLayers(Dropped(k))
<1> DEFINE c2 == Removed(c, st.buildId)
           st2 == [st EXCEPT !.cached = FALSE]
           k2 == Dropped(k)
<1>1. st2.buildId = st.buildId /\ st.buildId \in Maybe
  BY DEF Status
<1>2. /\ k2.build = k.build /\ k2.keys = k.keys /\ ~HasLayers(k2)
  BY DEF Dropped, Cleared, Keymap, HasLayers, Filled, NoLayers
<1>3. \A x \in Builds : c2[x] = IF x = st.buildId THEN NoKeymap ELSE c[x]
  BY BuildsAssumption DEF Removed
<1>4. ~NoKeymap.present /\ NoKeymap.bindings = NoBindings
  BY DEF NoKeymap
<1>5. KeepFiles(c2)
  BY <1>3, <1>4 DEF KeepFiles
<1> HIDE DEF c2, st2, k2
<1>6. KeepMemory(k2, st2, c2, b)
  BY <1>1, <1>2, <1>3, <1>4 DEF KeepMemory, Maybe
<1>7. QED
  BY <1>2, <1>5, <1>6 DEF c2, st2, k2
-----------------------------------------------------------------------------
(* Keep is inductive as long as no change of the files fails *)

LEMMA KeepParts ==
  ASSUME KeepFiles(cache'),
         linked' => /\ KeepMemory(km', status', cache', fw')
                    /\ KeepChains(toKbd', km', status', fw')
                    /\ KeepChains(toHost', km', status', fw')
  PROVE  Keep'
BY DEF Keep, KeepFiles, KeepMemory, KeepChains, KnownTo, FullLayer, HasLayers

\* What is on the link names layers that a keymap has.
LEMMA LinkLayers ==
  ASSUME TypeOK
  PROVE  /\ \A q \in Items(toKbd) : q.layer \in Idx
         /\ \A q \in Items(toHost) : q.layer \in Idx
<1>1. Items(toKbd) \subseteq Query /\ Items(toHost) \subseteq Report
  BY ItemsType DEF TypeOK
<1>2. QED
  BY <1>1 DEF Query, Report

LEMMA ConnectionKeep ==
  ASSUME TypeOK, FilesInv, Keep, Connect \/ Disconnect \/ Flash
  PROVE  Keep'
<1>1. cache' = cache /\ KeepFiles(cache) /\ cache \in [Builds -> Keymap] /\ AllWhole(cache)
      /\ fw \in Builds
  BY DEF Connect, Disconnect, Flash, Keep, TypeOK, FilesInv, FilesWhole, AllWhole
<1>2. CASE Disconnect \/ Flash
  <2>1. ~linked'
    BY <1>2 DEF Disconnect, Flash
  <2>2. QED
    BY <1>1, <2>1, KeepParts
<1>3. CASE Connect
  <2>1. PICK r \in AnyCached(cache, NewStatus, NoKeymap) : km' = r.km /\ status' = r.st
    BY <1>3 DEF Connect
  <2>2. fw' = fw /\ KeepMemory(km', status', cache', fw')
    BY <1>1, <1>3, <2>1, ConnectKeeps DEF Connect
  <2>3. Items(toKbd') = Items(toKbd) \cup Items(AskCurrentAndSummary)
    BY <1>3, SentItems, AskCurrentAndSummaryType DEF Connect
  <2>4. Items(toKbd) = {} /\ Items(toHost) = {} /\ toHost' = toHost
    BY <1>3, ItemsOne DEF Connect, FilesInv, LinkSound
  <2>5. KeepChains(toKbd', km', status', fw') /\ KeepChains(toHost', km', status', fw')
    BY <2>3, <2>4, AskedItems DEF KeepChains
  <2>6. QED
    BY <1>1, <2>2, <2>5, KeepParts
<1>4. QED
  BY <1>2, <1>3

LEMMA KeyboardKeep ==
  ASSUME TypeOK, FilesInv, Keep,
         KeyboardAnswer \/ LayerChange \/ LoseExchange \/ ProbeRetry
  PROVE  Keep'
<1>1. cache' = cache /\ km' = km /\ status' = status /\ fw' = fw /\ linked' = linked
      /\ KeepFiles(cache)
  BY DEF KeyboardAnswer, LayerChange, LoseExchange, ProbeRetry, Keep
<1>2. \A q \in Items(toKbd') : q.kind = "Binding" => q \in Items(toKbd)
  <2>1. CASE KeyboardAnswer \/ LoseExchange
    BY <2>1, AnsweredItems, LostItems
  <2>2. CASE LayerChange
    BY <2>2 DEF LayerChange
  <2>3. CASE ProbeRetry
    <3>1. Items(toKbd') = Items(toKbd) \cup Items(AskCurrentAndSummary)
      BY <2>3, SentItems, AskCurrentAndSummaryType DEF ProbeRetry
    <3>2. QED
      BY <3>1, AskedItems
  <2>4. QED
    BY <2>1, <2>2, <2>3
<1>3. \A q \in Items(toHost') : q.kind = "Binding" =>
        \/ q \in Items(toHost)
        \/ \E q2 \in Items(toKbd) :
             q2.kind = "Binding" /\ q2.layer = q.layer /\ q2.pos = q.pos
  <2>1. CASE KeyboardAnswer
    BY <2>1, AnsweredItems, AskedItems
  <2>2. CASE LayerChange
    BY <2>2, ChangeItems, AskedItems
  <2>3. CASE LoseExchange \/ ProbeRetry
    BY <2>3 DEF LoseExchange, ProbeRetry
  <2>4. QED
    BY <2>1, <2>2, <2>3
<1>4. KeepChains(toKbd, km, status, fw) => KeepChains(toKbd', km, status, fw)
  BY <1>2 DEF KeepChains
<1>5. KeepChains(toKbd, km, status, fw) /\ KeepChains(toHost, km, status, fw)
        => KeepChains(toHost', km, status, fw)
  BY <1>3 DEF KeepChains
<1>6. QED
  BY <1>1, <1>4, <1>5, KeepParts DEF Keep

LEMMA LayerStateKeep ==
  ASSUME TypeOK, FilesInv, Keep, LayerStateKnown \/ LayerStateCached \/ LayerStateUnknown
  PROVE  Keep'
<1> DEFINE m == Head(toHost)
<1>0. /\ cache \in [Builds -> Keymap] /\ AllWhole(cache) /\ LinkSound /\ status \in Status
      /\ fw \in Builds /\ fw # NoBuild /\ KeepFiles(cache)
  BY BuildsAssumption DEF TypeOK, FilesInv, FilesWhole, AllWhole, Keep
<1>1. Received("CurrentLayer") /\ linked /\ linked' = linked /\ fw' = fw /\ cache' = cache
  BY DEF LayerStateKnown, LayerStateCached, LayerStateUnknown, Received
<1>2. m.build = fw /\ m.kind = "CurrentLayer"
  BY <1>0, <1>1, HeadSound
<1>3. /\ KeepMemory(km, status, cache, fw)
      /\ KeepChains(toKbd, km, status, fw) /\ KeepChains(toHost, km, status, fw)
  BY <1>1 DEF Keep
<1>4. PICK qs \in Seq(Query) :
        /\ toKbd' = toKbd \o qs \/ (toKbd' = toKbd /\ qs = <<>>)
        /\ \A q \in Items(qs) : q.kind = "Summary"
  <2>1. <<>> \in Seq(Query) /\ <<Ask("Summary", 0, 0)>> \in Seq(Query)
    BY SummaryType
  <2>2. QED
    <3>1. toKbd' = toKbd \/ toKbd' = toKbd \o <<Ask("Summary", 0, 0)>>
      BY DEF LayerStateKnown, LayerStateCached, LayerStateUnknown, Send
    <3>2. /\ \A q \in Items(<<>>) : q.kind = "Summary"
          /\ \A q \in Items(<<Ask("Summary", 0, 0)>>) : q.kind = "Summary"
      BY ItemsOne, AskedItems
    <3>3. QED
      BY <2>1, <3>1, <3>2
<1>5. /\ \A q \in Items(toHost') : q \in Items(toHost)
      /\ \A q \in Items(toKbd') : q.kind = "Binding" => q \in Items(toKbd)
      /\ \A q \in Items(toKbd) \cup Items(toHost) : q.layer \in Idx
  BY <1>1, <1>4, HandledItems, LinkLayers
<1>6. status'.buildId = fw
  BY <1>0, <1>2 DEF LayerStateKnown, LayerStateCached, LayerStateUnknown, Status
<1>7. CASE LayerStateKnown \/ LayerStateUnknown
  <2>1. km' = km
    BY <1>7 DEF LayerStateKnown, LayerStateUnknown
  <2>2. ~HasLayers(km) => ~cache[fw].present
    <3>1. SUFFICES ASSUME ~HasLayers(km) PROVE ~cache[fw].present
      OBVIOUS
    <3>2. ~Hit(cache, fw)
      BY <1>2, <1>7, <3>1 DEF LayerStateKnown, LayerStateUnknown
    <3>3. QED
      BY <1>0, <3>2, WholeHasLayers DEF AllWhole, Hit
  <2>3. KeepMemory(km', status', cache', fw')
    BY <1>0, <1>1, <1>3, <1>6, <2>1, <2>2 DEF KeepMemory
  <2>4. KeepChains(toKbd', km', status', fw') /\ KeepChains(toHost', km', status', fw')
    BY <1>0, <1>1, <1>3, <1>5, <1>6, <2>1 DEF KeepChains
  <2>5. QED
    BY <1>0, <1>1, <2>3, <2>4, KeepParts
<1>8. CASE LayerStateCached
  <2>1. km' = Load(cache, fw) /\ cache[fw].present
    BY <1>2, <1>8 DEF LayerStateCached, Hit
  <2>2. km'.build = fw /\ km'.keys = Keys /\ km'.bindings = cache[fw].bindings
    BY <1>0, <2>1, LoadKnows
  <2>3. KeepMemory(km', status', cache', fw')
    BY <1>0, <1>1, <1>6, <2>2 DEF KeepMemory, FullLayer
  <2>4. KeepChains(toKbd', km', status', fw') /\ KeepChains(toHost', km', status', fw')
    BY <1>0, <1>1, <1>3, <1>5, <1>6, <2>2 DEF KeepChains
  <2>5. QED
    BY <1>0, <1>1, <2>3, <2>4, KeepParts
<1>9. QED
  BY <1>7, <1>8
LEMMA SummaryKeep ==
  ASSUME TypeOK, FilesInv, Keep, SummaryCached \/ SummaryDiscover
  PROVE  Keep'
<1> DEFINE m == Head(toHost)
<1>0. /\ cache \in [Builds -> Keymap] /\ AllWhole(cache) /\ LinkSound /\ km \in Keymap
      /\ fw \in Builds /\ fw # NoBuild /\ KeepFiles(cache)
  BY BuildsAssumption DEF TypeOK, FilesInv, FilesWhole, AllWhole, Keep
<1>1. Received("Summary") /\ linked /\ linked' = linked /\ fw' = fw /\ cache' = cache
  BY DEF SummaryCached, SummaryDiscover, Received
<1>2. m.build = fw
  BY <1>0, <1>1, HeadSound
<1>3. KeepChains(toKbd, km, status, fw) /\ KeepChains(toHost, km, status, fw)
  BY <1>1 DEF Keep
<1>4. status'.buildId = fw
  BY <1>2 DEF SummaryCached, SummaryDiscover
<1>5. /\ \A q \in Items(toHost') : q \in Items(toHost)
      /\ \A q \in Items(toKbd') : q.kind = "Binding" => q \in Items(toKbd)
  <2>1. toKbd' = toKbd \/ Send(<<Ask("LayerInfo", 0, 0)>>)
    BY DEF SummaryCached, SummaryDiscover
  <2>2. 0 \in Idx
    BY SizesAssumption DEF Idx
  <2>3. <<Ask("LayerInfo", 0, 0)>> \in Seq(Query)
    BY <2>2, AskType DEF QueryKinds
  <2>4. \A q \in Items(<<Ask("LayerInfo", 0, 0)>>) : q.kind # "Binding"
    BY ItemsOne, AskedItems
  <2>5. Items(toHost) = {m} \cup Items(toHost')
    BY <1>1, ItemsTail DEF Received, TypeOK
  <2>6. QED
    BY <2>1, <2>3, <2>4, <2>5, SentItems
<1>6. /\ km'.build = fw /\ km'.keys = Keys
      /\ cache[fw].present => \A l \in Idx : FullLayer(cache[fw], l) => FullLayer(km', l)
  <2>1. CASE SummaryCached
    <3>1. km' = Load(cache, fw) /\ cache[fw].present
      BY <1>2, <2>1 DEF SummaryCached, Hit
    <3>2. QED
      BY <1>0, <3>1, LoadKnows DEF FullLayer
  <2>2. CASE SummaryDiscover
    <3>1. km' = Summarised(km, fw) /\ ~Hit(cache, fw)
      BY <1>2, <2>2 DEF SummaryDiscover
    <3>2. km'.build = fw /\ km'.keys = Keys
      BY <1>0, <3>1 DEF Summarised, Cleared, Keymap
    <3>3. ~cache[fw].present
      BY <1>0, <3>1, WholeHasLayers DEF AllWhole, Hit
    <3>4. QED
      BY <3>2, <3>3
  <2>3. QED
    BY <2>1, <2>2
<1>7. KeepMemory(km', status', cache', fw')
  BY <1>0, <1>1, <1>4, <1>6 DEF KeepMemory
<1>8. KeepChains(toKbd', km', status', fw') /\ KeepChains(toHost', km', status', fw')
  BY <1>0, <1>1, <1>3, <1>4, <1>5, <1>6 DEF KeepChains
<1>9. QED
  BY <1>0, <1>1, <1>7, <1>8, KeepParts

LEMMA WithLayerKnows ==
  ASSUME NEW k \in Keymap, NEW m \in Report
  PROVE  /\ WithLayer(k, m) \in Keymap /\ WithLayer(k, m).build = k.build
         /\ WithLayer(k, m).keys = k.keys /\ WithLayer(k, m).bindings = k.bindings
BY WithLayerType DEF WithLayer, Keymap, Report

LEMMA LayerInfoKeep ==
  ASSUME TypeOK, FilesInv, Keep, left["disk"] <= Budget["disk"], NoDiskFailure',
         LayerInfoNext \/ LayerInfoDone
  PROVE  Keep'
<1> DEFINE m == Head(toHost)
           k == WithLayer(km, m)
<1>0. /\ cache \in [Builds -> Keymap] /\ LinkSound /\ km \in Keymap /\ status \in Status
      /\ fw \in Builds /\ fw # NoBuild /\ KeepFiles(cache)
  BY BuildsAssumption DEF TypeOK, FilesInv, Keep
<1>1. Received("LayerInfo") /\ linked /\ linked' = linked /\ fw' = fw /\ km' = k
  BY DEF LayerInfoNext, LayerInfoDone, Received
<1>2. m \in Report /\ Discovering
  BY <1>0, <1>1, HeadSound
<1>3. /\ KeepMemory(km, status, cache, fw)
      /\ KeepChains(toKbd, km, status, fw) /\ KeepChains(toHost, km, status, fw)
  BY <1>1 DEF Keep
<1>4. k \in Keymap /\ k.build = fw /\ k.keys = Keys /\ k.bindings = km.bindings
  BY <1>0, <1>2, <1>3, WithLayerKnows DEF Discovering, KeepMemory
<1>5. status'.buildId = fw
  BY <1>0, <1>2 DEF LayerInfoNext, LayerInfoDone, Discovering, Status
<1> HIDE DEF k
<1>6. /\ \A q \in Items(toHost') : q \in Items(toHost)
      /\ \A q \in Items(toKbd') : q.kind = "Binding" => q \in Items(toKbd)
  <2>1. Items(toHost) = {m} \cup Items(toHost')
    BY <1>1, ItemsTail DEF Received, TypeOK
  <2>2. CASE LayerInfoDone
    BY <2>1, <2>2 DEF LayerInfoDone
  <2>3. CASE LayerInfoNext
    <3> DEFINE ask == Ask("LayerInfo", NumLayers(k), 0)
    <3>1. Send(<<ask>>) /\ NumLayers(k) < k.layerCount
      BY <2>3 DEF LayerInfoNext, k
    <3>2. NumLayers(k) \in Idx
      <4>1. NumLayers(k) \in Nat /\ k.layerCount \in 0..MaxLayers
        BY <1>4, NumLayersType DEF Keymap
      <4>2. QED
        BY <3>1, <4>1, SizesAssumption DEF Idx
    <3>3. <<ask>> \in Seq(Query)
      BY <3>2, AskType DEF QueryKinds
    <3>4. \A q \in Items(<<ask>>) : q.kind # "Binding"
      BY ItemsOne, AskedItems
    <3> HIDE DEF ask
    <3>5. QED
      BY <2>1, <3>1, <3>3, <3>4, SentItems
  <2>4. QED
    BY <2>2, <2>3
<1>7. KeepFiles(cache') /\ KeepMemory(km', status', cache', fw')
  <2>1. CASE LayerInfoNext
    <3>1. cache' = cache
      BY <2>1 DEF LayerInfoNext
    <3>2. QED
      BY <1>0, <1>1, <1>3, <1>4, <1>5, <1>2, <3>1 DEF KeepMemory, FullLayer, Discovering
  <2>2. CASE LayerInfoDone
    <3>1. Write(Save(cache, k), {})
      BY <2>2 DEF LayerInfoDone, k
    <3>2. cache' = Save(cache, k)
      BY <3>1, WriteDone DEF BudgetKinds
    <3>3. \A x \in Builds :
            IF x = fw THEN /\ cache'[x].present /\ cache'[x].keys = Keys
                           /\ cache'[x].bindings = k.bindings
            ELSE cache'[x] = cache[x]
      BY <1>0, <1>4, <3>2, SaveFile
    <3>4. KeepFiles(cache')
      BY <1>0, <3>3 DEF KeepFiles
    <3>5. QED
      BY <1>0, <1>1, <1>4, <1>5, <3>3, <3>4 DEF KeepMemory, FullLayer
  <2>3. QED
    BY <2>1, <2>2
<1>8. KeepChains(toKbd', km', status', fw') /\ KeepChains(toHost', km', status', fw')
  BY <1>0, <1>1, <1>3, <1>4, <1>5, <1>6 DEF KeepChains
<1>9. QED
  BY <1>1, <1>7, <1>8, KeepParts

LEMMA BindingKeep ==
  ASSUME TypeOK, FilesInv, Keep, left["disk"] <= Budget["disk"], NoDiskFailure',
         BindingNext \/ BindingDone
  PROVE  Keep'
<1> DEFINE m == Head(toHost)
           k == WithBinding(km, m)
<1>0. /\ cache \in [Builds -> Keymap] /\ AllWhole(cache) /\ LinkSound /\ km \in Keymap
      /\ status \in Status /\ status.buildId \in Maybe
      /\ fw \in Builds /\ fw # NoBuild /\ KeepFiles(cache)
  BY BuildsAssumption DEF TypeOK, FilesInv, FilesWhole, AllWhole, Keep, Status
<1>1. /\ Received("Binding") /\ linked /\ linked' = linked /\ fw' = fw /\ km' = k
      /\ status' = status
  BY DEF BindingNext, BindingDone, Received
<1>2. m \in Report /\ m.kind = "Binding" /\ m \in Items(toHost) /\ m.layer \in Idx /\ m.pos \in Nat
      /\ Items(toHost) = {m} \cup Items(toHost')
  <2>1. m \in Report /\ m.kind = "Binding"
    BY <1>0, <1>1, HeadSound
  <2>2. Items(toHost) = {m} \cup Items(toHost')
    BY <1>1, ItemsTail DEF Received, TypeOK
  <2>3. QED
    BY <2>1, <2>2 DEF Report
<1>3. /\ KeepMemory(km, status, cache, fw)
      /\ KeepChains(toKbd, km, status, fw) /\ KeepChains(toHost, km, status, fw)
  BY <1>1 DEF Keep
<1>4. /\ k \in Keymap /\ k.build = km.build /\ k.keys = km.keys
      /\ HasLayers(k) <=> HasLayers(km)
      /\ \A l \in Idx, p \in Pos : km.bindings[l][p] # NoBuild => k.bindings[l][p] # NoBuild
      /\ m.pos \in Pos => k.bindings[m.layer][m.pos] # NoBuild
  BY <1>0, <1>2, WithBindingKeeps, WithBindingGrows DEF HasLayers
<1> HIDE DEF k
<1>5. ASSUME NEW s \in {toHost', toKbd'},
             \A q \in Items(s) : q.kind = "Binding" =>
               \/ q \in Items(toHost) \/ q \in Items(toKbd)
               \/ q.layer = m.layer /\ q.pos = m.pos + 1 /\ m.pos + 1 < km.keys,
             \A q \in Items(s) : q.layer \in Idx
      PROVE  KeepChains(s, km', status', fw')
  <2>1. SUFFICES ASSUME NEW q \in Items(s), q.kind = "Binding"
                 PROVE  /\ status.buildId # NoBuild
                        /\ km.build # fw /\ HasLayers(km) => KnownTo(k, q.layer, q.pos)
    BY <1>1, <1>4 DEF KeepChains
  <2>2. status.buildId # NoBuild
    BY <1>2, <1>3 DEF KeepChains
  <2>3. ASSUME km.build # fw, HasLayers(km) PROVE KnownTo(k, q.layer, q.pos)
    <3>1. CASE q \in Items(toHost) \/ q \in Items(toKbd)
      BY <1>3, <1>4, <1>5, <2>1, <2>3, <3>1 DEF KeepChains, KnownTo
    <3>2. CASE q.layer = m.layer /\ q.pos = m.pos + 1 /\ m.pos + 1 < km.keys
      <4>1. km.keys = Keys /\ KnownTo(km, m.layer, m.pos)
        BY <1>2, <1>3, <2>3 DEF KeepMemory, KeepChains
      <4>2. m.pos \in Pos
        BY <1>2, <3>2, <4>1, SizesAssumption DEF Pos
      <4>3. \A p \in Pos : p < m.pos + 1 => p < m.pos \/ p = m.pos
        BY <1>2 DEF Pos
      <4>4. QED
        BY <1>2, <1>4, <3>2, <4>1, <4>2, <4>3 DEF KnownTo
    <3>3. QED
      BY <1>5, <2>1, <3>1, <3>2
  <2>4. QED
    BY <2>2, <2>3
<1>6. KeepChains(toKbd', km', status', fw') /\ KeepChains(toHost', km', status', fw')
  <2>1. \A q \in Items(toHost) \cup Items(toKbd) : q.layer \in Idx
    BY LinkLayers
  <2>2. KeepChains(toHost', km', status', fw')
    BY <1>2, <1>5, <2>1
  <2>3. CASE BindingNext
    <3>1. Send(<<Ask("Binding", m.layer, m.pos + 1)>>) /\ m.pos + 1 < km.keys
      BY <2>3 DEF BindingNext
    <3>2. <<Ask("Binding", m.layer, m.pos + 1)>> \in Seq(Query)
      BY <1>2, AskType DEF QueryKinds
    <3>3. Items(toKbd') = Items(toKbd) \cup {Ask("Binding", m.layer, m.pos + 1)}
      BY <3>1, <3>2, SentItems, ItemsOne
    <3>4. QED
      BY <1>2, <1>5, <2>1, <2>2, <3>1, <3>3, AskedItems
  <2>4. CASE BindingDone
    <3>1. Send(<<Ask("Sensor", m.layer, 0)>>) \/ Send(<<>>)
      BY <2>4 DEF BindingDone
    <3>2. <<Ask("Sensor", m.layer, 0)>> \in Seq(Query) /\ <<>> \in Seq(Query)
      BY <1>2, AskType DEF QueryKinds
    <3>3. \A q \in Items(toKbd') : q \in Items(toKbd) \/ q = Ask("Sensor", m.layer, 0)
      BY <3>1, <3>2, SentItems, ItemsOne
    <3>4. QED
      BY <1>2, <1>5, <2>1, <2>2, <3>3, AskedItems
  <2>5. QED
    BY <2>3, <2>4
<1>7. KeepFiles(cache') /\ KeepMemory(km', status', cache', fw')
  <2>1. ASSUME \A x \in Builds :
                 /\ cache'[x].present = cache[x].present /\ cache'[x].keys = cache[x].keys
                 /\ \/ cache'[x].bindings = cache[x].bindings
                    \/ /\ x = status.buildId /\ cache[x].present
                       /\ cache'[x].bindings =
                            [cache[x].bindings EXCEPT ![m.layer] = k.bindings[m.layer]]
        PROVE  KeepFiles(cache') /\ KeepMemory(km', status', cache', fw')
    <3>1. KeepFiles(cache')
      BY <1>0, <2>1 DEF KeepFiles
    <3>2. ASSUME km.build = fw, cache'[fw].present, NEW l \in Idx, FullLayer(cache'[fw], l)
          PROVE  FullLayer(k, l)
      <4>1. FullLayer(cache[fw], l) => FullLayer(km, l)
        BY <1>0, <1>3, <2>1, <3>2 DEF KeepMemory
      <4>2. FullLayer(km, l) => FullLayer(k, l)
        BY <1>4, <3>2 DEF FullLayer
      <4>3. cache[fw].bindings \in [Idx -> [Pos -> Maybe]]
        BY <1>0 DEF Keymap
      <4>4. cache'[fw].bindings[l] \in {cache[fw].bindings[l], k.bindings[l]}
        <5>1. CASE cache'[fw].bindings = cache[fw].bindings
          BY <5>1
        <5>2. CASE cache'[fw].bindings =
                     [cache[fw].bindings EXCEPT ![m.layer] = k.bindings[m.layer]]
          BY <3>2, <4>3, <5>2
        <5>3. QED
          BY <1>0, <2>1, <5>1, <5>2
      <4>5. QED
        BY <3>2, <4>1, <4>2, <4>4 DEF FullLayer
    <3>3. status.buildId # NoBuild => status.buildId \in Builds
      BY <1>0 DEF Maybe
    <3>4. KeepMemory(km', status', cache', fw')
      BY <1>0, <1>1, <1>3, <1>4, <2>1, <3>2, <3>3 DEF KeepMemory
    <3>5. QED
      BY <3>1, <3>4
  <2>2. CASE BindingNext
    <3>1. cache' = cache
      BY <2>2 DEF BindingNext
    <3>2. QED
      BY <2>1, <3>1
  <2>3. CASE BindingDone
    <3> DEFINE list == k.bindings[m.layer]
    <3>1. Write(UpdateBindings(cache, status.buildId, m.layer, list), {})
      BY <2>3 DEF BindingDone, k
    <3>2. cache' = UpdateBindings(cache, status.buildId, m.layer, list)
      BY <3>1, WriteDone DEF BudgetKinds
    <3>3. list \in [Pos -> Maybe]
      BY <1>2, <1>4 DEF Keymap
    <3> HIDE DEF list
    <3>4. \A x \in Builds :
            /\ cache'[x].present = cache[x].present /\ cache'[x].keys = cache[x].keys
            /\ cache'[x].bindings =
                 IF x = status.buildId /\ cache[status.buildId].present
                 THEN [cache[status.buildId].bindings EXCEPT ![m.layer] = list]
                 ELSE cache[x].bindings
      BY <1>0, <1>2, <3>2, <3>3, UpdateBindingsFile
    <3>5. QED
      BY <2>1, <3>4 DEF list
  <2>4. QED
    BY <2>2, <2>3
<1>8. QED
  BY <1>1, <1>6, <1>7, KeepParts
LEMMA SensorKeep ==
  ASSUME TypeOK, FilesInv, Keep, left["disk"] <= Budget["disk"], NoDiskFailure',
         SensorNext \/ SensorDone
  PROVE  Keep'
<1> DEFINE m == Head(toHost)
           k == WithSensor(km, m)
<1>0. /\ cache \in [Builds -> Keymap] /\ AllWhole(cache) /\ LinkSound /\ km \in Keymap
      /\ status \in Status /\ status.buildId \in Maybe
      /\ fw \in Builds /\ KeepFiles(cache)
  BY DEF TypeOK, FilesInv, FilesWhole, AllWhole, Keep, Status
<1>1. /\ Received("Sensor") /\ linked /\ linked' = linked /\ fw' = fw /\ km' = k
      /\ status' = status
  BY DEF SensorNext, SensorDone, Received
<1>2. m \in Report /\ m.layer \in Idx /\ m.pos \in Nat
  BY <1>0, <1>1, HeadSound DEF Report
<1>3. /\ KeepMemory(km, status, cache, fw)
      /\ KeepChains(toKbd, km, status, fw) /\ KeepChains(toHost, km, status, fw)
  BY <1>1 DEF Keep
<1>4. /\ k \in Keymap /\ k.build = km.build /\ k.keys = km.keys /\ k.bindings = km.bindings
      /\ HasLayers(k) <=> HasLayers(km)
  BY <1>0, <1>2, WithSensorKeeps DEF HasLayers
<1> HIDE DEF k
<1>5. /\ \A q \in Items(toHost') : q \in Items(toHost)
      /\ \A q \in Items(toKbd') : q.kind = "Binding" => q \in Items(toKbd)
  <2>1. Items(toHost) = {m} \cup Items(toHost')
    BY <1>1, ItemsTail DEF Received, TypeOK
  <2>2. toKbd' = toKbd \/ Send(<<Ask("Sensor", m.layer, m.pos + 1)>>)
    BY DEF SensorNext, SensorDone
  <2>3. <<Ask("Sensor", m.layer, m.pos + 1)>> \in Seq(Query)
    BY <1>2, AskType DEF QueryKinds
  <2>4. Items(toKbd') \subseteq Items(toKbd) \cup {Ask("Sensor", m.layer, m.pos + 1)}
    BY <2>2, <2>3, SentItems, ItemsOne
  <2>5. Ask("Sensor", m.layer, m.pos + 1).kind = "Sensor"
    BY AskedItems
  <2>6. QED
    BY <2>1, <2>4, <2>5
<1>6. KeepChains(toKbd', km', status', fw') /\ KeepChains(toHost', km', status', fw')
  BY <1>1, <1>3, <1>4, <1>5 DEF KeepChains, KnownTo
<1>7. \A x \in Builds :
        /\ cache'[x].present = cache[x].present /\ cache'[x].keys = cache[x].keys
        /\ cache'[x].bindings = cache[x].bindings
  <2>1. CASE SensorNext
    BY <2>1 DEF SensorNext
  <2>2. CASE SensorDone
    <3> DEFINE list == k.sensorBindings[m.layer]
    <3>1. Write(UpdateSensors(cache, status.buildId, m.layer, list), {})
      BY <2>2 DEF SensorDone, k
    <3>2. cache' = UpdateSensors(cache, status.buildId, m.layer, list)
      BY <3>1, WriteDone DEF BudgetKinds
    <3>3. list \in [SenIdx -> Maybe]
      BY <1>2, <1>4 DEF Keymap
    <3> HIDE DEF list
    <3>4. QED
      BY <1>0, <1>2, <3>2, <3>3, UpdateSensorsFile
  <2>3. QED
    BY <2>1, <2>2
<1>8. KeepFiles(cache') /\ KeepMemory(km', status', cache', fw')
  BY <1>0, <1>1, <1>3, <1>4, <1>7 DEF KeepFiles, KeepMemory, FullLayer, Maybe
<1>9. QED
  BY <1>1, <1>6, <1>8, KeepParts

\* get_layers and get_keymap: the lookup, and the queries for one layer.
LEMMA LookupKeep ==
  ASSUME TypeOK, linked' = linked, fw' = fw, fw \in Builds,
         cache' \in [Builds -> Keymap], AllWhole(cache'), KeepFiles(cache'),
         NEW st \in Status, NEW k, KeepMemory(k, st, cache', fw),
         KeepChains(toKbd, k, st, fw), KeepChains(toHost, k, st, fw),
         NEW r \in Lookups(cache', st, k), km' = r.km, status' = r.st, toHost' = toHost,
         \A q \in Items(toKbd') :
           q.kind = "Binding" => q \in Items(toKbd) \/ (q.pos = 0 /\ r.km.keys > 0)
  PROVE  Keep'
<1>1. /\ KeepMemory(r.km, r.st, cache', fw)
      /\ r.st.buildId # NoBuild \/ st.buildId = NoBuild
      /\ \/ r.km = k /\ r.st = st
         \/ r.km.build = fw
         \/ st.buildId = NoBuild
  BY LookupKeeps
<1>2. \A q \in Items(toKbd) \cup Items(toHost) : q.kind = "Binding" =>
        /\ r.st.buildId # NoBuild
        /\ r.km.build # fw /\ HasLayers(r.km) => KnownTo(r.km, q.layer, q.pos)
  BY <1>1 DEF KeepChains
<1>3. r.km.keys > 0 => r.st.buildId # NoBuild
  BY <1>1 DEF KeepMemory
<1>4. \A l : KnownTo(r.km, l, 0)
  BY SizesAssumption DEF KnownTo, Pos
<1>5. KeepChains(toKbd', km', status', fw') /\ KeepChains(toHost', km', status', fw')
  BY <1>2, <1>3, <1>4 DEF KeepChains
<1>6. QED
  BY <1>1, <1>5, KeepParts

LEMMA RequestKeep ==
  ASSUME TypeOK, TypeOK', FilesInv, FilesInv', Keep, left["disk"] <= Budget["disk"],
         NoDiskFailure', Request
  PROVE  Keep'
<1>0. /\ cache \in [Builds -> Keymap] /\ cache' \in [Builds -> Keymap] /\ km \in Keymap
      /\ AllWhole(cache) /\ AllWhole(cache') /\ status \in Status /\ fw \in Builds
      /\ KeepFiles(cache) /\ fw # NoBuild
  BY BuildsAssumption DEF TypeOK, FilesInv, FilesWhole, AllWhole, Keep
<1>1. linked /\ linked' = linked /\ fw' = fw /\ toHost' = toHost
  BY DEF Request, GetStatus, GetLayers, GetKeymap, RefreshKeymap, RefreshAndGet, ClearCache
<1>2. /\ KeepMemory(km, status, cache, fw)
      /\ KeepChains(toKbd, km, status, fw) /\ KeepChains(toHost, km, status, fw)
  BY <1>1 DEF Keep
<1>3. ASSUME NEW k \in Keymap, NEW l \in Idx \cup {AllLayers}, NEW q \in Items(Wanted(k, l)),
             q.kind = "Binding"
      PROVE  q.pos = 0 /\ k.keys > 0
  BY <1>3, WantedItems, AskedItems
<1>4. CASE GetStatus
  <2>1. status.buildId # NoBuild
    BY <1>0, <1>2, <1>4 DEF GetStatus, KeepMemory
  <2>2. km' = km /\ status'.buildId = status.buildId /\ cache' = cache /\ toKbd' = toKbd
    BY <1>4, <2>1 DEF GetStatus
  <2>3. KeepMemory(km', status', cache', fw')
    BY <1>1, <1>2, <2>2 DEF KeepMemory
  <2>4. KeepChains(toKbd', km', status', fw') /\ KeepChains(toHost', km', status', fw')
    BY <1>1, <1>2, <2>2 DEF KeepChains
  <2>5. QED
    BY <1>0, <2>2, <2>3, <2>4, KeepParts
<1>5. CASE GetLayers
  <2>1. PICK r \in Lookups(cache', status, km) : km' = r.km /\ status' = r.st
    BY <1>5 DEF GetLayers
  <2>2. cache' = cache /\ toKbd' = toKbd
    BY <1>5 DEF GetLayers
  <2>3. QED
    BY <1>0, <1>1, <1>2, <2>1, <2>2, LookupKeep
<1>6. ASSUME NEW l \in Idx \cup {AllLayers}, GetKeymap(l)
      PROVE  Keep'
  <2>1. PICK r \in Lookups(cache', status, km) :
          km' = r.km /\ status' = r.st /\ Send(Wanted(r.km, l))
    BY <1>6 DEF GetKeymap
  <2>2. cache' = cache
    BY <1>6 DEF GetKeymap
  <2>3. r.km \in Keymap
    BY <1>0, <2>1, LookupsType DEF FoundRecord
  <2>4. Items(toKbd') = Items(toKbd) \cup Items(Wanted(r.km, l))
    BY <2>1, <2>3, WantedType, SentItems
  <2>5. \A q \in Items(toKbd') :
          q.kind = "Binding" => q \in Items(toKbd) \/ (q.pos = 0 /\ r.km.keys > 0)
    BY <1>3, <2>3, <2>4
  <2>6. QED
    BY <1>0, <1>1, <1>2, <2>1, <2>2, <2>5, LookupKeep
<1> DEFINE st == [status EXCEPT !.cached = FALSE]
           k == Dropped(km)
<1>7. /\ k \in Keymap /\ st \in Status /\ ~HasLayers(k) /\ st.buildId = status.buildId
      /\ KeepFiles(Removed(cache, status.buildId))
      /\ KeepMemory(k, st, Removed(cache, status.buildId), fw)
  BY <1>0, <1>2, RefreshKeeps, DroppedType DEF Status
<1>8. KeepChains(toKbd, k, st, fw) /\ KeepChains(toHost, k, st, fw)
  BY <1>2, <1>7 DEF KeepChains
<1>9. CASE RefreshKeymap
  <2>1. cache' = Removed(cache, status.buildId)
    BY <1>9, WriteDone DEF RefreshKeymap, BudgetKinds
  <2>2. km' = k /\ status' = st
    BY <1>9 DEF RefreshKeymap
  <2> HIDE DEF k, st
  <2>3. Items(toKbd') = Items(toKbd) \cup {Ask("Summary", 0, 0)}
    BY <1>9, SentItems, SummaryType, ItemsOne DEF RefreshKeymap
  <2>4. KeepChains(toKbd', km', status', fw') /\ KeepChains(toHost', km', status', fw')
    BY <1>1, <1>8, <2>2, <2>3, AskedItems DEF KeepChains
  <2>5. QED
    BY <1>1, <1>7, <2>1, <2>2, <2>4, KeepParts
<1>10. ASSUME NEW l \in Idx \cup {AllLayers}, RefreshAndGet(l)
       PROVE  Keep'
  <2>1. PICK r \in Lookups(cache', st, k) :
          km' = r.km /\ status' = r.st
          /\ Send(<<Ask("Summary", 0, 0)>> \o Wanted(r.km, l))
    BY <1>10 DEF RefreshAndGet
  <2>2. cache' = Removed(cache, status.buildId)
    BY <1>10, WriteDone DEF RefreshAndGet, BudgetKinds
  <2> HIDE DEF k, st
  <2>3. r.km \in Keymap
    BY <1>0, <1>7, <2>1, LookupsType DEF FoundRecord
  <2> DEFINE ask == <<Ask("Summary", 0, 0)>>
  <2>4. ask \in Seq(Query) /\ Wanted(r.km, l) \in Seq(Query) /\ Items(ask) = {Ask("Summary", 0, 0)}
    BY <2>3, WantedType, SummaryType, ItemsOne
  <2>5. Send(ask \o Wanted(r.km, l))
    BY <2>1
  <2> HIDE DEF ask
  <2>6. Items(toKbd') = Items(toKbd) \cup {Ask("Summary", 0, 0)} \cup Items(Wanted(r.km, l))
    <3>1. ask \o Wanted(r.km, l) \in Seq(Query)
      BY <2>4, SeqFacts
    <3>2. Items(toKbd') = Items(toKbd) \cup Items(ask \o Wanted(r.km, l))
      BY <2>5, <3>1, SentItems
    <3>3. Items(ask \o Wanted(r.km, l)) = Items(ask) \cup Items(Wanted(r.km, l))
      BY <2>4, ItemsConcat
    <3>4. QED
      BY <2>4, <3>2, <3>3
  <2>7. \A q \in Items(toKbd') :
          q.kind = "Binding" => q \in Items(toKbd) \/ (q.pos = 0 /\ r.km.keys > 0)
    BY <1>3, <2>3, <2>6, AskedItems
  <2>8. QED
    BY <1>0, <1>1, <1>7, <1>8, <2>1, <2>2, <2>7, LookupKeep
<1>11. CASE ClearCache
  <2>1. PICK kept \in SUBSET CachedBuilds(cache) :
          /\ cache' = [b \in Builds |-> IF b \in kept THEN cache[b] ELSE NoKeymap]
          /\ Spend(IF kept = {} THEN {} ELSE {"disk"})
    BY <1>11 DEF ClearCache
  <2>2. kept = {}
    <3>1. SUFFICES ASSUME kept # {} PROVE FALSE
      OBVIOUS
    <3>2. Spend({"disk"})
      BY <2>1, <3>1
    <3>3. left'["disk"] = left["disk"] - 1
      BY <3>2, SpendDisk DEF BudgetKinds
    <3>4. left["disk"] \in Nat /\ Budget["disk"] \in Nat
      BY BoundsAssumption DEF TypeOK, BudgetKinds
    <3>5. QED
      BY <3>3, <3>4 DEF NoDiskFailure
  <2>3. \A b \in Builds : cache'[b] = NoKeymap
    BY <2>1, <2>2
  <2>4. ~NoKeymap.present /\ NoKeymap.bindings = NoBindings
    BY DEF NoKeymap
  <2>5. km' = km /\ status' = status /\ toKbd' = toKbd
    BY <1>11 DEF ClearCache
  <2>6. KeepFiles(cache')
    BY <2>3, <2>4 DEF KeepFiles
  <2>7. status.buildId \in Maybe
    BY <1>0 DEF Status
  <2>8. KeepMemory(km', status', cache', fw')
    BY <1>0, <1>1, <1>2, <2>3, <2>4, <2>5, <2>7 DEF KeepMemory, Maybe
  <2>9. QED
    BY <1>1, <1>2, <2>5, <2>6, <2>8, KeepParts
<1>12. QED
  BY <1>4, <1>5, <1>6, <1>9, <1>10, <1>11 DEF Request
LEMMA InitKeep == Init => KeepInv
<1> SUFFICES ASSUME Init PROVE KeepInv
  OBVIOUS
<1>1. left["disk"] = Budget["disk"] /\ Budget["disk"] \in Nat
  BY BoundsAssumption DEF Init, BudgetKinds
<1>2. \A b \in Builds : Stored(b).keys = Keys /\ Stored(b).present
  BY DEF Stored, NoKeymap
<1>3. NoKeymap.bindings = NoBindings /\ ~NoKeymap.present
  BY DEF NoKeymap
<1>4. KeepFiles(cache)
  BY <1>2, <1>3 DEF Init, KeepFiles
<1>5. QED
  BY <1>1, <1>4 DEF Init, KeepInv, Keep

LEMMA StepKeep ==
  ASSUME TypeOK, TypeOK', FilesInv, FilesInv', KeepInv, [Next]_vars
  PROVE  KeepInv'
<1>1. left'["disk"] <= Budget["disk"] /\ (NoDiskFailure' => NoDiskFailure)
  BY BudgetOnlyFalls DEF KeepInv
<1>2. ASSUME NoDiskFailure' PROVE Keep'
  <2>1. Keep /\ left["disk"] <= Budget["disk"]
    BY <1>1, <1>2 DEF KeepInv
  <2>2. CASE Connect \/ Disconnect \/ Flash
    BY <2>1, <2>2, ConnectionKeep
  <2>3. CASE KeyboardAnswer \/ LayerChange \/ LoseExchange \/ ProbeRetry
    BY <2>1, <2>3, KeyboardKeep
  <2>4. CASE Handle
    BY <1>2, <2>1, <2>4, LayerStateKeep, SummaryKeep, LayerInfoKeep, BindingKeep, SensorKeep
    DEF Handle
  <2>5. CASE Request
    BY <1>2, <2>1, <2>5, RequestKeep
  <2>6. CASE UNCHANGED vars
    BY <2>1, <2>6 DEF vars, Keep, KeepFiles, KeepMemory, KeepChains, KnownTo, FullLayer, HasLayers
  <2>7. QED
    BY <2>2, <2>3, <2>4, <2>5, <2>6 DEF Next, Environment
<1>3. QED
  BY <1>1, <1>2 DEF KeepInv

\* What the invariant is for: the list that a last key writes over a complete one is
\* complete, whichever keymap the chain began with.
LEMMA LastKeyKeeps ==
  ASSUME TypeOK, FilesInv, Keep, BindingDone, NEW b \in Builds, NEW i \in Idx,
         FullLayer(cache[b], i)
  PROVE  FullLayer(cache'[b], i)
<1> DEFINE m == Head(toHost)
           k == WithBinding(km, m)
           list == k.bindings[m.layer]
<1>0. /\ cache \in [Builds -> Keymap] /\ AllWhole(cache) /\ LinkSound /\ km \in Keymap
      /\ status.buildId \in Maybe /\ fw \in Builds /\ KeepFiles(cache)
  BY DEF TypeOK, FilesInv, FilesWhole, AllWhole, Keep, Status
<1>1. Received("Binding") /\ linked /\ m.pos + 1 >= km.keys
      /\ Write(UpdateBindings(cache, status.buildId, m.layer, list), {})
  BY DEF BindingDone, Received
<1>2. m \in Report /\ m.kind = "Binding" /\ m.layer \in Idx /\ m.pos \in Nat /\ m \in Items(toHost)
  <2>1. m \in Report /\ m.kind = "Binding"
    BY <1>0, <1>1, HeadSound
  <2>2. Items(toHost) = {m} \cup Items(Tail(toHost))
    BY <1>1, ItemsTail DEF Received, TypeOK
  <2>3. QED
    BY <2>1, <2>2 DEF Report
<1>3. KeepMemory(km, status, cache, fw) /\ KeepChains(toHost, km, status, fw)
  BY <1>1 DEF Keep
<1>4. /\ k \in Keymap
      /\ \A l \in Idx, p \in Pos : km.bindings[l][p] # NoBuild => k.bindings[l][p] # NoBuild
      /\ m.pos \in Pos => list[m.pos] # NoBuild
  BY <1>0, <1>2, WithBindingKeeps, WithBindingGrows
<1>5. cache[b].present
  BY <1>0, NoFileNotFull
<1> HIDE DEF k
<1>6. ASSUME b = status.buildId, i = m.layer
      PROVE  \A p \in Pos : list[p] # NoBuild
  <2>1. CASE km.build = fw
    BY <1>2, <1>3, <1>4, <1>5, <1>6, <2>1 DEF KeepMemory, FullLayer
  <2>2. CASE km.build # fw
    <3>1. HasLayers(km)
      BY <1>5, <1>6, <1>3, <2>2, BuildsAssumption DEF KeepMemory
    <3>2. km.keys = Keys /\ KnownTo(km, m.layer, m.pos)
      BY <1>2, <1>3, <2>2, <3>1 DEF KeepMemory, KeepChains
    <3>3. \A p \in Pos : p < m.pos \/ p = m.pos
      BY <1>1, <1>2, <3>2, SizesAssumption DEF Pos
    <3>4. QED
      BY <1>2, <1>4, <3>2, <3>3 DEF KnownTo
  <2>3. QED
    BY <2>1, <2>2
<1>7. list \in [Pos -> Maybe]
  BY <1>2, <1>4 DEF Keymap
<1> HIDE DEF list
<1>8. LET u == UpdateBindings(cache, status.buildId, m.layer, list) IN
        u[b].bindings = IF b = status.buildId /\ cache[status.buildId].present
                        THEN [cache[status.buildId].bindings EXCEPT ![m.layer] = list]
                        ELSE cache[b].bindings
  BY <1>0, <1>2, <1>7, UpdateBindingsFile
<1>9. cache[b].bindings \in [Idx -> [Pos -> Maybe]]
  BY <1>0 DEF Keymap
<1>10. \/ cache'[b].bindings = cache[b].bindings
       \/ b = status.buildId /\ cache'[b].bindings = [cache[b].bindings EXCEPT ![m.layer] = list]
  BY <1>1, <1>8 DEF Write
<1>11. CASE cache'[b].bindings = cache[b].bindings
  BY <1>11 DEF FullLayer
<1>12. CASE /\ b = status.buildId
            /\ cache'[b].bindings = [cache[b].bindings EXCEPT ![m.layer] = list]
  <2>1. cache'[b].bindings[i] = IF i = m.layer THEN list ELSE cache[b].bindings[i]
    BY <1>9, <1>12
  <2>2. QED
    BY <1>6, <1>12, <2>1 DEF FullLayer
<1>13. QED
  BY <1>10, <1>11, <1>12

LEMMA KeptStep ==
  ASSUME TypeOK, FilesInv, KeepInv, NoDiskFailure, [Next]_vars,
         NEW b \in Builds, NEW i \in Idx, cache'[b].present, FullLayer(cache[b], i)
  PROVE  FullLayer(cache'[b], i)
<1>0. /\ cache \in [Builds -> Keymap] /\ AllWhole(cache) /\ km \in Keymap
      /\ status.buildId \in Maybe /\ Keep /\ LinkSound
  BY DEF TypeOK, FilesInv, FilesWhole, AllWhole, KeepInv, Status
<1>1. ~NoKeymap.present
  BY DEF NoKeymap
<1>2. CASE UNCHANGED cache
  BY <1>2
<1>3. CASE LayerInfoDone
  <2> DEFINE m == Head(toHost)
             k == WithLayer(km, m)
  <2>1. Received("LayerInfo") /\ linked /\ Write(Save(cache, k), {})
    BY <1>3 DEF LayerInfoDone, Received
  <2>2. m \in Report /\ Discovering /\ fw \in Builds
    BY <1>0, <2>1, HeadSound DEF TypeOK
  <2>3. k \in Keymap /\ k.build = fw /\ k.bindings = km.bindings
    BY <1>0, <2>2, WithLayerKnows DEF Discovering
  <2> HIDE DEF k
  <2>4. /\ b = fw => Save(cache, k)[b].bindings = k.bindings
        /\ b # fw => Save(cache, k)[b] = cache[b]
    BY <1>0, <2>2, <2>3, SaveFile
  <2>5. cache[b].present
    BY <1>0, NoFileNotFull DEF Keep
  <2>6. b = fw => FullLayer(km, i)
    BY <1>0, <2>1, <2>2, <2>5 DEF Keep, KeepMemory, Discovering
  <2>7. cache' = cache \/ cache' = Save(cache, k)
    BY <2>1 DEF Write
  <2>8. QED
    BY <2>3, <2>4, <2>6, <2>7 DEF FullLayer
<1>4. CASE BindingDone
  BY <1>0, <1>4, LastKeyKeeps
<1>5. CASE SensorDone
  <2> DEFINE m == Head(toHost)
             k == WithSensor(km, m)
             list == k.sensorBindings[m.layer]
  <2>1. Received("Sensor") /\ Write(UpdateSensors(cache, status.buildId, m.layer, list), {})
    BY <1>5 DEF SensorDone
  <2>2. m \in Report /\ m.layer \in Idx
    BY <1>0, <2>1, HeadSound DEF Report
  <2>3. list \in [SenIdx -> Maybe]
    <3>1. k \in Keymap
      BY <1>0, <2>2, WithSensorType
    <3> HIDE DEF k
    <3>2. QED
      BY <2>2, <3>1 DEF Keymap
  <2> HIDE DEF list
  <2>4. UpdateSensors(cache, status.buildId, m.layer, list)[b].bindings = cache[b].bindings
    BY <1>0, <2>2, <2>3, UpdateSensorsFile
  <2>5. QED
    BY <2>1, <2>4 DEF Write, FullLayer
<1>6. CASE RefreshKeymap \/ \E l \in Idx \cup {AllLayers} : RefreshAndGet(l)
  <2>1. Write(Removed(cache, status.buildId), {"request"})
    BY <1>6 DEF RefreshKeymap, RefreshAndGet
  <2>2. cache'[b] = cache[b] \/ cache'[b] = NoKeymap
    BY <1>0, <2>1 DEF Write, Removed
  <2>3. QED
    BY <1>1, <2>2
<1>7. CASE ClearCache
  <2>1. cache'[b] = cache[b] \/ cache'[b] = NoKeymap
    BY <1>7 DEF ClearCache
  <2>2. QED
    BY <1>1, <2>1
<1>8. CASE Handle
  BY <1>2, <1>3, <1>4, <1>5, <1>8 DEF Handle, LayerStateKnown, LayerStateCached,
     LayerStateUnknown, SummaryCached, SummaryDiscover, LayerInfoNext, BindingNext, SensorNext
<1>9. CASE Request
  BY <1>2, <1>6, <1>7, <1>9 DEF Request, GetStatus, GetLayers, GetKeymap
<1>10. CASE Connect \/ Disconnect \/ ProbeRetry \/ KeyboardAnswer \/ Environment \/ UNCHANGED vars
  BY <1>2, <1>10 DEF Connect, Disconnect, ProbeRetry, KeyboardAnswer, Environment, Flash,
     LayerChange, LoseExchange, vars
<1>11. QED
  BY <1>8, <1>9, <1>10 DEF Next

\* Whatever the link loses and clients request, as long as the files do what they are
\* told: a layer whose bindings are complete on disk stays complete while its file is
\* not removed. A chain of bindings either knows all that the file does, or was started
\* for a keymap of another build's file and has left no key out (onBinding,
\* update_bindings, save).
THEOREM FilesKeepBindingsAlways == Spec => FilesKeepBindings
<1>1. TypeOK /\ TypeOK' /\ FilesInv /\ FilesInv' /\ KeepInv /\ [Next]_vars => KeepInv'
  BY StepKeep
<1>2. TypeOK /\ FilesInv /\ KeepInv /\ [Next]_vars =>
        [NoDiskFailure =>
           \A b \in Builds, i \in Idx :
             cache'[b].present /\ FullLayer(cache[b], i) => FullLayer(cache'[b], i)]_vars
  BY KeptStep
<1>3. QED
  BY <1>1, <1>2, InitKeep, TypeCorrect, FilesInvAlways, PTL DEF Spec, FilesKeepBindings
-----------------------------------------------------------------------------
(* Restarts and second openings *)

LEMMA RestartTypes ==
  ASSUME TypeOK, [RestartNext]_vars
  PROVE  TypeOK'
<1> USE BoundsAssumption
<1>1. NewStatus \in Status
  BY DEF NewStatus, Status, Maybe
<1>2. CASE Stop
  <2>1. toHost' \in Seq(Report) /\ probe' \in 0..MaxRetries
    BY <1>2 DEF Stop
  <2>2. QED
    BY <1>1, <1>2, <2>1, QuietType, NoKeymapType DEF TypeOK, Stop
<1>3. CASE Reconnect
  <2>1. PICK r \in AnyCached(cache, NewStatus, km) :
          km' = r.km /\ status' = r.st /\ signal' = Announced(r)
    BY <1>3 DEF Reconnect
  <2>2. r \in FoundRecord
    BY <1>1, <2>1, AnyCachedType DEF TypeOK
  <2>3. signal' \in Signal
    BY <2>1, <2>2, AnnouncedType
  <2>4. toKbd' \in Seq(Query) /\ toHost' \in Seq(Report)
    BY <1>3, AskCurrentAndSummaryType, SendType DEF Reconnect
  <2>5. left' \in [BudgetKinds -> Nat]
    BY <1>3, SpendType DEF Reconnect, BudgetKinds
  <2>6. QED
    BY <1>3, <2>1, <2>2, <2>3, <2>4, <2>5 DEF TypeOK, Reconnect, FoundRecord
<1>4. CASE UNCHANGED vars
  BY <1>4 DEF TypeOK, vars
<1>5. QED
  BY <1>2, <1>3, <1>4, ConnectionTypes, KeyboardTypes, HandleTypes, RequestTypes
  DEF RestartNext, Next, Environment

\* The types hold across restarts too.
THEOREM RestartTypeCorrect == RestartSpec => []TypeOK
BY RestartTypes, InitTypes, PTL DEF RestartSpec

\* The file of build b is whole.
HomeFile(c, b) == c[b].present => Whole(c[b], b)

NamedFiles(c) == \A b \in Builds : c[b].present => c[b].build = b

HomeKeymap(k, b) == k.build = b => SoundKeymap(k)

HomeReports(s, b) ==
  \A m \in Items(s) : m.build = b /\ (m.kind = "LayerInfo" => m.layer < LayerCount[b])

\* What holds across restarts while the file of the keyboard's build is whole: each file
\* says the build it is named after, though it may hold layers of another; a keymap of
\* the keyboard's build has only its layers; what is read comes from the keyboard.
HomeInv ==
  /\ NamedFiles(cache)
  /\ HomeKeymap(km, fw)
  /\ HomeReports(toHost, fw)
  /\ ~linked => km = NoKeymap /\ toHost = <<>>

LEMMA LoadHome ==
  ASSUME NEW c \in [Builds -> Keymap], NEW b \in Builds, HomeFile(c, b), c[b].present
  PROVE  /\ Load(c, b) \in Keymap
         /\ Whole(Load(c, b), b)
         /\ SoundKeymap(Load(c, b))
         /\ NumLayers(c[b]) = LayerCount[b]
<1>1. Whole(c[b], b) /\ c[b] \in Keymap
  BY DEF HomeFile
<1>2. /\ Load(c, b) \in Keymap /\ Load(c, b).present /\ Load(c, b).build = c[b].build
      /\ Load(c, b).layerCount = c[b].layerCount /\ Load(c, b).layers = c[b].layers
  BY <1>1, LoadType DEF Load, Keymap
<1>3. Whole(Load(c, b), b)
  BY <1>1, <1>2, SameLayersWhole
<1>4. QED
  BY <1>1, <1>2, <1>3, WholeCount DEF SoundKeymap

LEMMA LoadNamed ==
  ASSUME NEW c \in [Builds -> Keymap], NamedFiles(c), NEW x \in Builds, c[x].present
  PROVE  Load(c, x).build = x /\ Load(c, x).present /\ Load(c, x) \in Keymap
<1>1. c[x] \in Keymap /\ c[x].build = x
  BY DEF NamedFiles
<1>2. QED
  BY <1>1, LoadType DEF Load, Keymap

LEMMA FoundHome ==
  ASSUME NEW c \in [Builds -> Keymap], NamedFiles(c), NEW b \in Builds, HomeFile(c, b),
         NEW x \in Maybe, NEW st, NEW k, HomeKeymap(k, b)
  PROVE  HomeKeymap(Found(c, x, st, k).km, b)
<1>1. CASE x # NoBuild /\ Hit(c, x)
  <2>1. x \in Builds /\ c[x].present
    BY <1>1 DEF Hit, Maybe
  <2>2. Load(c, x).build = x
    BY <2>1, LoadNamed
  <2>3. x = b => SoundKeymap(Load(c, x))
    BY <2>1, LoadHome
  <2>4. QED
    BY <1>1, <2>2, <2>3 DEF Found, HomeKeymap
<1>2. CASE ~(x # NoBuild /\ Hit(c, x))
  BY <1>2 DEF Found
<1>3. QED
  BY <1>1, <1>2

LEMMA LookupsHome ==
  ASSUME NEW c \in [Builds -> Keymap], NamedFiles(c), NEW b \in Builds, HomeFile(c, b),
         NEW st \in Status, NEW k, HomeKeymap(k, b)
  PROVE  /\ \A r \in AnyCached(c, st, k) : HomeKeymap(r.km, b)
         /\ \A r \in Lookups(c, st, k) : HomeKeymap(r.km, b)
<1>1. \A x \in Maybe : HomeKeymap(Found(c, x, st, k).km, b)
  BY FoundHome
<1>2. NoBuild \in Maybe /\ st.buildId \in Maybe /\ CachedBuilds(c) \subseteq Maybe
  BY DEF Maybe, Status, CachedBuilds
<1>3. \A r \in AnyCached(c, st, k) : HomeKeymap(r.km, b)
  BY <1>1, <1>2 DEF AnyCached
<1>4. QED
  BY <1>1, <1>2, <1>3 DEF Lookups

\* A keymap saved under its own build leaves every file named, and the file of b whole
\* if it was, unless it is b's and has not all layers.
LEMMA SaveHome ==
  ASSUME NEW c \in [Builds -> Keymap], NamedFiles(c), NEW b \in Builds, HomeFile(c, b),
         NEW k \in Keymap, k.build = b => Whole(k, b)
  PROVE  NamedFiles(Save(c, k)) /\ HomeFile(Save(c, k), b)
<1> DEFINE file == [k EXCEPT !.present = TRUE, !.sensors = 0]
<1>1. CASE k.build = NoBuild
  BY <1>1 DEF Save
<1>2. CASE k.build # NoBuild
  <2>1. k.build \in Builds
    BY <1>2 DEF Keymap, Maybe
  <2>2. /\ file.present /\ file.build = k.build
        /\ file.layerCount = k.layerCount /\ file.layers = k.layers
    BY DEF Keymap
  <2>3. k.build = b => Whole(file, b)
    BY <2>2, SameLayersWhole
  <2>4. \A x \in Builds : Save(c, k)[x] = IF x = k.build THEN file ELSE c[x]
    BY <1>2, <2>1 DEF Save
  <2> HIDE DEF file
  <2>5. QED
    BY <2>2, <2>3, <2>4 DEF NamedFiles, HomeFile
<1>3. QED
  BY <1>1, <1>2

LEMMA UpdatesHome ==
  ASSUME NEW c \in [Builds -> Keymap], NamedFiles(c), NEW b \in Builds, HomeFile(c, b),
         NEW x \in Maybe, NEW l \in Idx
  PROVE  /\ \A list \in [Pos -> Maybe] :
              /\ NamedFiles(UpdateBindings(c, x, l, list))
              /\ HomeFile(UpdateBindings(c, x, l, list), b)
         /\ \A list \in [SenIdx -> Maybe] :
              /\ NamedFiles(UpdateSensors(c, x, l, list))
              /\ HomeFile(UpdateSensors(c, x, l, list), b)
<1>1. CASE x = NoBuild \/ ~c[x].present
  BY <1>1 DEF UpdateBindings, UpdateSensors
<1>2. CASE x # NoBuild /\ c[x].present
  <2> DEFINE k == Load(c, x)
  <2>1. x \in Builds
    BY <1>2 DEF Maybe
  <2>2. k \in Keymap /\ k.present /\ k.build = x /\ (x = b => Whole(k, b))
    BY <1>2, <2>1, LoadNamed, LoadHome
  <2> HIDE DEF k
  <2>3. ASSUME NEW k2 \in Keymap, k2.present = k.present, k2.build = k.build,
               k2.layerCount = k.layerCount, k2.layers = k.layers
        PROVE  NamedFiles(Save(c, k2)) /\ HomeFile(Save(c, k2), b)
    <3>1. k2.build = b => Whole(k2, b)
      BY <2>2, <2>3, SameLayersWhole
    <3>2. QED
      BY <3>1, SaveHome
  <2>4. ASSUME NEW list \in [Pos -> Maybe]
        PROVE  /\ NamedFiles(UpdateBindings(c, x, l, list))
               /\ HomeFile(UpdateBindings(c, x, l, list), b)
    <3> DEFINE k2 == [k EXCEPT !.bindings[l] = list]
    <3>1. /\ k2 \in Keymap /\ k2.present = k.present /\ k2.build = k.build
          /\ k2.layerCount = k.layerCount /\ k2.layers = k.layers
      BY <2>2 DEF Keymap
    <3>2. UpdateBindings(c, x, l, list) = Save(c, k2)
      BY <1>2 DEF UpdateBindings, k
    <3> HIDE DEF k2
    <3>3. QED
      BY <2>3, <3>1, <3>2
  <2>5. ASSUME NEW list \in [SenIdx -> Maybe]
        PROVE  /\ NamedFiles(UpdateSensors(c, x, l, list))
               /\ HomeFile(UpdateSensors(c, x, l, list), b)
    <3> DEFINE k2 == [k EXCEPT !.sensorBindings[l] = list]
    <3>1. /\ k2 \in Keymap /\ k2.present = k.present /\ k2.build = k.build
          /\ k2.layerCount = k.layerCount /\ k2.layers = k.layers
      BY <2>2 DEF Keymap
    <3>2. UpdateSensors(c, x, l, list) = Save(c, k2)
      BY <1>2 DEF UpdateSensors, k
    <3> HIDE DEF k2
    <3>3. QED
      BY <2>3, <3>1, <3>2
  <2>6. QED
    BY <2>4, <2>5
<1>3. QED
  BY <1>1, <1>2

LEMMA RemovedHome ==
  ASSUME NEW c \in [Builds -> Keymap], NamedFiles(c), NEW b \in Builds, HomeFile(c, b),
         NEW x \in Maybe
  PROVE  NamedFiles(Removed(c, x)) /\ HomeFile(Removed(c, x), b)
BY DEF Removed, NamedFiles, HomeFile, NoKeymap
\* What is not read yet stays the keyboard's when the first report is taken.
LEMMA HeadHome ==
  ASSUME TypeOK, HomeInv, NEW kind, Received(kind)
  PROVE  /\ Head(toHost) \in Report /\ Head(toHost).kind = kind /\ Head(toHost).build = fw
         /\ kind = "LayerInfo" => Head(toHost).layer < LayerCount[fw]
         /\ HomeReports(toHost', fw)
<1>1. toHost \in Seq(Report) /\ toHost # <<>> /\ toHost' = Tail(toHost) /\ Head(toHost).kind = kind
  BY DEF TypeOK, Received
<1>2. Items(toHost) = {Head(toHost)} \cup Items(toHost')
  BY <1>1, ItemsTail
<1>3. Head(toHost) \in Report
  BY <1>1
<1>4. QED
  BY <1>1, <1>2, <1>3 DEF HomeInv, HomeReports

LEMMA NoneHome ==
  ASSUME NEW b \in Builds
  PROVE  HomeKeymap(NoKeymap, b) /\ HomeReports(<<>>, b)
<1>1. NoKeymap.build = NoBuild /\ b # NoBuild
  BY BuildsAssumption DEF NoKeymap
<1>2. QED
  BY <1>1, ItemsOne DEF HomeKeymap, HomeReports

LEMMA HomeConnects ==
  ASSUME TypeOK, TypeOK', HomeInv, OwnFileWhole, Connect \/ Disconnect \/ Flash \/ Stop \/ Reconnect
  PROVE  HomeInv'
<1>0. /\ cache \in [Builds -> Keymap] /\ fw \in Builds /\ fw' \in Builds
      /\ NamedFiles(cache) /\ HomeFile(cache, fw) /\ HomeKeymap(km, fw)
  BY DEF TypeOK, HomeInv, OwnFileWhole, HomeFile
<1>1. cache' = cache
  BY DEF Connect, Disconnect, Flash, Stop, Reconnect
<1>2. NewStatus \in Status
  BY DEF NewStatus, Status, Maybe
<1>3. CASE Connect \/ Reconnect
  <2>1. linked' /\ fw' = fw /\ toHost' = <<>>
    BY <1>3 DEF Connect, Reconnect, HomeInv
  <2>2. \E k : HomeKeymap(k, fw) /\ \E r \in AnyCached(cache, NewStatus, k) : km' = r.km
    BY <1>0, <1>3, NoneHome DEF Connect, Reconnect
  <2>3. HomeKeymap(km', fw)
    BY <1>0, <1>2, <2>2, LookupsHome
  <2>4. HomeReports(toHost', fw')
    BY <1>0, <2>1, NoneHome
  <2>5. QED
    BY <1>0, <1>1, <2>1, <2>3, <2>4 DEF HomeInv
<1>4. CASE Disconnect \/ Flash \/ Stop
  <2>1. ~linked' /\ km' = NoKeymap /\ toHost' = <<>>
    BY <1>4 DEF Disconnect, Flash, Stop, HomeInv
  <2>2. HomeKeymap(km', fw') /\ HomeReports(toHost', fw')
    BY <1>0, <2>1, NoneHome
  <2>3. QED
    BY <1>0, <1>1, <2>1, <2>2 DEF HomeInv
<1>5. QED
  BY <1>3, <1>4

LEMMA HomeKeyboard ==
  ASSUME TypeOK, HomeInv, KeyboardAnswer \/ LayerChange \/ LoseExchange \/ ProbeRetry
  PROVE  HomeInv'
<1>1. /\ fw' = fw /\ linked' = linked /\ km' = km /\ cache' = cache
  BY DEF KeyboardAnswer, LayerChange, LoseExchange, ProbeRetry
<1>2. CASE KeyboardAnswer
  <2> DEFINE h == Head(toKbd)
  <2>1. Items(toHost') = Items(toHost) \cup (IF linked /\ Answers(h) THEN {Reply(h)} ELSE {})
    BY <1>2, AnsweredItems
  <2>2. Reply(h).build = fw /\ Reply(h).kind = h.kind /\ Reply(h).layer = h.layer
    BY DEF Reply
  <2>3. Answers(h) /\ h.kind = "LayerInfo" => h.layer < LayerCount[fw]
    BY DEF Answers
  <2>4. ~linked => toHost' = toHost
    BY <1>2 DEF KeyboardAnswer
  <2> HIDE DEF h
  <2>5. HomeReports(toHost', fw)
    BY <2>1, <2>2, <2>3 DEF HomeInv, HomeReports
  <2>6. QED
    BY <1>1, <2>4, <2>5 DEF HomeInv
<1>3. CASE LayerChange
  <2>1. Items(toHost') = Items(toHost) \cup {Reply(Ask("CurrentLayer", 0, 0))}
    BY <1>3, ChangeItems
  <2>2. Reply(Ask("CurrentLayer", 0, 0)).build = fw
        /\ Reply(Ask("CurrentLayer", 0, 0)).kind = "CurrentLayer"
    BY DEF Reply, Ask
  <2>3. linked /\ HomeReports(toHost', fw)
    BY <1>3, <2>1, <2>2 DEF LayerChange, HomeInv, HomeReports
  <2>4. QED
    BY <1>1, <2>3 DEF HomeInv
<1>4. CASE LoseExchange \/ ProbeRetry
  BY <1>1, <1>4 DEF LoseExchange, ProbeRetry, HomeInv
<1>5. QED
  BY <1>2, <1>3, <1>4

\* What a step leaves of the files and the keymap in memory decides the rest.
LEMMA HomeParts ==
  ASSUME HomeInv, linked', fw' = fw, HomeReports(toHost', fw),
         NamedFiles(cache'), HomeFile(cache', fw), HomeKeymap(km', fw)
  PROVE  HomeInv' /\ OwnFileWhole'
BY DEF HomeInv, OwnFileWhole, HomeFile

LEMMA HomeHandles ==
  ASSUME TypeOK, HomeInv, OwnFileWhole, Handle
  PROVE  HomeInv' /\ OwnFileWhole'
<1> DEFINE m == Head(toHost)
<1>0. /\ cache \in [Builds -> Keymap] /\ fw \in Builds /\ km \in Keymap /\ status \in Status
      /\ NamedFiles(cache) /\ HomeFile(cache, fw) /\ HomeKeymap(km, fw) /\ status.buildId \in Maybe
  BY DEF TypeOK, HomeInv, OwnFileWhole, HomeFile, Status
<1>1. PICK kind : Received(kind)
  BY DEF Handle, LayerStateKnown, LayerStateCached, LayerStateUnknown, SummaryCached,
     SummaryDiscover, LayerInfoNext, LayerInfoDone, BindingNext, BindingDone, SensorNext,
     SensorDone
<1>2. m \in Report /\ m.kind = kind /\ m.build = fw /\ HomeReports(toHost', fw)
      /\ (kind = "LayerInfo" => m.layer < LayerCount[fw]) /\ m.layer \in Idx
  BY <1>1, HeadHome DEF Report
<1>3. linked /\ linked' = linked /\ fw' = fw
  BY <1>1 DEF Received, Handle, LayerStateKnown, LayerStateCached, LayerStateUnknown,
     SummaryCached, SummaryDiscover, LayerInfoNext, LayerInfoDone, BindingNext, BindingDone,
     SensorNext, SensorDone
<1>4. SUFFICES NamedFiles(cache') /\ HomeFile(cache', fw) /\ HomeKeymap(km', fw)
  BY <1>2, <1>3, HomeParts
<1>5. CASE LayerStateKnown \/ LayerStateUnknown
  BY <1>0, <1>5 DEF LayerStateKnown, LayerStateUnknown
<1>6. CASE LayerStateCached \/ SummaryCached
  <2>1. cache' = cache /\ Hit(cache, fw) /\ km' = Load(cache, fw)
    BY <1>2, <1>6 DEF LayerStateCached, SummaryCached
  <2>2. SoundKeymap(km')
    BY <1>0, <2>1, LoadHome DEF Hit
  <2>3. QED
    BY <1>0, <2>1, <2>2 DEF HomeKeymap
<1>7. CASE SummaryDiscover
  <2>1. cache' = cache /\ km' = Summarised(km, fw)
    BY <1>2, <1>7 DEF SummaryDiscover
  <2>2. km'.layers = NoLayers /\ km'.build = fw /\ km'.layerCount = LayerCount[fw]
    BY <1>0, <2>1 DEF Summarised, Cleared, Keymap
  <2>3. SoundKeymap(km')
    BY <2>2 DEF SoundKeymap, PartOfOneBuild, HeaderOfBuild, NoLayers
  <2>4. QED
    BY <1>0, <2>1, <2>3 DEF HomeKeymap
<1>8. CASE LayerInfoNext \/ LayerInfoDone
  <2> DEFINE k == WithLayer(km, m)
  <2>1. km' = k /\ m.kind = "LayerInfo"
    BY <1>1, <1>8 DEF LayerInfoNext, LayerInfoDone, Received
  <2>2. /\ k \in Keymap /\ k.present /\ k.build = km.build /\ k.layerCount = km.layerCount
        /\ k.layers = [km.layers EXCEPT ![m.layer] = fw]
    <3>1. k \in Keymap
      BY <1>0, <1>2, WithLayerType
    <3>2. k.present /\ k.build = km.build /\ k.layerCount = km.layerCount
      BY <1>0 DEF WithLayer, Keymap
    <3>3. k.layers = [km.layers EXCEPT ![m.layer] = m.build]
      BY <1>0 DEF WithLayer, Keymap
    <3>4. QED
      BY <1>2, <3>1, <3>2, <3>3
  <2>3. HomeKeymap(k, fw)
    <3>1. SUFFICES ASSUME k.build = fw PROVE SoundKeymap(k)
      BY DEF HomeKeymap
    <3>2. SoundKeymap(km) /\ km.layers \in [Idx -> Maybe]
      BY <1>0, <2>2, <3>1 DEF HomeKeymap, Keymap
    <3> HIDE DEF k
    <3>3. PartOfOneBuild(k)
      BY <1>0, <1>2, <2>1, <2>2, <3>1, <3>2 DEF SoundKeymap, PartOfOneBuild
    <3>4. HeaderOfBuild(k)
      BY <2>2, <3>2 DEF SoundKeymap, HeaderOfBuild
    <3>5. QED
      BY <3>3, <3>4 DEF SoundKeymap
  <2>4. CASE LayerInfoNext
    BY <1>0, <2>1, <2>3, <2>4 DEF LayerInfoNext
  <2>5. CASE LayerInfoDone
    <3>1. NumLayers(k) >= k.layerCount /\ Write(Save(cache, k), {})
      BY <2>5 DEF LayerInfoDone
    <3> HIDE DEF k
    <3>2. k.build = fw => Whole(k, fw)
      BY <1>0, <2>2, <2>3, <3>1, CompleteIsWhole DEF HomeKeymap, SoundKeymap
    <3>3. NamedFiles(Save(cache, k)) /\ HomeFile(Save(cache, k), fw)
      BY <1>0, <2>2, <3>2, SaveHome
    <3>4. QED
      BY <1>0, <2>1, <2>3, <3>1, <3>3 DEF Write
  <2>6. QED
    BY <1>8, <2>4, <2>5
<1>9. CASE BindingNext \/ BindingDone \/ SensorNext \/ SensorDone
  <2>1. km' = WithBinding(km, m) \/ km' = WithSensor(km, m)
    BY <1>9 DEF BindingNext, BindingDone, SensorNext, SensorDone
  <2>2. km'.build = km.build /\ km'.layerCount = km.layerCount /\ km'.layers = km.layers
    BY <1>0, <1>2, <2>1, WithBindingKeeps, WithSensorKeeps
  <2>3. HomeKeymap(km', fw)
    BY <1>0, <2>2 DEF HomeKeymap, SoundKeymap, PartOfOneBuild, HeaderOfBuild
  <2>4. CASE BindingNext \/ SensorNext
    BY <1>0, <2>3, <2>4 DEF BindingNext, SensorNext
  <2>5. CASE BindingDone
    <3> DEFINE list == WithBinding(km, m).bindings[m.layer]
    <3>1. Write(UpdateBindings(cache, status.buildId, m.layer, list), {})
      BY <2>5 DEF BindingDone
    <3>2. list \in [Pos -> Maybe]
      <4>1. WithBinding(km, m) \in Keymap
        BY <1>0, <1>2, WithBindingKeeps
      <4>2. QED
        BY <1>2, <4>1 DEF Keymap
    <3> HIDE DEF list
    <3>3. QED
      BY <1>0, <1>2, <2>3, <3>1, <3>2, UpdatesHome DEF Write
  <2>6. CASE SensorDone
    <3> DEFINE list == WithSensor(km, m).sensorBindings[m.layer]
    <3>1. Write(UpdateSensors(cache, status.buildId, m.layer, list), {})
      BY <2>6 DEF SensorDone
    <3>2. list \in [SenIdx -> Maybe]
      <4>1. WithSensor(km, m) \in Keymap
        BY <1>0, <1>2, WithSensorKeeps
      <4>2. QED
        BY <1>2, <4>1 DEF Keymap
    <3> HIDE DEF list
    <3>3. QED
      BY <1>0, <1>2, <2>3, <3>1, <3>2, UpdatesHome DEF Write
  <2>7. QED
    BY <1>9, <2>4, <2>5, <2>6
<1>10. QED
  BY <1>5, <1>6, <1>7, <1>8, <1>9 DEF Handle

LEMMA HomeRequests ==
  ASSUME TypeOK, HomeInv, OwnFileWhole, Request
  PROVE  HomeInv' /\ OwnFileWhole'
<1>0. /\ cache \in [Builds -> Keymap] /\ fw \in Builds /\ km \in Keymap /\ status \in Status
      /\ NamedFiles(cache) /\ HomeFile(cache, fw) /\ HomeKeymap(km, fw) /\ status.buildId \in Maybe
  BY DEF TypeOK, HomeInv, OwnFileWhole, HomeFile, Status
<1>1. linked /\ linked' = linked /\ fw' = fw /\ toHost' = toHost
  BY DEF Request, GetStatus, GetLayers, GetKeymap, RefreshKeymap, RefreshAndGet, ClearCache
<1>2. SUFFICES NamedFiles(cache') /\ HomeFile(cache', fw) /\ HomeKeymap(km', fw)
  BY <1>1, HomeParts DEF HomeInv
<1>3. CASE GetStatus
  BY <1>0, <1>3 DEF GetStatus
<1>4. CASE GetLayers \/ \E l \in Idx \cup {AllLayers} : GetKeymap(l)
  <2>1. cache' = cache /\ \E r \in Lookups(cache, status, km) : km' = r.km
    BY <1>4 DEF GetLayers, GetKeymap
  <2>2. QED
    BY <1>0, <2>1, LookupsHome
<1>5. HomeKeymap(Dropped(km), fw) /\ Dropped(km) \in Keymap
  <2>1. /\ Dropped(km).build = km.build /\ Dropped(km).layerCount = km.layerCount
        /\ Dropped(km).layers = NoLayers
    BY <1>0 DEF Dropped, Cleared, Keymap
  <2>2. QED
    BY <1>0, <2>1, DroppedType
    DEF HomeKeymap, SoundKeymap, PartOfOneBuild, HeaderOfBuild, NoLayers
<1>6. CASE RefreshKeymap \/ \E l \in Idx \cup {AllLayers} : RefreshAndGet(l)
  <2> DEFINE st == [status EXCEPT !.cached = FALSE]
  <2>1. /\ Write(Removed(cache, status.buildId), {"request"})
        /\ \/ km' = Dropped(km)
           \/ \E r \in Lookups(cache', st, Dropped(km)) : km' = r.km
    BY <1>6 DEF RefreshKeymap, RefreshAndGet
  <2>2. NamedFiles(cache') /\ HomeFile(cache', fw) /\ cache' \in [Builds -> Keymap]
    BY <1>0, <2>1, RemovedHome, RemovedType DEF Write
  <2>3. st \in Status
    BY <1>0 DEF Status
  <2> HIDE DEF st
  <2>4. QED
    BY <1>0, <1>5, <2>1, <2>2, <2>3, LookupsHome
<1>7. CASE ClearCache
  <2>1. \A b \in Builds : cache'[b] = cache[b] \/ cache'[b] = NoKeymap
    BY <1>7 DEF ClearCache
  <2>2. ~NoKeymap.present /\ km' = km
    BY <1>7 DEF ClearCache, NoKeymap
  <2>3. QED
    BY <1>0, <2>1, <2>2 DEF NamedFiles, HomeFile
<1>8. QED
  BY <1>3, <1>4, <1>6, <1>7 DEF Request
\* The keyboard's file stays whole while the keyboard keeps its build.
LEMMA HomeStep ==
  ASSUME TypeOK, TypeOK', HomeInv, OwnFileWhole, [RestartNext]_vars
  PROVE  HomeInv' /\ (fw' = fw => OwnFileWhole')
<1>1. CASE Connect \/ Disconnect \/ Flash \/ Stop \/ Reconnect
  <2>1. cache' = cache
    BY <1>1 DEF Connect, Disconnect, Flash, Stop, Reconnect
  <2>2. QED
    BY <1>1, <2>1, HomeConnects DEF OwnFileWhole
<1>2. CASE KeyboardAnswer \/ LayerChange \/ LoseExchange \/ ProbeRetry
  <2>1. cache' = cache
    BY <1>2 DEF KeyboardAnswer, LayerChange, LoseExchange, ProbeRetry
  <2>2. QED
    BY <1>2, <2>1, HomeKeyboard DEF OwnFileWhole
<1>3. CASE UNCHANGED vars
  BY <1>3 DEF vars, HomeInv, OwnFileWhole
<1>4. QED
  BY <1>1, <1>2, <1>3, HomeHandles, HomeRequests DEF RestartNext, Next, Environment

LEMMA InitHome == Init => HomeInv /\ OwnFileWhole
<1> SUFFICES ASSUME Init PROVE HomeInv /\ OwnFileWhole
  OBVIOUS
<1>1. FilesWhole
  BY InitFiles DEF FilesInv
<1>2. NamedFiles(cache) /\ OwnFileWhole
  BY <1>1 DEF NamedFiles, FilesWhole, OwnFileWhole, Whole, Init
<1>3. fw \in Builds /\ km = NoKeymap /\ toHost = <<>>
  BY DEF Init
<1>4. QED
  BY <1>2, <1>3, NoneHome DEF HomeInv

\* A keyboard is flashed at most as often as the budget says.
LEMMA FlashStep ==
  ASSUME TypeOK, left["flash"] = 0, [RestartNext]_vars
  PROVE  left'["flash"] = 0 /\ fw' = fw
<1>1. \A kinds : Spend(kinds) => "flash" \notin kinds /\ left'["flash"] = 0
  BY DEF Spend, BudgetKinds
<1>2. ~Flash
  BY <1>1 DEF Flash
<1>3. \A c, spent : Write(c, spent) => left'["flash"] = 0
  BY <1>1 DEF Write
<1>4. CASE Connect \/ Disconnect \/ Stop \/ Reconnect
  BY <1>1, <1>4 DEF Connect, Disconnect, Stop, Reconnect
<1>5. CASE KeyboardAnswer \/ LayerChange \/ LoseExchange \/ ProbeRetry
  BY <1>1, <1>5 DEF KeyboardAnswer, LayerChange, LoseExchange, ProbeRetry
<1>6. CASE Handle
  BY <1>3, <1>6 DEF Handle, LayerStateKnown, LayerStateCached, LayerStateUnknown,
     SummaryCached, SummaryDiscover, LayerInfoNext, LayerInfoDone, BindingNext, BindingDone,
     SensorNext, SensorDone
<1>7. CASE Request
  BY <1>1, <1>3, <1>7 DEF Request, GetStatus, GetLayers, GetKeymap, RefreshKeymap,
     RefreshAndGet, ClearCache
<1>8. CASE UNCHANGED vars
  BY <1>8 DEF vars
<1>9. QED
  BY <1>2, <1>4, <1>5, <1>6, <1>7, <1>8 DEF RestartNext, Next, Environment

\* However often the daemon restarts or opens its keyboard again, and whatever is lost,
\* retried or requested, the file of a keyboard that keeps its build is whole: only the
\* file of another build can be completed by a late answer of an earlier life.
THEOREM OwnFileWholeAlways ==
  ASSUME Budget["flash"] = 0
  PROVE  RestartSpec => []OwnFileWhole
<1> DEFINE Kept == HomeInv /\ OwnFileWhole /\ left["flash"] = 0
<1>1. Init => Kept
  BY InitHome DEF Init
<1>2. TypeOK /\ TypeOK' /\ Kept /\ [RestartNext]_vars => Kept'
  BY HomeStep, FlashStep
<1>3. Kept => OwnFileWhole
  OBVIOUS
<1> HIDE DEF Kept
<1>4. QED
  BY <1>1, <1>2, <1>3, RestartTypeCorrect, PTL DEF RestartSpec

\* The invariant under which a daemon settles that answers of an earlier life may
\* reach: it will ask for the summary, or it is at the keyboard's build, and is asking
\* for a layer or has them all.
AtHome == Discovering /\ status.layersCount = LayerCount[fw]

LayersAsked ==
  \/ Has(toHost, "LayerInfo")
  \/ \E q \in Items(toKbd) : q.kind = "LayerInfo" /\ q.layer < LayerCount[fw]

SettleInv ==
  linked => probe > 0 \/ Flying("Summary") \/ (AtHome /\ (LayersAsked \/ Synced))

LEMMA SettleKeeps ==
  ASSUME SettleInv, linked' = linked, probe' = probe,
         Flying("Summary") => Flying("Summary")', LayersAsked => LayersAsked',
         AtHome => AtHome', Synced => Synced'
  PROVE  SettleInv'
BY DEF SettleInv

LEMMA SettleKeyboard ==
  ASSUME Losable \cap SyncKinds = {}, TypeOK, SettleInv,
         KeyboardAnswer \/ LayerChange \/ LoseExchange \/ ProbeRetry
  PROVE  SettleInv'
<1>1. fw' = fw /\ linked' = linked /\ status' = status /\ km' = km
  BY DEF KeyboardAnswer, LayerChange, LoseExchange, ProbeRetry
<1>2. (Synced => Synced') /\ (AtHome => AtHome')
  BY <1>1 DEF Synced, AtHome, Discovering
<1>3. CASE KeyboardAnswer
  <2> DEFINE h == Head(toKbd)
  <2>1. /\ Items(toKbd) = {h} \cup Items(toKbd')
        /\ Items(toHost') = Items(toHost) \cup (IF linked /\ Answers(h) THEN {Reply(h)} ELSE {})
        /\ Reply(h).kind = h.kind /\ Reply(h).layer = h.layer
    BY <1>3, AnsweredItems, AskedItems
  <2>2. h.kind = "Summary" \/ (h.kind = "LayerInfo" /\ h.layer < LayerCount[fw]) => Answers(h)
    BY DEF Answers
  <2>3. probe' = probe
    BY <1>3 DEF KeyboardAnswer
  <2> HIDE DEF h
  <2>4. linked => /\ Flying("Summary") => Flying("Summary")'
                  /\ LayersAsked => LayersAsked'
    BY <1>1, <2>1, <2>2 DEF Flying, Has, LayersAsked
  <2>5. CASE linked
    BY <1>1, <1>2, <2>3, <2>4, <2>5, SettleKeeps
  <2>6. QED
    BY <1>1, <2>5 DEF SettleInv
<1>4. CASE LayerChange
  <2>1. /\ Items(toHost') = Items(toHost) \cup {Reply(Ask("CurrentLayer", 0, 0))}
        /\ toKbd' = toKbd /\ probe' = probe
    BY <1>4, ChangeItems DEF LayerChange
  <2>2. /\ Flying("Summary") => Flying("Summary")'
        /\ LayersAsked => LayersAsked'
    BY <1>1, <2>1 DEF Flying, Has, LayersAsked
  <2>3. QED
    BY <1>1, <1>2, <2>1, <2>2, SettleKeeps
<1>5. CASE LoseExchange
  <2>1. /\ Items(toKbd) = {Head(toKbd)} \cup Items(toKbd')
        /\ Head(toKbd).kind \notin SyncKinds
        /\ toHost' = toHost /\ probe' = probe
    BY <1>5, LostItems DEF LoseExchange
  <2>2. /\ Flying("Summary") => Flying("Summary")'
        /\ LayersAsked => LayersAsked'
    BY <1>1, <2>1 DEF Flying, Has, LayersAsked, SyncKinds
  <2>3. QED
    BY <1>1, <1>2, <2>1, <2>2, SettleKeeps
<1>6. CASE ProbeRetry
  <2>1. Items(toKbd') = Items(toKbd) \cup {Ask("CurrentLayer", 0, 0), Ask("Summary", 0, 0)}
    BY <1>6, SentItems, AskCurrentAndSummaryType, AskedItems DEF ProbeRetry
  <2>2. Flying("Summary")'
    BY <2>1, AskedItems DEF Flying, Has
  <2>3. QED
    BY <2>2 DEF SettleInv
<1>7. QED
  BY <1>3, <1>4, <1>5, <1>6

\* The keyboard's file, once loaded, is all there is to settle.
LEMMA LoadedSettles ==
  ASSUME TypeOK, OwnFileWhole, fw' = fw, Hit(cache, fw), km' = Load(cache, fw),
         status'.buildId = fw, status'.cached, status'.layersCount = LayerCount[fw],
         status' \in Status
  PROVE  SettleInv'
<1>1. Whole(km', fw) /\ fw \in Builds
  BY LoadHome DEF TypeOK, OwnFileWhole, HomeFile, Hit
<1>2. status' = [buildId |-> fw, cached |-> TRUE, layersCount |-> LayerCount[fw]]
  BY DEF Status
<1>3. Synced' /\ AtHome'
  BY <1>1, <1>2 DEF Synced, SyncedTo, AtHome, Discovering, Whole
<1>4. QED
  BY <1>3 DEF SettleInv
LEMMA SettleLayerState ==
  ASSUME TypeOK, TypeOK', HomeInv, OwnFileWhole, SettleInv,
         LayerStateKnown \/ LayerStateCached \/ LayerStateUnknown
  PROVE  SettleInv'
<1> DEFINE m == Head(toHost)
<1>0. /\ cache \in [Builds -> Keymap] /\ fw \in Builds /\ status \in Status /\ status' \in Status
      /\ HomeFile(cache, fw)
  BY DEF TypeOK, OwnFileWhole, HomeFile
<1>1. Received("CurrentLayer") /\ linked' = linked /\ fw' = fw
  BY DEF LayerStateKnown, LayerStateCached, LayerStateUnknown
<1>2. m.kind = "CurrentLayer" /\ m.build = fw
  BY <1>1, HeadHome
<1>3. CASE LayerStateKnown
  <2>1. toKbd' = toKbd /\ probe' = probe /\ km' = km /\ status' = [status EXCEPT !.buildId = fw]
    BY <1>2, <1>3 DEF LayerStateKnown
  <2>2. Items(toHost) = {m} \cup Items(toHost')
    <3>1. <<>> \in Seq(Query)
      OBVIOUS
    <3>2. QED
      BY <1>1, <2>1, <3>1, HandledItems
  <2>3. /\ Flying("Summary") => Flying("Summary")'
        /\ LayersAsked => LayersAsked'
    BY <1>1, <1>2, <2>1, <2>2 DEF Flying, Has, LayersAsked
  <2>4. AtHome => AtHome'
    BY <1>0, <1>1, <2>1 DEF AtHome, Discovering, Status
  <2>5. Synced => Synced'
    <3>1. SUFFICES ASSUME Synced PROVE Synced'
      OBVIOUS
    <3>2. Whole(km, fw)
          /\ status = [buildId |-> fw, cached |-> TRUE, layersCount |-> LayerCount[fw]]
      BY <3>1 DEF Synced, SyncedTo
    <3>3. status' = [buildId |-> fw, cached |-> TRUE, layersCount |-> LayerCount[fw]]
      BY <2>1, <3>2
    <3>4. QED
      BY <1>1, <2>1, <3>2, <3>3 DEF Synced, SyncedTo
  <2>6. QED
    BY <1>1, <2>1, <2>3, <2>4, <2>5, SettleKeeps
<1>4. CASE LayerStateCached
  <2>1. /\ Hit(cache, fw) /\ km' = Load(cache, fw)
        /\ status' = [buildId |-> fw, cached |-> TRUE, layersCount |-> NumLayers(cache[fw])]
    BY <1>2, <1>4 DEF LayerStateCached
  <2>2. NumLayers(cache[fw]) = LayerCount[fw]
    BY <1>0, <2>1, LoadHome DEF Hit
  <2>3. QED
    BY <1>0, <1>1, <2>1, <2>2, LoadedSettles
<1>5. CASE LayerStateUnknown
  <2> DEFINE qs == <<Ask("Summary", 0, 0)>>
  <2>1. toKbd' = toKbd \o qs
    BY <1>5 DEF LayerStateUnknown, Send
  <2>2. qs \in Seq(Query) /\ Items(qs) = {Ask("Summary", 0, 0)}
    BY SummaryType, ItemsOne
  <2> HIDE DEF qs
  <2>3. Items(toKbd') = Items(toKbd) \cup {Ask("Summary", 0, 0)}
    BY <1>1, <2>1, <2>2, HandledItems
  <2>4. Flying("Summary")'
    BY <2>3, AskedItems DEF Flying, Has
  <2>5. QED
    BY <2>4 DEF SettleInv
<1>6. QED
  BY <1>3, <1>4, <1>5

LEMMA SettleSummary ==
  ASSUME TypeOK, TypeOK', HomeInv, OwnFileWhole, SettleInv, SummaryCached \/ SummaryDiscover
  PROVE  SettleInv'
<1> DEFINE m == Head(toHost)
<1>0. fw \in Builds /\ status' \in Status /\ km \in Keymap
  BY DEF TypeOK
<1>1. Received("Summary") /\ linked' = linked /\ fw' = fw
  BY DEF SummaryCached, SummaryDiscover
<1>2. m.build = fw
  BY <1>1, HeadHome
<1>3. CASE SummaryCached
  <2>1. /\ Hit(cache, fw) /\ km' = Load(cache, fw)
        /\ status' = [buildId |-> fw, cached |-> TRUE, layersCount |-> LayerCount[fw]]
    BY <1>2, <1>3 DEF SummaryCached
  <2>2. QED
    BY <1>0, <1>1, <2>1, LoadedSettles
<1>4. CASE SummaryDiscover
  <2> DEFINE qs == <<Ask("LayerInfo", 0, 0)>>
  <2>1. /\ toKbd' = toKbd \o qs /\ km' = Summarised(km, fw)
        /\ status' = [buildId |-> fw, cached |-> FALSE, layersCount |-> LayerCount[fw]]
    BY <1>2, <1>4 DEF SummaryDiscover, Send
  <2>2. qs \in Seq(Query) /\ Items(qs) = {Ask("LayerInfo", 0, 0)}
    BY AskType, SizesAssumption, ItemsOne DEF QueryKinds, Idx
  <2> HIDE DEF qs
  <2>3. Items(toKbd') = Items(toKbd) \cup {Ask("LayerInfo", 0, 0)}
    BY <1>1, <2>1, <2>2, HandledItems
  <2>4. LayersAsked'
    BY <1>0, <1>1, <2>3, AskedItems, SizesAssumption DEF LayersAsked
  <2>5. km'.build = fw
    BY <1>0, <2>1 DEF Summarised, Cleared, Keymap
  <2>6. AtHome'
    BY <1>1, <2>1, <2>5 DEF AtHome, Discovering
  <2>7. QED
    BY <2>4, <2>6 DEF SettleInv
<1>5. QED
  BY <1>3, <1>4

\* A layer of the keyboard's build, at home, asks for the next or is the last; away from
\* home it changes nothing of what is still to come.
LEMMA SettleLayerInfo ==
  ASSUME TypeOK, HomeInv, SettleInv, LayerInfoNext \/ LayerInfoDone
  PROVE  SettleInv'
<1> DEFINE m == Head(toHost)
           k == WithLayer(km, m)
<1>0. km \in Keymap /\ fw \in Builds /\ status \in Status /\ fw # NoBuild
  BY BuildsAssumption DEF TypeOK
<1>1. /\ Received("LayerInfo") /\ linked /\ linked' = linked /\ fw' = fw /\ km' = k
      /\ probe' = probe
  BY DEF LayerInfoNext, LayerInfoDone, Received
<1>2. /\ m \in Report /\ m.build = fw /\ m.kind = "LayerInfo" /\ m.layer < LayerCount[fw]
      /\ m.layer \in Idx
  BY <1>1, HeadHome DEF Report
<1>3. /\ k \in Keymap /\ k.present /\ k.build = km.build /\ k.layerCount = km.layerCount
      /\ k.layers = [km.layers EXCEPT ![m.layer] = m.build]
  <2>1. k \in Keymap
    BY <1>0, <1>2, WithLayerType
  <2>2. k.present /\ k.build = km.build /\ k.layerCount = km.layerCount
    BY <1>0 DEF WithLayer, Keymap
  <2>3. k.layers = [km.layers EXCEPT ![m.layer] = m.build]
    BY <1>0 DEF WithLayer, Keymap
  <2>4. QED
    BY <2>1, <2>2, <2>3
<1>4. k.build = fw => SoundKeymap(k)
  <2>1. SUFFICES ASSUME k.build = fw PROVE SoundKeymap(k)
    OBVIOUS
  <2>2. SoundKeymap(km) /\ km.layers \in [Idx -> Maybe]
    BY <1>0, <1>3, <2>1 DEF HomeInv, HomeKeymap, Keymap
  <2> HIDE DEF k
  <2>3. QED
    BY <1>0, <1>2, <1>3, <2>1, <2>2 DEF SoundKeymap, PartOfOneBuild, HeaderOfBuild
<1>5. status'.buildId = status.buildId /\ status'.layersCount = status.layersCount
      /\ (LayerInfoDone => status'.cached)
  BY <1>0 DEF LayerInfoNext, LayerInfoDone, Status
<1>6. AtHome => AtHome'
  BY <1>1, <1>3, <1>5 DEF AtHome, Discovering
<1>7. CASE LayerInfoNext
  <2> DEFINE qs == <<Ask("LayerInfo", NumLayers(k), 0)>>
  <2>1. NumLayers(k) < k.layerCount /\ toKbd' = toKbd \o qs
    BY <1>7 DEF LayerInfoNext, Send
  <2> HIDE DEF k
  <2>2. NumLayers(k) \in Idx
    <3>1. NumLayers(k) \in Nat
      BY <1>3, NumLayersType
    <3>2. k.layerCount \in 0..MaxLayers /\ MaxLayers \in Nat
      BY <1>3, SizesAssumption DEF Keymap
    <3>3. QED
      BY <2>1, <3>1, <3>2 DEF Idx
  <2>3. qs \in Seq(Query) /\ Items(qs) = {Ask("LayerInfo", NumLayers(k), 0)}
    BY <2>2, AskType, ItemsOne DEF QueryKinds
  <2> HIDE DEF qs
  <2>4. /\ Items(toHost) = {m} \cup Items(toHost')
        /\ Items(toKbd') = Items(toKbd) \cup {Ask("LayerInfo", NumLayers(k), 0)}
    BY <1>1, <2>1, <2>3, HandledItems
  <2>5. Flying("Summary") => Flying("Summary")'
    BY <1>2, <2>4 DEF Flying, Has
  <2>6. AtHome => NumLayers(k) < LayerCount[fw]
    BY <1>0, <1>3, <1>4, <2>1 DEF AtHome, Discovering, SoundKeymap, HeaderOfBuild
  <2>7. AtHome => LayersAsked'
    BY <1>1, <2>4, <2>6, AskedItems DEF LayersAsked
  <2>8. QED
    BY <1>1, <1>6, <2>5, <2>7 DEF SettleInv
<1>8. CASE LayerInfoDone
  <2>1. NumLayers(k) >= k.layerCount /\ toKbd' = toKbd
    BY <1>8 DEF LayerInfoDone
  <2> HIDE DEF k
  <2>2. Items(toHost) = {m} \cup Items(toHost')
    <3>1. <<>> \in Seq(Query)
      OBVIOUS
    <3>2. QED
      BY <1>1, <2>1, <3>1, HandledItems
  <2>3. Flying("Summary") => Flying("Summary")'
    BY <1>2, <2>1, <2>2 DEF Flying, Has
  <2>4. AtHome => Synced'
    <3>1. SUFFICES ASSUME AtHome PROVE Synced'
      OBVIOUS
    <3>2. Whole(k, fw)
      BY <1>0, <1>3, <1>4, <2>1, <3>1, CompleteIsWhole DEF SoundKeymap, AtHome, Discovering
    <3>3. status' = [status EXCEPT !.cached = TRUE]
      BY <1>8 DEF LayerInfoDone
    <3>4. status' = [buildId |-> fw, cached |-> TRUE, layersCount |-> LayerCount[fw]]
      BY <1>0, <3>1, <3>3 DEF AtHome, Discovering, Status
    <3>5. QED
      BY <1>1, <3>2, <3>4 DEF Synced, SyncedTo
  <2>5. QED
    BY <1>1, <1>6, <2>3, <2>4 DEF SettleInv
<1>9. QED
  BY <1>7, <1>8

LEMMA SettleSlots ==
  ASSUME TypeOK, SettleInv, BindingNext \/ BindingDone \/ SensorNext \/ SensorDone
  PROVE  SettleInv'
<1> DEFINE m == Head(toHost)
<1>1. PICK kind \in SlotKinds, qs \in Seq(Query) :
        /\ Received(kind)
        /\ toKbd' = toKbd \o qs \/ (toKbd' = toKbd /\ qs = <<>>)
        /\ \A q \in Items(qs) : q.kind \in SlotKinds
  BY ChainStep
<1>2. /\ Items(toHost) = {m} \cup Items(toHost') /\ m.kind \in SlotKinds
      /\ Items(toKbd') = Items(toKbd) \cup Items(qs)
  BY <1>1, HandledItems
<1>3. fw' = fw /\ linked' = linked /\ status' = status /\ probe' = probe
      /\ km' \in {WithBinding(km, m), WithSensor(km, m)}
  BY DEF BindingNext, BindingDone, SensorNext, SensorDone
<1>4. /\ Flying("Summary") => Flying("Summary")'
      /\ LayersAsked => LayersAsked'
  BY <1>2, <1>3 DEF Flying, Has, LayersAsked, SlotKinds
<1>5. m \in Report /\ km \in Keymap
  BY <1>1, ReceivedReport DEF TypeOK
<1>6. /\ km'.present /\ km'.build = km.build /\ km'.layerCount = km.layerCount
      /\ km'.layers = km.layers
  BY <1>3, <1>5, WithBindingKeeps, WithSensorKeeps
<1>7. Whole(km, fw) => Whole(km', fw)
  BY <1>6, SameLayersWhole
<1>8. (AtHome => AtHome') /\ (Synced => Synced')
  BY <1>3, <1>6, <1>7 DEF AtHome, Discovering, Synced, SyncedTo
<1>9. QED
  BY <1>3, <1>4, <1>8, SettleKeeps
\* A lookup leaves a daemon at home there.
LEMMA LookupsAtHome ==
  ASSUME NEW c \in [Builds -> Keymap], NEW b \in Builds, HomeFile(c, b), NEW st, NEW k,
         k.build = b, st.buildId = b, st.layersCount = LayerCount[b],
         NEW r \in Lookups(c, st, k)
  PROVE  r.km.build = b /\ r.st.buildId = b /\ r.st.layersCount = LayerCount[b]
<1>1. CASE HasLayers(k)
  BY <1>1, LookupsIdle
<1>2. CASE ~HasLayers(k)
  <2>1. b # NoBuild
    BY BuildsAssumption
  <2>2. r = Found(c, b, st, k)
    BY <1>2, <2>1 DEF Lookups
  <2>3. CASE Hit(c, b)
    <3>1. Load(c, b).build = b /\ NumLayers(c[b]) = LayerCount[b]
      BY <2>3, LoadHome DEF Hit, Whole
    <3>2. QED
      BY <2>1, <2>2, <2>3, <3>1 DEF Found
  <2>4. CASE ~Hit(c, b)
    BY <2>2, <2>4 DEF Found
  <2>5. QED
    BY <2>3, <2>4
<1>3. QED
  BY <1>1, <1>2

LEMMA SettleLookup ==
  ASSUME TypeOK, OwnFileWhole, SettleInv, linked' = linked, probe' = probe, fw' = fw,
         toHost' = toHost, NEW r \in Lookups(cache, status, km), km' = r.km, status' = r.st,
         NEW qs \in Seq(Query), toKbd' = toKbd \o qs \/ toKbd' = toKbd
  PROVE  SettleInv'
<1>0. /\ cache \in [Builds -> Keymap] /\ fw \in Builds /\ km \in Keymap /\ HomeFile(cache, fw)
      /\ toKbd \in Seq(Query)
  BY DEF TypeOK, OwnFileWhole, HomeFile
<1>1. Items(toKbd) \subseteq Items(toKbd')
  <2>1. CASE toKbd' = toKbd \o qs
    BY <1>0, <2>1, ItemsConcat
  <2>2. QED
    BY <2>1
<1>2. /\ Flying("Summary") => Flying("Summary")'
      /\ LayersAsked => LayersAsked'
  BY <1>1 DEF Flying, Has, LayersAsked
<1>3. AtHome => AtHome'
  BY <1>0, LookupsAtHome DEF AtHome, Discovering
<1>4. Synced => Synced'
  <2>1. Synced => HasLayers(km)
    BY <1>0, WholeHasLayers DEF Synced, SyncedTo
  <2>2. QED
    BY <2>1, LookupsIdle DEF Synced
<1>5. QED
  BY <1>2, <1>3, <1>4, SettleKeeps

LEMMA SettleRequests ==
  ASSUME TypeOK, TypeOK', OwnFileWhole, SettleInv, Request
  PROVE  SettleInv'
<1>0. /\ km \in Keymap /\ status \in Status /\ fw \in Builds /\ toKbd \in Seq(Query)
      /\ <<>> \in Seq(Query) /\ cache' \in [Builds -> Keymap]
  BY DEF TypeOK
<1>1. linked' = linked /\ fw' = fw /\ toHost' = toHost /\ probe' = probe
  BY DEF Request, GetStatus, GetLayers, GetKeymap, RefreshKeymap, RefreshAndGet, ClearCache
<1>2. CASE GetStatus
  <2>1. /\ km' = km /\ toKbd' = toKbd
        /\ status' = [buildId |-> IF status.buildId = NoBuild THEN km.build ELSE status.buildId,
                      cached |-> TRUE,
                      layersCount |-> IF status.layersCount = 0 THEN NumLayers(km)
                                      ELSE status.layersCount]
    BY <1>2 DEF GetStatus
  <2>2. LayerCount[fw] # 0 /\ fw # NoBuild
    BY <1>0, SizesAssumption, BuildsAssumption
  <2>3. AtHome => AtHome'
    BY <1>1, <2>1, <2>2 DEF AtHome, Discovering
  <2>4. Synced => Synced'
    BY <1>1, <2>1, <2>2 DEF Synced, SyncedTo
  <2>5. /\ Flying("Summary") => Flying("Summary")'
        /\ LayersAsked => LayersAsked'
    BY <1>1, <2>1 DEF Flying, LayersAsked
  <2>6. QED
    BY <1>1, <2>3, <2>4, <2>5, SettleKeeps
<1>3. CASE GetLayers
  BY <1>0, <1>1, <1>3, SettleLookup DEF GetLayers
<1>4. ASSUME NEW l \in Idx \cup {AllLayers}, GetKeymap(l) PROVE SettleInv'
  <2>1. PICK r \in Lookups(cache, status, km) :
          km' = r.km /\ status' = r.st /\ toKbd' = toKbd \o Wanted(r.km, l)
    BY <1>4 DEF GetKeymap, Send
  <2>2. r.km \in Keymap
    BY <2>1, LookupsType DEF FoundRecord, TypeOK
  <2>3. Wanted(r.km, l) \in Seq(Query)
    BY <2>2, WantedType
  <2>4. QED
    BY <1>1, <2>1, <2>3, SettleLookup
<1>5. CASE RefreshKeymap \/ \E l \in Idx \cup {AllLayers} : RefreshAndGet(l)
  <2> DEFINE ask == <<Ask("Summary", 0, 0)>>
             st == [status EXCEPT !.cached = FALSE]
  <2>1. ask \in Seq(Query) /\ Items(ask) = {Ask("Summary", 0, 0)}
    BY SummaryType, ItemsOne
  <2>2. Ask("Summary", 0, 0) \in Items(toKbd')
    <3>1. CASE RefreshKeymap
      BY <3>1, <2>1, SentItems DEF RefreshKeymap
    <3>2. ASSUME NEW l \in Idx \cup {AllLayers}, RefreshAndGet(l)
          PROVE  Ask("Summary", 0, 0) \in Items(toKbd')
      <4>1. PICK r \in Lookups(cache', st, Dropped(km)) : toKbd' = toKbd \o (ask \o Wanted(r.km, l))
        BY <3>2 DEF RefreshAndGet, Send
      <4>2. st \in Status /\ Dropped(km) \in Keymap
        BY <1>0, DroppedType DEF Status
      <4> HIDE DEF ask, st
      <4>3. r.km \in Keymap
        BY <1>0, <4>1, <4>2, LookupsType DEF FoundRecord
      <4>4. Wanted(r.km, l) \in Seq(Query)
        BY <4>3, WantedType
      <4> DEFINE qs == ask \o Wanted(r.km, l)
      <4>5. qs \in Seq(Query) /\ Items(qs) = Items(ask) \cup Items(Wanted(r.km, l))
        BY <2>1, <4>4, ItemsConcat, SeqFacts
      <4>6. toKbd' = toKbd \o qs
        BY <4>1
      <4> HIDE DEF qs
      <4>7. Items(toKbd') = Items(toKbd) \cup Items(qs)
        BY <1>0, <4>5, <4>6, ItemsConcat
      <4>8. QED
        BY <2>1, <4>5, <4>7
    <3>3. QED
      BY <1>5, <3>1, <3>2
  <2>3. Flying("Summary")'
    BY <2>2, AskedItems DEF Flying, Has
  <2>4. QED
    BY <2>3 DEF SettleInv
<1>6. CASE ClearCache
  <2>1. status' = status /\ km' = km /\ toKbd' = toKbd
    BY <1>6 DEF ClearCache
  <2>2. QED
    BY <1>1, <2>1 DEF SettleInv, Flying, AtHome, Discovering, LayersAsked, Synced
<1>7. QED
  BY <1>2, <1>3, <1>4, <1>5, <1>6 DEF Request

LEMMA StepSettle ==
  ASSUME Losable \cap SyncKinds = {}, TypeOK, TypeOK', HomeInv, OwnFileWhole, SettleInv,
         [RestartNext]_vars
  PROVE  SettleInv'
<1>1. CASE Connect \/ Reconnect
  <2>1. probe' > 0
    BY <1>1, BoundsAssumption DEF Connect, Reconnect
  <2>2. QED
    BY <2>1 DEF SettleInv
<1>2. CASE Disconnect \/ Flash \/ Stop
  BY <1>2 DEF Disconnect, Flash, Stop, SettleInv
<1>3. CASE KeyboardAnswer \/ LayerChange \/ LoseExchange \/ ProbeRetry
  BY <1>3, SettleKeyboard
<1>4. CASE Handle
  BY <1>4, SettleLayerState, SettleSummary, SettleLayerInfo, SettleSlots DEF Handle
<1>5. CASE Request
  BY <1>5, SettleRequests
<1>6. CASE UNCHANGED vars
  BY <1>6 DEF vars, SettleInv, Flying, AtHome, Discovering, LayersAsked, Synced
<1>7. QED
  BY <1>1, <1>2, <1>3, <1>4, <1>5, <1>6 DEF RestartNext, Next, Environment

\* Across restarts and second openings, as long as the file of the keyboard's build is
\* whole whenever there is one: answers of an earlier life do not keep the daemon from
\* settling at the keyboard's own keymap, since each discovery begins with a keymap
\* that only the keyboard's build or its file can give.
THEOREM SettledAcross ==
  ASSUME Losable \cap {"Summary", "LayerInfo"} = {}
  PROVE  RestartSpec /\ []OwnFileWhole => []SettledIsSynced
<1>1. SettleInv => SettledIsSynced
  <2>1. SUFFICES ASSUME SettleInv, linked, probe = 0, toKbd = <<>>, toHost = <<>>
                 PROVE  Synced
    BY DEF SettledIsSynced, Synced, SyncedTo
  <2>2. ~Flying("Summary") /\ ~LayersAsked
    BY <2>1, HasInitial, ItemsOne DEF Flying, LayersAsked
  <2>3. QED
    BY <2>1, <2>2 DEF SettleInv
<1>2. Init => HomeInv /\ SettleInv
  BY InitHome DEF Init, SettleInv
<1>3. TypeOK /\ TypeOK' /\ HomeInv /\ SettleInv /\ OwnFileWhole /\ [RestartNext]_vars
        => HomeInv' /\ SettleInv'
  BY HomeStep, StepSettle DEF SyncKinds
<1>4. QED
  BY <1>1, <1>2, <1>3, RestartTypeCorrect, PTL DEF RestartSpec

\* A keyboard that keeps its build is therefore shown its whole keymap once nothing is in
\* flight, whatever was in flight when the daemon stopped or opened it again.
THEOREM RestartSettledAlways ==
  ASSUME Losable \cap {"Summary", "LayerInfo"} = {}, Budget["flash"] = 0
  PROVE  RestartSpec => []SettledIsSynced
<1>1. RestartSpec => []OwnFileWhole
  BY OwnFileWholeAlways
<1>2. RestartSpec /\ []OwnFileWhole => []SettledIsSynced
  BY SettledAcross
<1>3. QED
  BY <1>1, <1>2, PTL

-----------------------------------------------------------------------------
(* The files of other builds *)

\* Setting a list in the file of build b leaves the other files alone.
LEMMA UpdatesOneFile ==
  ASSUME NEW c \in [Builds -> Keymap], AllWhole(c), NEW b \in Maybe, NEW l \in Idx,
         NEW list, NEW x \in Builds, x # b
  PROVE  UpdateBindings(c, b, l, list)[x] = c[x] /\ UpdateSensors(c, b, l, list)[x] = c[x]
<1>1. CASE b = NoBuild \/ ~c[b].present
  BY <1>1 DEF UpdateBindings, UpdateSensors
<1>2. CASE b # NoBuild /\ c[b].present
  <2> DEFINE kb == [Load(c, b) EXCEPT !.bindings[l] = list]
             ks == [Load(c, b) EXCEPT !.sensorBindings[l] = list]
  <2>1. b \in Builds /\ c[b].build = b
    BY <1>2 DEF Maybe, AllWhole, Whole
  <2>2. Load(c, b) \in Keymap /\ Load(c, b).build = b
    BY <2>1, LoadType DEF Load, Keymap
  <2>3. kb.build = b /\ ks.build = b
    BY <2>2 DEF Keymap
  <2>4. /\ UpdateBindings(c, b, l, list) = Save(c, kb)
        /\ UpdateSensors(c, b, l, list) = Save(c, ks)
    BY <1>2 DEF UpdateBindings, UpdateSensors
  <2> HIDE DEF kb, ks
  <2>5. QED
    BY <2>3, <2>4 DEF Save
<1>3. QED
  BY <1>1, <1>2

\* Once the status shows the keyboard's build, only a client who clears the cache
\* changes the file of another build.
LEMMA OthersKept ==
  ASSUME TypeOK, FilesInv, Next, status.buildId = fw,
         NEW x \in Builds, x # fw, cache'[x] # cache[x]
  PROVE  ClearCache
<1> DEFINE m == Head(toHost)
<1>0. /\ cache \in [Builds -> Keymap] /\ AllWhole(cache) /\ km \in Keymap
      /\ LinkSound /\ fw \in Builds /\ fw \in Maybe
  BY DEF TypeOK, FilesInv, FilesWhole, AllWhole, Maybe
<1>1. \A c, spent : Write(c, spent) => cache' = c \/ cache' = cache
  BY DEF Write
<1>2. CASE LayerInfoDone
  <2> DEFINE k == WithLayer(km, m)
  <2>1. Received("LayerInfo") /\ Write(Save(cache, k), {})
    BY <1>2 DEF LayerInfoDone
  <2>2. k.build = fw
    BY <1>0, <2>1, HeadSound DEF Discovering, WithLayer, Keymap
  <2> HIDE DEF k
  <2>3. Save(cache, k)[x] = cache[x]
    BY <1>0, <2>2 DEF Save
  <2>4. QED
    BY <1>1, <2>1, <2>3
<1>3. CASE BindingDone
  <2>1. PICK list : Received("Binding") /\ Write(UpdateBindings(cache, fw, m.layer, list), {})
    BY <1>3 DEF BindingDone
  <2>2. m.layer \in Idx
    BY <1>0, <2>1, HeadSound DEF Report
  <2>3. QED
    BY <1>0, <1>1, <2>1, <2>2, UpdatesOneFile
<1>4. CASE SensorDone
  <2>1. PICK list : Received("Sensor") /\ Write(UpdateSensors(cache, fw, m.layer, list), {})
    BY <1>4 DEF SensorDone
  <2>2. m.layer \in Idx
    BY <1>0, <2>1, HeadSound DEF Report
  <2>3. QED
    BY <1>0, <1>1, <2>1, <2>2, UpdatesOneFile
<1>5. ASSUME RefreshKeymap \/ \E l \in Idx \cup {AllLayers} : RefreshAndGet(l)
      PROVE  FALSE
  <2>1. Write(Removed(cache, fw), {"request"})
    BY <1>5 DEF RefreshKeymap, RefreshAndGet
  <2>2. Removed(cache, fw)[x] = cache[x]
    BY <1>0 DEF Removed
  <2>3. QED
    BY <1>1, <2>1, <2>2
<1>6. \/ LayerInfoDone \/ BindingDone \/ SensorDone
      \/ RefreshKeymap \/ (\E l \in Idx \cup {AllLayers} : RefreshAndGet(l))
      \/ ClearCache \/ cache' = cache
  BY DEF Next, Connect, Disconnect, Handle, LayerStateKnown, LayerStateCached,
     LayerStateUnknown, SummaryCached, SummaryDiscover, LayerInfoNext, BindingNext,
     SensorNext, ProbeRetry, Request, GetStatus, GetLayers, GetKeymap, KeyboardAnswer,
     Environment, Flash, LayerChange, LoseExchange
<1>7. QED
  BY <1>2, <1>3, <1>4, <1>5, <1>6
=============================================================================
