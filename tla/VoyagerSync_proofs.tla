------------------------- MODULE VoyagerSync_proofs -------------------------
(***************************************************************************)
(* Proofs about VoyagerSync, for any layers, layouts, queue size and       *)
(* budget: the types, that what clients are told, what they read and what  *)
(* is on disk are one layout, that a served keyboard keeps its keymap,     *)
(* that a daemon that stops leaves no keyboard paired, and that the status *)
(* follows the layer as long as no queue of reports overflows.             *)
(***************************************************************************)
EXTENDS VoyagerSync, TLAPS

Keyboard == [plugged : BOOLEAN, paired : BOOLEAN, layer : Layers]
Event == {"add", "remove"}

-----------------------------------------------------------------------------
(* Types of the data *)

LEMMA ZeroIsLayer == 0 \in Layers
BY LayersAssumption

LEMMA FrameTypes ==
  /\ \A e \in {"Version", "Paired", "Firmware", "Layer", "Key"} : Evt(e) \in Frame
  /\ \A l \in Layers : LayerEvt(l) \in Frame
BY ZeroIsLayer DEF Frame, Evt, LayerEvt

LEMMA CommandTypes ==
  /\ \A c \in {"Version", "Pair", "Firmware", "Disconnect", "Light"} : Cmd(c) \in Command
  /\ \A l \in Layers : [cmd |-> "SetLayer", layer |-> l] \in Command
BY ZeroIsLayer DEF Command, Cmd

LEMMA ToldType ==
  ASSUME NEW k \in Keyboard, NEW c \in Command
  PROVE  Told(k, c) \in Keyboard
BY DEF Keyboard, Command, Told

LEMMA AnswersType ==
  ASSUME NEW k \in Keyboard, NEW c \in Command, NEW a \in Answers(k, c)
  PROVE  a \in Seq(Frame)
<1>1. c.layer \in Layers /\ c.cmd \in {"Version", "Pair", "Firmware", "Disconnect", "SetLayer", "Light"}
  BY DEF Command
<1>2. a \in {<<>>, <<Evt("Version")>>, <<Evt("Firmware")>>, <<Evt("Paired")>>, <<LayerEvt(c.layer)>>}
  BY <1>1 DEF Answers
<1>3. Evt("Version") \in Frame /\ Evt("Firmware") \in Frame /\ Evt("Paired") \in Frame
      /\ LayerEvt(c.layer) \in Frame
  BY <1>1, FrameTypes
<1>4. \A f \in Frame : <<f>> \in Seq(Frame)
  OBVIOUS
<1>5. <<>> \in Seq(Frame)
  OBVIOUS
<1>6. QED
  BY <1>2, <1>3, <1>4, <1>5

LEMMA WriteTypes ==
  ASSUME kbd \in Keyboard, pipe \in Seq(Frame), NEW h, NEW c \in Command, Write(h, c)
  PROVE  kbd' \in Keyboard /\ pipe' \in Seq(Frame)
<1>1. CASE h.fd = "open"
  <2>1. kbd' = Told(kbd, c) /\ \E a \in Answers(kbd, c) : pipe' = pipe \o a
    BY <1>1 DEF Write
  <2>2. QED
    BY <2>1, ToldType, AnswersType
<1>2. CASE h.fd # "open"
  BY <1>2 DEF Write
<1>3. QED
  BY <1>1, <1>2

LEMMA CloseTypes ==
  ASSUME kbd \in Keyboard, NEW h, Close(h)
  PROVE  kbd' \in Keyboard
BY ToldType, CommandTypes DEF Close

LEMMA InboxType ==
  ASSUME NEW h \in Handle, NEW inbox \in Seq(Frame)
  PROVE  [h EXCEPT !.inbox = inbox] \in Handle
<1> DEFINE Inboxes == Seq(Frame)
<1>1. h \in [fd : {"open", "hung", "closed"}, inbox : Inboxes, buildId : {"", "fw"}]
      /\ inbox \in Inboxes
  BY DEF Handle
<1> HIDE DEF Inboxes
<1>2. [h EXCEPT !.inbox = inbox]
        \in [fd : {"open", "hung", "closed"}, inbox : Inboxes, buildId : {"", "fw"}]
  BY <1>1
<1>3. QED
  BY <1>2 DEF Handle, Inboxes

LEMMA InboxOf ==
  ASSUME NEW h \in Handle
  PROVE  h.inbox \in Seq(Frame)
BY DEF Handle

LEMMA HandleTypes ==
  /\ NoHandle \in Handle
  /\ [NoHandle EXCEPT !.fd = "open"] \in Handle
  /\ \A h \in Handle : Hung(h) \in Handle
  /\ \A h \in Handle, frame \in Frame : Enqueued(h, frame) \in Handle
  /\ \A h \in Handle : h.inbox # <<>> => [h EXCEPT !.inbox = Tail(@)] \in Handle
<1>1. NoHandle \in Handle /\ [NoHandle EXCEPT !.fd = "open"] \in Handle
  <2>1. <<>> \in Seq(Frame)
    OBVIOUS
  <2>2. QED
    BY <2>1 DEF Handle, NoHandle
<1>2. ASSUME NEW h \in Handle PROVE Hung(h) \in Handle
  <2>1. <<>> \in Seq(Frame)
    OBVIOUS
  <2>2. QED
    BY <2>1 DEF Handle, Hung
<1>3. ASSUME NEW h \in Handle, NEW frame \in Frame PROVE Enqueued(h, frame) \in Handle
  <2>1. Append(h.inbox, frame) \in Seq(Frame)
    BY InboxOf
  <2>2. [h EXCEPT !.inbox = Append(@, frame)] \in Handle
    BY <2>1, InboxType
  <2>3. QED
    BY <2>2 DEF Enqueued
<1>4. ASSUME NEW h \in Handle, h.inbox # <<>> PROVE [h EXCEPT !.inbox = Tail(@)] \in Handle
  <2>1. Tail(h.inbox) \in Seq(Frame)
    BY <1>4, InboxOf
  <2>2. QED
    BY <2>1, InboxType
<1>5. QED
  BY <1>1, <1>2, <1>3, <1>4

LEMMA RestType ==
  ASSUME cand \in Handle
  PROVE  Rest \in Handle /\ \A b \in {"", "fw"} : [Rest EXCEPT !.buildId = b] \in Handle
BY HandleTypes DEF Rest, Handle

LEMMA StatusTypes == NewStatus \in Status /\ NoStatus \in Status
BY ZeroIsLayer DEF Status, NewStatus, NoStatus

-----------------------------------------------------------------------------
(* Types of the pieces of the actions *)

LEMMA SpendTypes ==
  ASSUME left \in [BudgetKinds -> Nat], NEW kind \in BudgetKinds, Spend(kind)
  PROVE  left' \in [BudgetKinds -> Nat]
BY DEF Spend

LEMMA SavedTypes ==
  ASSUME TypeOK, Saved
  PROVE  file' \in Layouts \cup {NoLayout} /\ left' \in [BudgetKinds -> Nat]
BY SpendTypes DEF Saved, TypeOK, BudgetKinds

LEMMA ReportedTypes ==
  ASSUME pipe \in Seq(Frame), NEW frame \in Frame, Reported(frame)
  PROVE  pipe' \in Seq(Frame)
BY DEF Reported

MapTypes ==
  /\ status \in Status
  /\ km \in Layouts \cup {NoLayout} /\ announced \in Layouts \cup {NoLayout}
  /\ heard \in BOOLEAN

LEMMA ForgottenTypes ==
  ASSUME Forgotten
  PROVE  MapTypes'
BY StatusTypes DEF Forgotten, MapTypes

LEMMA LookupTypes ==
  ASSUME MapTypes, file \in Layouts \cup {NoLayout}, NEW st \in Status, Lookup(st), heard' \in BOOLEAN
  PROVE  MapTypes'
<1>1. [st EXCEPT !.cached = TRUE] \in Status
  BY DEF Status
<1>2. QED
  BY <1>1 DEF Lookup, Shown, MapTypes

LEMMA OpenTypes ==
  ASSUME TypeOK, Open
  PROVE  cand' \in Handle /\ pipe' \in Seq(Frame) /\ step' = "version"
<1>1. Cmd("Version") \in Command /\ kbd \in Keyboard
  BY CommandTypes DEF TypeOK, Keyboard
<1>2. QED
  BY <1>1, AnswersType, HandleTypes DEF Open, TypeOK

LEMMA PolledTypes ==
  ASSUME TypeOK, NEW e, Polled(e)
  PROVE  dev' \in Handle /\ Head(dev.inbox) \in Frame
<1>1. dev.inbox \in Seq(Frame) /\ dev.inbox # <<>>
  BY DEF TypeOK, Handle, Polled
<1>2. Head(dev.inbox) \in Frame
  BY <1>1
<1>3. QED
  BY <1>1, <1>2, HandleTypes DEF Polled, TypeOK

-----------------------------------------------------------------------------
LEMMA WorldTypes ==
  ASSUME TypeOK, World
  PROVE  TypeOK'
<1>1. kbd \in Keyboard
  BY DEF TypeOK, Keyboard
<1>2. CASE Plug
  <2>1. kbd' \in Keyboard
    BY <1>2 DEF Plug, Keyboard
  <2>2. left' \in [BudgetKinds -> Nat]
    BY <1>2, SpendTypes DEF Plug, TypeOK, BudgetKinds
  <2>3. events' \in Seq(Event)
    BY <1>2 DEF Plug, TypeOK, Event
  <2>4. QED
    BY <1>2, <2>1, <2>2, <2>3 DEF Plug, TypeOK, Keyboard, Event, maps, handles
<1>3. CASE Unplug
  <2>1. kbd' \in Keyboard
    BY <1>3, ZeroIsLayer DEF Unplug, Keyboard
  <2>2. cand' \in Handle /\ dev' \in Handle
    BY <1>3, HandleTypes DEF Unplug, TypeOK
  <2>3. events' \in Seq(Event)
    BY <1>3 DEF Unplug, TypeOK, Event
  <2>4. QED
    BY <1>3, <2>1, <2>2, <2>3 DEF Unplug, TypeOK, Keyboard, Event, maps
<1>4. CASE Deliver
  <2>1. Head(pipe) \in Frame /\ pipe' \in Seq(Frame)
    BY <1>4 DEF Deliver, TypeOK
  <2>2. cand' \in Handle /\ dev' \in Handle
    BY <1>4, <2>1, HandleTypes DEF Deliver, TypeOK
  <2>3. QED
    BY <1>4, <2>1, <2>2 DEF Deliver, TypeOK, maps
<1>5. CASE LayerChange
  <2>1. left' \in [BudgetKinds -> Nat]
    BY <1>5, SpendTypes DEF LayerChange, TypeOK, BudgetKinds
  <2>2. PICK l \in Layers \ {kbd.layer} :
          kbd' = [kbd EXCEPT !.layer = l] /\ Reported(LayerEvt(l))
    BY <1>5 DEF LayerChange
  <2>3. kbd' \in Keyboard /\ pipe' \in Seq(Frame)
    BY <1>1, <2>2, FrameTypes, ReportedTypes DEF Keyboard, TypeOK
  <2>4. QED
    BY <1>5, <2>1, <2>3 DEF LayerChange, TypeOK, Keyboard, maps, handles
<1>6. CASE KeyPress
  <2>1. left' \in [BudgetKinds -> Nat]
    BY <1>6, SpendTypes DEF KeyPress, TypeOK, BudgetKinds
  <2>2. pipe' \in Seq(Frame)
    BY <1>6, FrameTypes, ReportedTypes DEF KeyPress, TypeOK
  <2>3. QED
    BY <1>6, <2>1, <2>2 DEF KeyPress, TypeOK, maps, handles
<1>7. CASE Publish
  <2>1. left' \in [BudgetKinds -> Nat]
    BY <1>7, SpendTypes DEF Publish, TypeOK, BudgetKinds
  <2>2. QED
    BY <1>7, <2>1 DEF Publish, TypeOK, maps, handles
<1>8. QED
  BY <1>2, <1>3, <1>4, <1>5, <1>6, <1>7 DEF World

LEMMA LifeTypes ==
  ASSUME TypeOK, Start \/ Stop \/ Crash
  PROVE  TypeOK'
<1>1. CASE Start
  BY <1>1 DEF Start, TypeOK, Steps, maps, handles
<1>2. CASE Stop
  <2>1. left' \in [BudgetKinds -> Nat]
    BY <1>2, SpendTypes DEF Stop, TypeOK, BudgetKinds
  <2>2. kbd' \in Keyboard
    BY <1>2, CloseTypes DEF Stop, TypeOK, Keyboard
  <2>3. MapTypes'
    BY <1>2, ForgottenTypes DEF Stop
  <2>4. QED
    BY <1>2, <2>1, <2>2, <2>3, HandleTypes DEF Stop, TypeOK, Steps, Keyboard, MapTypes
<1>3. CASE Crash
  <2>1. left' \in [BudgetKinds -> Nat]
    BY <1>3, SpendTypes DEF Crash, TypeOK, BudgetKinds
  <2>2. MapTypes' /\ 0 \in 0..(PairingReads - 1)
    BY <1>3, ForgottenTypes, BoundsAssumption DEF Crash
  <2>3. QED
    BY <1>3, <2>1, <2>2, HandleTypes DEF Crash, TypeOK, Steps, MapTypes
<1>4. QED
  BY <1>1, <1>2, <1>3

LEMMA HandshakeTypes ==
  ASSUME TypeOK, Handshake \/ AddEvent
  PROVE  TypeOK'
<1>1. kbd \in Keyboard
  BY DEF TypeOK, Keyboard
<1>2. CASE Scan
  BY <1>2, OpenTypes DEF Scan, TypeOK, Steps, maps
<1>3. CASE AddEvent
  <2>1. events' \in Seq(Event)
    BY <1>3 DEF AddEvent, TypeOK, Event
  <2>2. QED
    BY <1>3, <2>1, OpenTypes DEF AddEvent, TypeOK, Steps, Event, maps
<1>4. CASE ReadVersion
  <2>1. kbd' \in Keyboard /\ pipe' \in Seq(Frame)
    BY <1>1, <1>4, WriteTypes, CommandTypes DEF ReadVersion, TypeOK
  <2>2. QED
    BY <1>4, <2>1, RestType DEF ReadVersion, TypeOK, Steps, Keyboard, maps
<1>5. CASE ReadPairing
  <2>1. CASE Got("Paired") \/ reads + 1 = PairingReads
    <3>1. kbd' \in Keyboard /\ pipe' \in Seq(Frame) /\ reads' = 0 /\ step' = "firmware"
      BY <1>1, <1>5, <2>1, WriteTypes, CommandTypes DEF ReadPairing, TypeOK
    <3>2. 0 \in 0..(PairingReads - 1)
      BY BoundsAssumption
    <3>3. QED
      BY <1>5, <3>1, <3>2, RestType DEF ReadPairing, TypeOK, Steps, Keyboard, maps
  <2>2. CASE ~(Got("Paired") \/ reads + 1 = PairingReads)
    <3>1. reads' \in 0..(PairingReads - 1)
      BY <1>5, <2>2, BoundsAssumption DEF ReadPairing, TypeOK
    <3>2. QED
      BY <1>5, <2>2, <3>1, RestType DEF ReadPairing, TypeOK, maps
  <2>3. QED
    BY <2>1, <2>2
<1>6. CASE ReadFirmware
  <2>1. cand' \in Handle
    BY <1>6, RestType DEF ReadFirmware, TypeOK
  <2>2. QED
    BY <1>6, <2>1 DEF ReadFirmware, TypeOK, Steps, maps
<1>7. CASE Connect
  <2>1. kbd' \in Keyboard
    BY <1>1, <1>7, CloseTypes DEF Connect
  <2>2. [NewStatus EXCEPT !.cached = TRUE] \in Status
    BY StatusTypes DEF Status
  <2>3. MapTypes' /\ step' \in {"idle", "connectFetch"}
    BY <1>7, <2>2, StatusTypes DEF Connect, TypeOK, MapTypes, Shown
  <2>4. QED
    BY <1>7, <2>1, <2>3, HandleTypes DEF Connect, TypeOK, Steps, Keyboard, MapTypes
<1>8. QED
  BY <1>2, <1>3, <1>4, <1>5, <1>6, <1>7 DEF Handshake

LEMMA LoopTypes ==
  ASSUME TypeOK, Fetch \/ RemoveEvent \/ Poll
  PROVE  TypeOK'
<1>1. kbd \in Keyboard /\ MapTypes
  BY DEF TypeOK, Keyboard, MapTypes
<1>2. CASE FetchSucceeds
  <2>1. [status EXCEPT !.cached = TRUE] \in Status
    BY DEF TypeOK, Status
  <2>2. QED
    BY <1>2, <2>1, SavedTypes DEF FetchSucceeds, Fetching, Returned, Shown, TypeOK, Steps, handles
<1>3. CASE FetchFails
  BY <1>3 DEF FetchFails, Returned, TypeOK, Steps, maps, handles
<1>4. CASE RemoveEvent
  <2>1. kbd' \in Keyboard /\ MapTypes'
    BY <1>1, <1>4, CloseTypes, ForgottenTypes DEF RemoveEvent
  <2>2. events' \in Seq(Event)
    BY <1>4 DEF RemoveEvent, TypeOK, Event
  <2>3. QED
    BY <1>4, <2>1, <2>2, HandleTypes DEF RemoveEvent, TypeOK, Keyboard, Event, MapTypes
<1>5. CASE LayerReport
  <2>1. PICK st \in Status : Lookup(st)
    <3>1. dev' \in Handle /\ Head(dev.inbox) \in Frame
      BY <1>5, PolledTypes DEF LayerReport
    <3>2. dev.buildId \in {"", "fw"} /\ status \in Status /\ Head(dev.inbox).layer \in Layers
      BY <3>1 DEF TypeOK, Handle, Frame
    <3>3. [status EXCEPT !.layer = Head(dev.inbox).layer,
                         !.buildId = IF dev.buildId = "" THEN @ ELSE dev.buildId] \in Status
      BY <3>2 DEF Status
    <3>4. QED
      BY <1>5, <3>3 DEF LayerReport
  <2>2. MapTypes'
    BY <1>1, <1>5, <2>1, LookupTypes DEF LayerReport, TypeOK
  <2>3. dev' \in Handle
    BY <1>5, PolledTypes DEF LayerReport
  <2>4. QED
    BY <1>5, <2>2, <2>3 DEF LayerReport, TypeOK, MapTypes
<1>6. CASE OtherReport
  <2>1. dev' \in Handle
    BY <1>6, PolledTypes DEF OtherReport
  <2>2. QED
    BY <1>6, <2>1 DEF OtherReport, TypeOK, maps
<1>7. CASE HangUp
  <2>1. MapTypes'
    BY <1>7, ForgottenTypes DEF HangUp
  <2>2. QED
    BY <1>7, <2>1, HandleTypes DEF HangUp, TypeOK, MapTypes
<1>8. QED
  BY <1>2, <1>3, <1>4, <1>5, <1>6, <1>7 DEF Fetch, Poll

LEMMA ServeTypes ==
  ASSUME TypeOK, Serve \/ \E m \in Methods : Call(m)
  PROVE  TypeOK'
<1>1. kbd \in Keyboard /\ MapTypes
  BY DEF TypeOK, Keyboard, MapTypes
<1>2. ASSUME NEW m \in Methods, Call(m) PROVE TypeOK'
  <2>1. left' \in [BudgetKinds -> Nat]
    BY <1>2, SpendTypes DEF Call, TypeOK, BudgetKinds
  <2>2. QED
    BY <1>2, <2>1 DEF Call, TypeOK, maps, handles
<1>3. CASE AnswerError
  BY <1>3 DEF AnswerError, Answered, TypeOK, maps, handles
<1>4. CASE GetStatus
  <2>1. status' \in Status
    BY <1>4 DEF GetStatus, TypeOK, Status
  <2>2. QED
    BY <1>4, <2>1 DEF GetStatus, Answered, TypeOK, handles
<1>5. CASE GetKeymap
  <2>1. MapTypes'
    BY <1>1, <1>5, LookupTypes DEF GetKeymap, TypeOK
  <2>2. QED
    BY <1>5, <2>1 DEF GetKeymap, Answered, TypeOK, MapTypes, handles
<1>6. CASE RefreshKeymap
  BY <1>6 DEF RefreshKeymap, TypeOK, Steps, maps, handles
<1>7. CASE SetLayer \/ SetLight
  <2>1. kbd' \in Keyboard /\ pipe' \in Seq(Frame)
    BY <1>1, <1>7, WriteTypes, CommandTypes DEF SetLayer, SetLight, TypeOK
  <2>2. QED
    BY <1>7, <2>1 DEF SetLayer, SetLight, Answered, TypeOK, Keyboard, maps, handles
<1>8. CASE ClearCache
  BY <1>8 DEF ClearCache, Answered, TypeOK, maps, handles
<1>9. QED
  BY <1>2, <1>3, <1>4, <1>5, <1>6, <1>7, <1>8 DEF Serve

LEMMA TypeStep ==
  ASSUME TypeOK, [Next]_vars
  PROVE  TypeOK'
<1>1. CASE UNCHANGED vars
  BY <1>1 DEF TypeOK, vars, maps, handles
<1>2. CASE World
  BY <1>2, WorldTypes
<1>3. CASE Start \/ Stop \/ Crash
  BY <1>3, LifeTypes
<1>4. CASE Handshake \/ AddEvent
  BY <1>4, HandshakeTypes
<1>5. CASE Fetch \/ RemoveEvent \/ Poll
  BY <1>5, LoopTypes
<1>6. CASE Serve \/ \E m \in Methods : Call(m)
  BY <1>6, ServeTypes
<1>7. QED
  BY <1>1, <1>2, <1>3, <1>4, <1>5, <1>6 DEF Next, UdevEvent

\* Every step keeps the types: in whatever order the frames of the handshake come,
\* only the answer to the firmware query becomes the firmware version.
THEOREM TypeCorrect == Spec => []TypeOK
<1>1. Init => TypeOK
  <2>1. ASSUME Init PROVE kbd \in Keyboard
    <3>1. PICK l \in Layers : kbd \in {[plugged |-> TRUE, paired |-> FALSE, layer |-> l],
                                      [plugged |-> FALSE, paired |-> FALSE, layer |-> 0]}
      BY <2>1 DEF Init
    <3>2. [plugged |-> TRUE, paired |-> FALSE, layer |-> l] \in Keyboard
          /\ [plugged |-> FALSE, paired |-> FALSE, layer |-> 0] \in Keyboard
      BY <3>1, ZeroIsLayer DEF Keyboard
    <3>3. QED
      BY <3>1, <3>2
  <2>2. 0 \in 0..(PairingReads - 1)
    BY BoundsAssumption
  <2>3. QED
    <3>1. ASSUME Init PROVE TypeOK
      <4>1. kbd \in Keyboard /\ pipe \in Seq(Frame) /\ events \in Seq(Event)
        <5>1. pipe = <<>> /\ events = <<>>
          BY <3>1 DEF Init
        <5>2. QED
          BY <2>1, <3>1, <5>1
      <4>2. MapTypes /\ cand \in Handle /\ dev \in Handle /\ step \in Steps
        BY <3>1, HandleTypes, StatusTypes DEF Init, MapTypes, Steps
      <4>3. left \in [BudgetKinds -> Nat] /\ reads \in 0..(PairingReads - 1)
        BY <2>2, <3>1, BoundsAssumption DEF Init
      <4>4. published \in Layouts /\ file \in Layouts \cup {NoLayout} /\ call = "none"
        BY <3>1 DEF Init
      <4>5. QED
        BY <4>1, <4>2, <4>3, <4>4 DEF TypeOK, Keyboard, Event, MapTypes
    <3>2. QED
      BY <3>1
<1>2. TypeOK /\ [Next]_vars => TypeOK'
  BY TypeStep
<1>3. QED
  BY <1>1, <1>2, PTL DEF Spec

-----------------------------------------------------------------------------
(* One layout: announced, in memory and on disk *)

\* What is left for failing saves never grows again.
KeymapInv == AnnouncedIsShown /\ ShownIsStored /\ left["disk"] <= Budget["disk"]

LEMMA SpendFalls ==
  ASSUME TypeOK, NEW kind \in BudgetKinds, Spend(kind)
  PROVE  left'["disk"] <= left["disk"] /\ (kind = "disk" => left'["disk"] < left["disk"])
BY DEF Spend, TypeOK, BudgetKinds

LEMMA DiskFalls ==
  ASSUME TypeOK, [Next]_vars
  PROVE  left'["disk"] <= left["disk"]
<1>1. ASSUME left' = left PROVE left'["disk"] <= left["disk"]
  BY <1>1 DEF TypeOK, BudgetKinds
<1>2. ASSUME NEW kind \in BudgetKinds, Spend(kind) PROVE left'["disk"] <= left["disk"]
  BY <1>2, SpendFalls
<1>3. CASE World
  BY <1>1, <1>2, <1>3
  DEF World, Plug, Unplug, Deliver, LayerChange, KeyPress, Publish, BudgetKinds
<1>4. CASE Start \/ Stop \/ Crash \/ UNCHANGED vars \/ \E m \in Methods : Call(m)
  BY <1>1, <1>2, <1>4 DEF Start, Stop, Crash, Call, vars, BudgetKinds
<1>5. CASE Handshake \/ UdevEvent
  BY <1>1, <1>5
  DEF Handshake, Scan, ReadVersion, ReadPairing, ReadFirmware, Connect, UdevEvent, AddEvent,
      RemoveEvent
<1>6. CASE Fetch
  BY <1>1, <1>2, <1>6 DEF Fetch, FetchSucceeds, Saved, FetchFails, BudgetKinds
<1>7. CASE Poll \/ Serve
  BY <1>1, <1>7
  DEF Poll, LayerReport, OtherReport, HangUp, Serve, AnswerError, GetStatus, GetKeymap,
      RefreshKeymap, SetLayer, SetLight, ClearCache
<1>8. QED
  BY <1>3, <1>4, <1>5, <1>6, <1>7 DEF Next

\* A step that neither shows nor stores anything keeps the invariant.
LEMMA KeymapFrame ==
  ASSUME TypeOK, KeymapInv, [Next]_vars
  PROVE  /\ left'["disk"] <= Budget["disk"]
         /\ left'["disk"] = Budget["disk"] => left["disk"] = Budget["disk"]
<1>1. left["disk"] \in Nat /\ Budget["disk"] \in Nat /\ left["disk"] <= Budget["disk"]
  BY BoundsAssumption DEF TypeOK, BudgetKinds, KeymapInv
<1>2. left'["disk"] <= left["disk"] /\ left'["disk"] \in Int
  <2>1. left' \in [BudgetKinds -> Nat]
    BY TypeStep DEF TypeOK
  <2>2. QED
    BY <2>1, DiskFalls DEF BudgetKinds
<1>3. QED
  BY <1>1, <1>2

\* A lookup shows what the file has, or nothing new.
LEMMA LookupShows ==
  ASSUME KeymapInv, NEW st, Lookup(st), file' = file, left' = left
  PROVE  KeymapInv' /\ (km # NoLayout => km' = km)
BY DEF Lookup, Shown, KeymapInv, AnnouncedIsShown, ShownIsStored

LEMMA KeymapStep ==
  ASSUME TypeOK, KeymapInv, [Next]_vars
  PROVE  KeymapInv'
<1>0. left'["disk"] <= Budget["disk"]
      /\ (left'["disk"] = Budget["disk"] => left["disk"] = Budget["disk"])
  BY KeymapFrame
<1>1. ASSUME UNCHANGED <<km, announced, file>> PROVE KeymapInv'
  BY <1>0, <1>1 DEF KeymapInv, AnnouncedIsShown, ShownIsStored
<1>2. ASSUME Forgotten PROVE KeymapInv'
  BY <1>0, <1>2 DEF Forgotten, KeymapInv, AnnouncedIsShown, ShownIsStored
<1>3. CASE UNCHANGED vars
  BY <1>1, <1>3 DEF vars, maps
<1>4. CASE World
  BY <1>1, <1>4 DEF World, Plug, Unplug, Deliver, LayerChange, KeyPress, Publish, maps
<1>5. CASE Start \/ Stop \/ Crash
  BY <1>1, <1>2, <1>5 DEF Start, Stop, Crash, maps
<1>6. CASE Handshake
  <2>1. CASE Connect
    BY <1>0, <2>1 DEF Connect, Shown, KeymapInv, AnnouncedIsShown, ShownIsStored
  <2>2. QED
    BY <1>1, <1>6, <2>1 DEF Handshake, Scan, ReadVersion, ReadPairing, ReadFirmware, maps
<1>7. CASE Fetch
  <2>1. CASE FetchSucceeds
    <3>1. km' = announced' /\ (file' = km' \/ Spend("disk"))
      BY <2>1 DEF FetchSucceeds, Shown, Saved
    <3>2. Spend("disk") => left'["disk"] # Budget["disk"]
      <4>1. ASSUME Spend("disk") PROVE left'["disk"] # Budget["disk"]
        <5>1. left'["disk"] < left["disk"] /\ left' \in [BudgetKinds -> Nat]
          BY <4>1, SpendFalls, SpendTypes DEF BudgetKinds, TypeOK
        <5>2. left["disk"] \in Nat /\ Budget["disk"] \in Nat /\ left'["disk"] \in Nat
          BY <5>1, BoundsAssumption DEF TypeOK, BudgetKinds
        <5>3. left["disk"] <= Budget["disk"]
          BY DEF KeymapInv
        <5>4. QED
          BY <5>1, <5>2, <5>3
      <4>2. QED
        BY <4>1
    <3>3. QED
      BY <1>0, <3>1, <3>2 DEF KeymapInv, AnnouncedIsShown, ShownIsStored
  <2>2. QED
    BY <1>1, <1>7, <2>1 DEF Fetch, FetchFails, maps
<1>8. CASE UdevEvent
  BY <1>1, <1>2, <1>8 DEF UdevEvent, AddEvent, RemoveEvent, maps
<1>9. CASE Poll
  BY <1>1, <1>2, <1>9, LookupShows DEF Poll, LayerReport, OtherReport, HangUp, maps
<1>10. CASE Serve
  <2>1. CASE ClearCache
    BY <1>0, <2>1 DEF ClearCache, maps, KeymapInv, AnnouncedIsShown, ShownIsStored
  <2>2. CASE GetKeymap
    BY <2>2, LookupShows DEF GetKeymap
  <2>3. QED
    BY <1>1, <1>10, <2>1, <2>2
    DEF Serve, AnswerError, GetStatus, RefreshKeymap, SetLayer, SetLight, maps
<1>11. CASE \E m \in Methods : Call(m)
  BY <1>1, <1>11 DEF Call, maps
<1>12. QED
  BY <1>3, <1>4, <1>5, <1>6, <1>7, <1>8, <1>9, <1>10, <1>11 DEF Next

LEMMA KeymapAlways == Spec => []KeymapInv
<1>1. Init => KeymapInv
  BY BoundsAssumption DEF Init, KeymapInv, AnnouncedIsShown, ShownIsStored, BudgetKinds
<1>2. TypeOK /\ KeymapInv /\ [Next]_vars => KeymapInv'
  BY KeymapStep
<1>3. QED
  BY TypeCorrect, <1>1, <1>2, PTL DEF Spec

\* The layout of the last KeymapLoaded signal is the one the daemon shows, through
\* restarts, refreshes, cleared caches and layouts published meanwhile.
THEOREM AnnouncedAlways == Spec => []AnnouncedIsShown
<1>1. KeymapInv => AnnouncedIsShown
  BY DEF KeymapInv
<1>2. QED
  BY KeymapAlways, <1>1, PTL

\* While there is a file and no save has failed, it holds the layout that is shown.
THEOREM StoredAlways == Spec => []ShownIsStored
<1>1. KeymapInv => ShownIsStored
  BY DEF KeymapInv
<1>2. QED
  BY KeymapAlways, <1>1, PTL

-----------------------------------------------------------------------------
(* A served keyboard keeps its keymap *)

KeepsKeymap == status.served /\ status'.served /\ km # NoLayout => km' # NoLayout

LEMMA KeepStep ==
  ASSUME TypeOK, KeymapInv, [Next]_vars
  PROVE  KeepsKeymap
<1>1. CASE km' = km
  BY <1>1 DEF KeepsKeymap
<1>2. CASE Forgotten
  BY <1>2 DEF Forgotten, NoStatus, NewStatus, KeepsKeymap
<1>3. CASE Connect
  BY <1>3 DEF Connect, Shown, KeepsKeymap
<1>4. CASE FetchSucceeds
  <2>1. km' # NoLayout
    BY <1>4, LayoutsAssumption DEF FetchSucceeds, Shown, TypeOK
  <2>2. QED
    BY <2>1 DEF KeepsKeymap
<1>5. CASE LayerReport
  BY <1>5, LookupShows DEF LayerReport, KeepsKeymap
<1>6. CASE GetKeymap
  BY <1>6, LookupShows DEF GetKeymap, KeepsKeymap
<1>7. CASE World
  BY <1>1, <1>7 DEF World, Plug, Unplug, Deliver, LayerChange, KeyPress, Publish, maps
<1>8. CASE Start \/ Stop \/ Crash \/ UdevEvent \/ UNCHANGED vars
  BY <1>1, <1>2, <1>8 DEF Start, Stop, Crash, UdevEvent, AddEvent, RemoveEvent, vars, maps
<1>9. CASE Handshake \/ Fetch \/ Poll
  BY <1>1, <1>2, <1>3, <1>4, <1>5, <1>9
  DEF Handshake, Scan, ReadVersion, ReadPairing, ReadFirmware, Fetch, FetchFails, Poll,
      OtherReport, HangUp, maps
<1>10. CASE Serve \/ \E m \in Methods : Call(m)
  BY <1>1, <1>6, <1>10
  DEF Serve, AnswerError, GetStatus, RefreshKeymap, SetLayer, SetLight, ClearCache, Call, maps
<1>11. QED
  BY <1>7, <1>8, <1>9, <1>10 DEF Next

\* A refresh that fails, a device replaced under its id and a cleared cache leave the
\* keymap in memory.
THEOREM KeymapKeptAlways == Spec => KeymapKept
<1>1. TypeOK /\ KeymapInv /\ [Next]_vars => [KeepsKeymap]_vars
  BY KeepStep
<1>2. QED
  BY TypeCorrect, KeymapAlways, <1>1, PTL DEF Spec, KeymapKept, KeepsKeymap

-----------------------------------------------------------------------------
(* A daemon that stops leaves no keyboard paired *)

Opening == {"version", "pairing", "firmware", "connect"}

\* An open file is one of a keyboard that is there; a paired keyboard is held by an
\* open file, or by a daemon that crashed and has not scanned again; and only a
\* handshake has a candidate.
PairedInv ==
  /\ kbd.paired => kbd.plugged
  /\ cand.fd = "open" \/ dev.fd = "open" => kbd.plugged
  /\ kbd.paired => step \in {"crashed", "enabled"} \/ cand.fd = "open" \/ dev.fd = "open"
  /\ step \notin Opening => cand.fd = "closed"
  /\ step = "down" => dev.fd = "closed"

\* A command to an open file may pair the keyboard; no other can.
LEMMA WritePairs ==
  ASSUME TypeOK, NEW h, NEW c \in Command, Write(h, c)
  PROVE  /\ kbd'.plugged = kbd.plugged
         /\ kbd'.paired => kbd.paired \/ (c.cmd = "Pair" /\ h.fd = "open")
<1>1. CASE h.fd = "open"
  BY <1>1 DEF Write, Told, TypeOK, Command
<1>2. CASE h.fd # "open"
  BY <1>2 DEF Write
<1>3. QED
  BY <1>1, <1>2

\* Closing an open file releases the keyboard.
LEMMA CloseReleases ==
  ASSUME TypeOK, NEW h, Close(h)
  PROVE  /\ kbd'.plugged = kbd.plugged
         /\ kbd'.paired => kbd.paired /\ h.fd # "open"
<1>1. CASE h.fd = "open"
  BY <1>1 DEF Close, Told, Cmd, TypeOK
<1>2. CASE h.fd # "open"
  BY <1>2 DEF Close
<1>3. QED
  BY <1>1, <1>2

\* What arrives changes no file's state.
LEMMA SameFd ==
  /\ \A h \in Handle, frame \in Frame : Enqueued(h, frame).fd = h.fd
  /\ cand \in Handle => Rest.fd = cand.fd /\ \A b \in {"", "fw"} : [Rest EXCEPT !.buildId = b].fd = cand.fd
  /\ \A h \in Handle : Hung(h).fd # "open" /\ (h.fd = "closed" => Hung(h).fd = "closed")
  /\ NoHandle.fd = "closed"
BY DEF Handle, Enqueued, Rest, Hung, NoHandle

LEMMA WorldReleases ==
  ASSUME TypeOK, PairedInv, World
  PROVE  PairedInv'
<1>1. CASE Plug
  BY <1>1 DEF Plug, PairedInv, handles
<1>2. CASE Unplug
  BY <1>2, SameFd DEF Unplug, PairedInv, TypeOK
<1>3. CASE Deliver
  <2>1. Head(pipe) \in Frame
    BY <1>3 DEF Deliver, TypeOK
  <2>2. cand'.fd = cand.fd /\ dev'.fd = dev.fd
    BY <1>3, <2>1, SameFd DEF Deliver, TypeOK
  <2>3. QED
    BY <1>3, <2>2 DEF Deliver, PairedInv
<1>4. CASE LayerChange
  <2>1. kbd'.paired = kbd.paired /\ kbd'.plugged = kbd.plugged
    BY <1>4 DEF LayerChange, TypeOK
  <2>2. QED
    BY <1>4, <2>1 DEF LayerChange, PairedInv, handles
<1>5. CASE KeyPress \/ Publish
  BY <1>5 DEF KeyPress, Publish, PairedInv, handles
<1>6. QED
  BY <1>1, <1>2, <1>3, <1>4, <1>5 DEF World

LEMMA HandshakeReleases ==
  ASSUME TypeOK, PairedInv, Handshake \/ AddEvent
  PROVE  PairedInv'
<1>1. cand \in Handle /\ Cmd("Pair") \in Command /\ Cmd("Firmware") \in Command
  BY CommandTypes DEF TypeOK
<1>2. ASSUME Open PROVE cand'.fd = "open" /\ step' = "version"
  BY <1>2 DEF Open, NoHandle
<1>3. CASE Scan
  BY <1>2, <1>3 DEF Scan, PairedInv, Opening
<1>4. CASE AddEvent
  BY <1>2, <1>4 DEF AddEvent, PairedInv, Opening
<1>5. CASE ReadVersion
  <2>1. cand'.fd = cand.fd /\ dev' = dev /\ step = "version" /\ step' = "pairing"
    BY <1>1, <1>5, SameFd DEF ReadVersion
  <2>2. kbd'.plugged = kbd.plugged /\ (kbd'.paired => kbd.paired \/ cand.fd = "open")
    BY <1>1, <1>5, WritePairs DEF ReadVersion
  <2>3. QED
    BY <2>1, <2>2 DEF PairedInv, Opening
<1>6. CASE ReadPairing
  <2>1. cand'.fd = cand.fd /\ dev' = dev /\ step = "pairing" /\ step' \in {"pairing", "firmware"}
    BY <1>1, <1>6, SameFd DEF ReadPairing
  <2>2. kbd'.plugged = kbd.plugged /\ (kbd'.paired => kbd.paired \/ cand.fd = "open")
    BY <1>1, <1>6, WritePairs DEF ReadPairing
  <2>3. QED
    BY <2>1, <2>2 DEF PairedInv, Opening
<1>7. CASE ReadFirmware
  <2>1. cand'.fd = cand.fd
    BY <1>1, <1>7, SameFd DEF ReadFirmware
  <2>2. QED
    BY <1>7, <2>1 DEF ReadFirmware, PairedInv, Opening
<1>8. CASE Connect
  <2>1. cand'.fd = "closed" /\ dev' = cand /\ step' \in {"idle", "connectFetch"} /\ step = "connect"
    BY <1>8, SameFd DEF Connect
  <2>2. kbd'.plugged = kbd.plugged /\ (kbd'.paired => kbd.paired /\ dev.fd # "open")
    BY <1>8, CloseReleases DEF Connect
  <2>3. QED
    BY <2>1, <2>2 DEF PairedInv, Opening
<1>9. QED
  BY <1>3, <1>4, <1>5, <1>6, <1>7, <1>8 DEF Handshake

LEMMA ReleaseStep ==
  ASSUME TypeOK, PairedInv, [Next]_vars
  PROVE  PairedInv'
<1>1. CASE UNCHANGED vars
  BY <1>1 DEF vars, handles, PairedInv
<1>2. CASE World
  BY <1>2, WorldReleases
<1>3. CASE Start
  BY <1>3 DEF Start, Running, PairedInv, Opening, handles
<1>4. CASE Stop \/ RemoveEvent
  <2>1. kbd'.plugged = kbd.plugged /\ (kbd'.paired => kbd.paired /\ dev.fd # "open")
    BY <1>4, CloseReleases DEF Stop, RemoveEvent
  <2>2. dev'.fd = "closed" /\ cand' = cand /\ step = "idle" /\ step' \in {"idle", "down"}
    BY <1>4, SameFd DEF Stop, RemoveEvent
  <2>3. QED
    BY <2>1, <2>2 DEF PairedInv, Opening
<1>5. CASE Crash
  <2>1. cand'.fd = "closed" /\ dev'.fd = "closed"
    BY <1>5, SameFd DEF Crash
  <2>2. QED
    BY <1>5, <2>1 DEF Crash, PairedInv
<1>6. CASE Handshake \/ AddEvent
  BY <1>6, HandshakeReleases
<1>7. CASE Fetch
  BY <1>7 DEF Fetch, FetchSucceeds, FetchFails, Fetching, handles, PairedInv, Opening
<1>8. CASE HangUp
  BY <1>8, SameFd DEF HangUp, PairedInv
<1>9. CASE LayerReport \/ OtherReport
  <2>1. dev'.fd = dev.fd
    BY <1>9 DEF LayerReport, OtherReport, Polled, TypeOK, Handle
  <2>2. QED
    BY <1>9, <2>1 DEF LayerReport, OtherReport, PairedInv
<1>10. CASE SetLayer \/ SetLight
  <2>1. kbd'.plugged = kbd.plugged /\ (kbd'.paired => kbd.paired)
    <3>1. PICK c \in Command : c.cmd \in {"SetLayer", "Light"} /\ Write(dev, c)
      BY <1>10, CommandTypes DEF SetLayer, SetLight, Cmd
    <3>2. QED
      BY <3>1, WritePairs
  <2>2. QED
    BY <1>10, <2>1 DEF SetLayer, SetLight, handles, PairedInv
<1>11. CASE Serve
  BY <1>10, <1>11
  DEF Serve, AnswerError, GetStatus, GetKeymap, RefreshKeymap, ClearCache, Serving, handles,
      PairedInv, Opening
<1>12. CASE \E m \in Methods : Call(m)
  BY <1>12 DEF Call, handles, PairedInv
<1>13. QED
  BY <1>1, <1>2, <1>3, <1>4, <1>5, <1>6, <1>7, <1>8, <1>9, <1>11, <1>12
  DEF Next, UdevEvent, Poll

\* However the daemon was started, crashed and plugged around, once it has stopped
\* the keyboard is not paired: the destructor's close reached every device it held.
THEOREM ReleasedAlways == Spec => []StoppedIsReleased
<1>1. Init => PairedInv
  <2>1. Init => kbd.paired = FALSE /\ step = "down" /\ cand.fd = "closed" /\ dev.fd = "closed"
    BY SameFd DEF Init
  <2>2. QED
    BY <2>1 DEF PairedInv
<1>2. TypeOK /\ PairedInv /\ [Next]_vars => PairedInv'
  BY ReleaseStep
<1>3. PairedInv => StoppedIsReleased
  BY DEF PairedInv, StoppedIsReleased, Opening
<1>4. QED
  BY TypeCorrect, <1>1, <1>2, <1>3, PTL DEF Spec
-----------------------------------------------------------------------------
(* The status follows the keyboard's layer *)

\* The last layer report of a queue, if there is one, says l.
LastIs(s, l) ==
  \A i \in DOMAIN s :
    s[i].evt = "Layer" /\ (\A j \in DOMAIN s : j > i => s[j].evt # "Layer") => s[i].layer = l

\* On the way to an open file, the last layer report says the keyboard's layer.
Traced(h) == LastIs(pipe, kbd.layer) /\ (NoLayerIn(pipe) => LastIs(h.inbox, kbd.layer))

Alternates(s) == \A i \in 1..(Len(s) - 1) : s[i] # s[i + 1]

LastEvent == IF kbd.plugged THEN "add" ELSE "remove"

RemovedNext(s) == s = <<>> \/ Head(s) = "remove"

\* The files: only a handshake has a candidate, an unplugged keyboard hangs up both
\* files, and without an open one nothing is on its way.
FilesInv ==
  /\ step \in Opening <=> cand.fd # "closed"
  /\ cand.fd = "hung" => dev.fd # "open"
  /\ cand.fd # "open" /\ dev.fd # "open" => pipe = <<>>
  /\ cand.fd = "open" \/ dev.fd = "open" => kbd.plugged
  /\ ~Running \/ step = "enabled" => dev.fd = "closed"

\* The events: they tell of plugging and unplugging by turns, up to now.
EventsInv ==
  /\ ~Running => events = <<>>
  /\ Alternates(events)
  /\ events # <<>> => events[Len(events)] = LastEvent

\* What the open files have heard. An unpaired keyboard with an open file has not been
\* asked to pair yet, or it was opened twice and released by the first file, whose
\* remove is the next event.
HeardInv ==
  /\ kbd.paired /\ cand.fd = "open" => Traced(cand)
  /\ kbd.paired /\ dev.fd = "open" =>
       /\ Traced(dev)
       /\ heard /\ NoLayerIn(pipe) /\ NoLayerIn(dev.inbox) => status.layer = kbd.layer
  /\ ~kbd.paired /\ cand.fd = "open" =>
       step = "version" /\ dev.fd # "open" /\ NoLayerIn(pipe) /\ NoLayerIn(cand.inbox)
  /\ ~kbd.paired /\ dev.fd = "open" => step \notin Opening /\ RemovedNext(events)
  /\ step \in Opening /\ dev.fd = "open" /\ cand.fd = "open" => RemovedNext(events)

LayerInv == FilesInv /\ EventsInv /\ HeardInv

\* No report meets a full queue.
NothingMissed ==
  pipe # <<>> => \A h \in {cand, dev} : h.fd = "open" => Len(h.inbox) < QueueSize

-----------------------------------------------------------------------------
(* Layer reports in a queue *)

LEMMA LayerAppended ==
  ASSUME NEW s \in Seq(Frame), NEW f \in Frame, NEW l
  PROVE  /\ f.evt # "Layer" /\ LastIs(s, l) => LastIs(Append(s, f), l)
         /\ f.evt = "Layer" /\ f.layer = l => LastIs(Append(s, f), l)
         /\ NoLayerIn(Append(s, f)) <=> NoLayerIn(s) /\ f.evt # "Layer"
<1> DEFINE t == Append(s, f)
<1>1. /\ DOMAIN s = 1..Len(s) /\ DOMAIN t = 1..(Len(s) + 1) /\ Len(s) \in Nat
      /\ \A i \in 1..Len(s) : t[i] = s[i]
      /\ t[Len(s) + 1] = f
  OBVIOUS
<1> HIDE DEF t
<1>2. NoLayerIn(t) <=> NoLayerIn(s) /\ f.evt # "Layer"
  BY <1>1 DEF NoLayerIn
<1>3. ASSUME f.evt = "Layer", f.layer = l PROVE LastIs(t, l)
  <2>1. SUFFICES ASSUME NEW i \in DOMAIN t, \A j \in DOMAIN t : j > i => t[j].evt # "Layer"
                 PROVE  t[i].layer = l
    BY DEF LastIs
  <2>2. i = Len(s) + 1
    BY <1>1, <1>3, <2>1
  <2>3. QED
    BY <1>1, <1>3, <2>2
<1>4. ASSUME f.evt # "Layer", LastIs(s, l) PROVE LastIs(t, l)
  <2>1. SUFFICES ASSUME NEW i \in DOMAIN t, t[i].evt = "Layer",
                        \A j \in DOMAIN t : j > i => t[j].evt # "Layer"
                 PROVE  t[i].layer = l
    BY DEF LastIs
  <2>2. i \in DOMAIN s
    BY <1>1, <1>4, <2>1
  <2>3. \A j \in DOMAIN s : j > i => s[j].evt # "Layer"
    BY <1>1, <2>1
  <2>4. QED
    BY <1>1, <1>4, <2>1, <2>2, <2>3 DEF LastIs
<1>5. QED
  BY <1>2, <1>3, <1>4 DEF t

LEMMA LayerTaken ==
  ASSUME NEW s \in Seq(Frame), s # <<>>, NEW l
  PROVE  /\ LastIs(s, l) => LastIs(Tail(s), l)
         /\ LastIs(s, l) /\ NoLayerIn(Tail(s)) /\ Head(s).evt = "Layer" => Head(s).layer = l
         /\ NoLayerIn(s) <=> NoLayerIn(Tail(s)) /\ Head(s).evt # "Layer"
<1> DEFINE t == Tail(s)
<1>1. /\ DOMAIN s = 1..Len(s) /\ DOMAIN t = 1..(Len(s) - 1) /\ Len(s) \in Nat /\ Len(s) > 0
      /\ \A i \in 1..(Len(s) - 1) : t[i] = s[i + 1]
      /\ Head(s) = s[1]
  OBVIOUS
<1> HIDE DEF t
<1>2. \A i \in DOMAIN s : i = 1 \/ (i - 1 \in DOMAIN t /\ t[i - 1] = s[i])
  BY <1>1
<1>3. \A i \in DOMAIN t : i + 1 \in DOMAIN s /\ t[i] = s[i + 1]
  BY <1>1
<1>4. 1 \in DOMAIN s
  BY <1>1
<1>5. NoLayerIn(s) <=> NoLayerIn(t) /\ Head(s).evt # "Layer"
  BY <1>1, <1>2, <1>3, <1>4 DEF NoLayerIn
<1>6. ASSUME LastIs(s, l), NoLayerIn(t), Head(s).evt = "Layer" PROVE Head(s).layer = l
  <2>1. \A j \in DOMAIN s : j > 1 => s[j].evt # "Layer"
    BY <1>2, <1>6 DEF NoLayerIn
  <2>2. QED
    BY <1>1, <1>4, <1>6, <2>1 DEF LastIs
<1>7. ASSUME LastIs(s, l) PROVE LastIs(t, l)
  <2>1. SUFFICES ASSUME NEW i \in DOMAIN t, t[i].evt = "Layer",
                        \A j \in DOMAIN t : j > i => t[j].evt # "Layer"
                 PROVE  t[i].layer = l
    BY DEF LastIs
  <2>2. i + 1 \in DOMAIN s /\ s[i + 1] = t[i]
    BY <1>3
  <2>3. ASSUME NEW j \in DOMAIN s, j > i + 1 PROVE s[j].evt # "Layer"
    <3>1. j - 1 \in DOMAIN t /\ t[j - 1] = s[j] /\ j - 1 > i
      BY <1>1, <1>2, <2>1, <2>3
    <3>2. QED
      BY <2>1, <3>1
  <2>4. QED
    BY <1>7, <2>1, <2>2, <2>3 DEF LastIs
<1>8. QED
  BY <1>5, <1>6, <1>7 DEF t

LEMMA NoneIsLast ==
  ASSUME NEW l
  PROVE  /\ NoLayerIn(<<>>) /\ LastIs(<<>>, l)
         /\ \A s : NoLayerIn(s) => LastIs(s, l)
BY DEF NoLayerIn, LastIs

LEMMA EventAppended ==
  ASSUME NEW s \in Seq(Event), NEW e \in Event, Alternates(s),
         s # <<>> => s[Len(s)] # e
  PROVE  /\ Alternates(Append(s, e)) /\ Append(s, e) # <<>>
         /\ Append(s, e)[Len(Append(s, e))] = e
         /\ s # <<>> => (RemovedNext(s) <=> RemovedNext(Append(s, e)))
<1>1. /\ Len(s) \in Nat /\ Len(Append(s, e)) = Len(s) + 1
      /\ \A i \in 1..Len(s) : Append(s, e)[i] = s[i]
      /\ Append(s, e)[Len(s) + 1] = e
  OBVIOUS
<1>2. Alternates(Append(s, e))
  <2>1. SUFFICES ASSUME NEW i \in 1..Len(s) PROVE Append(s, e)[i] # Append(s, e)[i + 1]
    BY <1>1 DEF Alternates
  <2>2. CASE i < Len(s)
    <3>1. i \in 1..(Len(s) - 1) /\ i + 1 \in 1..Len(s)
      BY <1>1, <2>2
    <3>2. QED
      BY <1>1, <3>1 DEF Alternates
  <2>3. CASE i = Len(s)
    BY <1>1, <2>3
  <2>4. QED
    BY <1>1, <2>2, <2>3
<1>3. Append(s, e) # <<>> /\ (s # <<>> => Head(Append(s, e)) = Head(s))
  OBVIOUS
<1>4. s # <<>> => (RemovedNext(s) <=> RemovedNext(Append(s, e)))
  BY <1>3 DEF RemovedNext
<1>5. QED
  BY <1>1, <1>2, <1>3, <1>4

LEMMA EventTaken ==
  ASSUME NEW s \in Seq(Event), s # <<>>, Alternates(s)
  PROVE  /\ Alternates(Tail(s))
         /\ Tail(s) # <<>> => /\ Tail(s)[Len(Tail(s))] = s[Len(s)]
                              /\ Head(Tail(s)) # Head(s)
<1>1. /\ Len(s) \in Nat /\ Len(s) > 0 /\ Len(Tail(s)) = Len(s) - 1
      /\ \A i \in 1..(Len(s) - 1) : Tail(s)[i] = s[i + 1]
      /\ Head(s) = s[1] /\ Tail(s) \in Seq(Event)
  OBVIOUS
<1>2. Tail(s) # <<>> => Len(s) > 1 /\ Head(Tail(s)) = Tail(s)[1]
  <2>1. Tail(s) # <<>> => Len(Tail(s)) > 0 /\ Head(Tail(s)) = Tail(s)[1]
    BY <1>1
  <2>2. QED
    BY <1>1, <2>1
<1>3. Alternates(Tail(s))
  <2>1. SUFFICES ASSUME NEW i \in 1..(Len(s) - 2) PROVE Tail(s)[i] # Tail(s)[i + 1]
    BY <1>1 DEF Alternates
  <2>2. i \in 1..(Len(s) - 1) /\ i + 1 \in 1..(Len(s) - 1)
    BY <1>1
  <2>3. QED
    BY <1>1, <2>2 DEF Alternates
<1>4. ASSUME Tail(s) # <<>>
      PROVE  Tail(s)[Len(Tail(s))] = s[Len(s)] /\ Head(Tail(s)) # Head(s)
  <2>1. 1 \in 1..(Len(s) - 1) /\ Len(s) - 1 \in 1..(Len(s) - 1)
    BY <1>1, <1>2, <1>4
  <2>2. QED
    BY <1>1, <1>2, <1>4, <2>1 DEF Alternates
<1>5. QED
  BY <1>3, <1>4
-----------------------------------------------------------------------------
(* LayerInv is inductive as long as no report meets a full queue *)

\* Steps that touch neither the keyboard, the files nor the queues.
LEMMA LayerFrame ==
  ASSUME LayerInv, UNCHANGED <<kbd, pipe, cand, dev, events>>,
         step' = step \/ (step \notin Opening /\ step' \in {"idle", "refreshFetch"} /\ Running),
         heard' = heard, status'.layer = status.layer
  PROVE  LayerInv'
<1>1. /\ step' \in Opening <=> step \in Opening
      /\ step' = "version" <=> step = "version"
      /\ step' = "enabled" => step = "enabled"
      /\ Running' <=> Running
  BY DEF Opening, Running
<1>2. FilesInv'
  BY <1>1 DEF LayerInv, FilesInv
<1>3. EventsInv'
  BY <1>1 DEF LayerInv, EventsInv, Alternates, LastEvent
<1>4. HeardInv'
  BY <1>1 DEF LayerInv, HeardInv, Traced, RemovedNext, NoLayerIn, LastIs
<1>5. QED
  BY <1>2, <1>3, <1>4 DEF LayerInv

\* Steps of the keyboard or the daemon that put no layer report on the way.
LEMMA QuietTraced ==
  ASSUME NEW s \in Seq(Frame), NEW s2 \in Seq(Frame), NEW l,
         s2 = s \/ \E f \in Frame : f.evt # "Layer" /\ s2 = Append(s, f)
  PROVE  /\ LastIs(s, l) => LastIs(s2, l)
         /\ NoLayerIn(s2) <=> NoLayerIn(s)
BY LayerAppended

\* What a write to an open file puts on the way.
LEMMA WriteAnswers ==
  ASSUME TypeOK, NEW h, NEW c \in Command, Write(h, c)
  PROVE  /\ h.fd # "open" => kbd' = kbd /\ pipe' = pipe
         /\ h.fd = "open" => kbd' = Told(kbd, c)
         /\ \/ pipe' = pipe
            \/ \E f \in Frame : f.evt # "Layer" /\ pipe' = Append(pipe, f)
            \/ c.cmd = "SetLayer" /\ kbd.paired /\ pipe' = Append(pipe, LayerEvt(c.layer))
<1>1. CASE h.fd # "open"
  BY <1>1 DEF Write
<1>2. CASE h.fd = "open"
  <2>1. PICK a \in Answers(kbd, c) : kbd' = Told(kbd, c) /\ pipe' = pipe \o a
    BY <1>2 DEF Write
  <2>2. \/ a = <<>>
        \/ \E e \in {"Version", "Firmware", "Paired"} : a = <<Evt(e)>>
        \/ c.cmd = "SetLayer" /\ kbd.paired /\ a = <<LayerEvt(c.layer)>>
    BY <2>1 DEF Answers, Command
  <2>3. pipe \in Seq(Frame) /\ \A e \in {"Version", "Firmware", "Paired"} : Evt(e) \in Frame
        /\ Evt(e).evt # "Layer"
    BY FrameTypes DEF TypeOK, Evt
  <2>4. pipe \o <<>> = pipe /\ \A f : pipe \o <<f>> = Append(pipe, f)
    BY <2>3
  <2>5. QED
    BY <1>2, <2>1, <2>2, <2>3, <2>4
<1>3. QED
  BY <1>1, <1>2

LEMMA EventStep ==
  ASSUME TypeOK, EventsInv,
         \/ events' = events /\ kbd'.plugged = kbd.plugged
         \/ events' = <<>>
         \/ events # <<>> /\ events' = Tail(events) /\ kbd'.plugged = kbd.plugged
         \/ /\ kbd'.plugged = ~kbd.plugged
            /\ events' = IF Running THEN Append(events, IF kbd'.plugged THEN "add" ELSE "remove")
                         ELSE events,
         ~Running' => ~Running \/ events' = <<>>
  PROVE  EventsInv'
<1>1. events \in Seq(Event) /\ Alternates(events) /\ kbd.plugged \in BOOLEAN
      /\ (events # <<>> => events[Len(events)] = LastEvent)
  BY DEF TypeOK, Event, EventsInv
<1>2. CASE events' = events /\ kbd'.plugged = kbd.plugged
  BY <1>2 DEF EventsInv, LastEvent, Alternates
<1>3. CASE events' = <<>>
  BY <1>3 DEF EventsInv, Alternates
<1>4. CASE events # <<>> /\ events' = Tail(events) /\ kbd'.plugged = kbd.plugged
  <2>1. events' # <<>> => Running'
    BY <1>4 DEF EventsInv
  <2>2. Alternates(events') /\ (events' # <<>> => events'[Len(events')] = LastEvent)
    BY <1>1, <1>4, EventTaken
  <2>3. QED
    BY <1>3, <1>4, <2>1, <2>2 DEF EventsInv, LastEvent, Alternates
<1>5. CASE /\ kbd'.plugged = ~kbd.plugged
           /\ events' = IF Running THEN Append(events, IF kbd'.plugged THEN "add" ELSE "remove")
                        ELSE events
  <2>1. CASE ~Running
    BY <1>3, <1>5, <2>1 DEF EventsInv
  <2>2. CASE Running
    <3> DEFINE e == IF kbd'.plugged THEN "add" ELSE "remove"
    <3>1. e \in Event /\ (events # <<>> => events[Len(events)] # e)
      BY <1>1, <1>5 DEF Event, LastEvent
    <3>2. events' = Append(events, e)
      BY <1>5, <2>2
    <3>3. e = LastEvent'
      BY DEF LastEvent
    <3> HIDE DEF e
    <3>4. Alternates(events') /\ events'[Len(events')] = LastEvent' /\ events' # <<>>
      BY <1>1, <3>1, <3>2, <3>3, EventAppended
    <3>5. Running'
      BY <2>2, <3>4
    <3>6. QED
      BY <3>4, <3>5 DEF EventsInv, Alternates
  <2>3. QED
    BY <2>1, <2>2
<1>6. QED
  BY <1>2, <1>3, <1>4, <1>5

LEMMA WorldFollows ==
  ASSUME TypeOK, LayerInv, NothingMissed, World
  PROVE  LayerInv'
<1>0. /\ cand \in Handle /\ dev \in Handle /\ pipe \in Seq(Frame)
      /\ cand.inbox \in Seq(Frame) /\ dev.inbox \in Seq(Frame)
      /\ FilesInv /\ EventsInv /\ HeardInv
  BY InboxOf DEF TypeOK, LayerInv
<1>1. CASE Plug
  <2>1. cand.fd # "open" /\ dev.fd # "open" /\ kbd'.plugged = ~kbd.plugged
    <3>1. ~kbd.plugged /\ kbd.plugged \in BOOLEAN
      BY <1>1 DEF Plug, TypeOK
    <3>2. kbd'.plugged = TRUE
      BY <1>1 DEF Plug
    <3>3. kbd'.plugged = ~kbd.plugged
      BY <3>1, <3>2
    <3>4. QED
      BY <1>0, <3>1, <3>3 DEF FilesInv
  <2>2. EventsInv'
    <3>1. kbd'.plugged = TRUE /\ step' = step
          /\ events' = IF Running THEN Append(events, "add") ELSE events
      BY <1>1 DEF Plug
    <3>2. events' = IF Running THEN Append(events, IF kbd'.plugged THEN "add" ELSE "remove")
                    ELSE events
      BY <3>1
    <3>3. Running' <=> Running
      BY <3>1 DEF Running
    <3>4. ~Running' => ~Running \/ events' = <<>>
      BY <3>3
    <3> HIDE DEF Running
    <3>5. QED
      BY <1>0, <2>1, <3>2, <3>4, EventStep
  <2>3. FilesInv' /\ HeardInv'
    BY <1>0, <1>1, <2>1 DEF Plug, FilesInv, HeardInv, Running, handles
  <2>4. QED
    BY <2>2, <2>3 DEF LayerInv
<1>2. CASE Unplug
  <2>1. /\ cand'.fd # "open" /\ dev'.fd # "open" /\ kbd'.plugged = ~kbd.plugged
        /\ cand'.fd # "closed" <=> cand.fd # "closed"
        /\ dev'.fd # "closed" <=> dev.fd # "closed"
        /\ step' = step /\ pipe' = <<>>
    BY <1>0, <1>2 DEF Unplug, Hung, Handle, TypeOK
  <2>2. EventsInv'
    BY <1>0, <1>2, <2>1, EventStep DEF Unplug, Running
  <2>3. FilesInv' /\ HeardInv'
    BY <1>0, <2>1 DEF FilesInv, HeardInv, Running
  <2>4. QED
    BY <2>2, <2>3 DEF LayerInv
<1>3. CASE Deliver
  <2> DEFINE f == Head(pipe)
  <2>1. pipe # <<>> /\ pipe' = Tail(pipe) /\ f \in Frame /\ pipe' \in Seq(Frame)
        /\ kbd' = kbd /\ step' = step /\ events' = events /\ heard' = heard /\ status' = status
    BY <1>0, <1>3 DEF Deliver, maps
  <2>2. ASSUME NEW h \in {cand, dev}
        PROVE  /\ Enqueued(h, f).fd = h.fd
               /\ h.fd = "open" => Enqueued(h, f).inbox = Append(h.inbox, f)
    <3>1. h \in Handle /\ (h.fd = "open" => Len(h.inbox) < QueueSize)
      BY <1>0, <2>1 DEF NothingMissed
    <3>2. QED
      BY <3>1 DEF Enqueued, Handle
  <2>3. /\ cand'.fd = cand.fd /\ (cand.fd = "open" => cand'.inbox = Append(cand.inbox, f))
        /\ dev'.fd = dev.fd /\ (dev.fd = "open" => dev'.inbox = Append(dev.inbox, f))
    BY <1>3, <2>2 DEF Deliver
  <2>4. /\ LastIs(pipe, kbd.layer) => LastIs(pipe', kbd.layer)
        /\ LastIs(pipe, kbd.layer) /\ NoLayerIn(pipe') /\ f.evt = "Layer" => f.layer = kbd.layer
        /\ NoLayerIn(pipe) <=> NoLayerIn(pipe') /\ f.evt # "Layer"
    BY <1>0, <2>1, LayerTaken
  <2> HIDE DEF f
  <2>5. ASSUME NEW h \in {cand, dev}, NEW inbox, inbox = Append(h.inbox, f)
        PROVE  /\ Traced(h) /\ NoLayerIn(pipe') => LastIs(inbox, kbd.layer)
               /\ NoLayerIn(inbox) <=> NoLayerIn(h.inbox) /\ f.evt # "Layer"
    <3>1. h.inbox \in Seq(Frame)
      BY <1>0
    <3>2. QED
      BY <2>1, <2>4, <2>5, <3>1, LayerAppended DEF Traced
  <2>6. ASSUME NEW h \in {cand, dev}, Traced(h) PROVE LastIs(pipe', kbd'.layer)
    BY <2>1, <2>4, <2>6 DEF Traced
  <2>7. EventsInv'
    BY <1>0, <2>1, EventStep DEF Running
  <2>8. FilesInv'
    BY <1>0, <2>1, <2>3 DEF FilesInv, Running
  <2>9. /\ kbd'.paired /\ cand'.fd = "open" => Traced(cand)'
        /\ kbd'.paired /\ dev'.fd = "open" => Traced(dev)'
    BY <1>0, <2>1, <2>3, <2>5, <2>6 DEF HeardInv, Traced
  <2>10. kbd'.paired /\ dev'.fd = "open" =>
           (heard' /\ NoLayerIn(pipe') /\ NoLayerIn(dev'.inbox) => status'.layer = kbd'.layer)
    BY <1>0, <2>1, <2>3, <2>4, <2>5 DEF HeardInv
  <2>11. ~kbd'.paired /\ cand'.fd = "open" =>
           step' = "version" /\ dev'.fd # "open" /\ NoLayerIn(pipe') /\ NoLayerIn(cand'.inbox)
    BY <1>0, <2>1, <2>3, <2>4, <2>5 DEF HeardInv
  <2>12. HeardInv'
    <3>1. /\ ~kbd'.paired /\ dev'.fd = "open" => step' \notin Opening /\ RemovedNext(events')
          /\ step' \in Opening /\ dev'.fd = "open" /\ cand'.fd = "open" => RemovedNext(events')
      BY <1>0, <2>1, <2>3 DEF HeardInv
    <3>2. QED
      BY <2>9, <2>10, <2>11, <3>1 DEF HeardInv, RemovedNext, NoLayerIn, Traced
  <2>13. QED
    BY <2>7, <2>8, <2>12 DEF LayerInv
<1>4. CASE LayerChange \/ KeyPress
  <2>1. PICK f \in Frame, l \in Layers :
          /\ Reported(f)
          /\ kbd' = [kbd EXCEPT !.layer = l]
          /\ f.evt = "Layer" => f.layer = l
          /\ f.evt # "Layer" => l = kbd.layer
          /\ f.evt = "Layer" \/ f.evt = "Key"
    <3>1. CASE LayerChange
      <4>1. PICK l \in Layers : kbd' = [kbd EXCEPT !.layer = l] /\ Reported(LayerEvt(l))
        BY <3>1 DEF LayerChange
      <4>2. LayerEvt(l) \in Frame /\ LayerEvt(l).evt = "Layer" /\ LayerEvt(l).layer = l
        BY FrameTypes DEF LayerEvt
      <4>3. QED
        BY <4>1, <4>2
    <3>2. CASE KeyPress
      <4>1. Evt("Key") \in Frame /\ Evt("Key").evt = "Key"
        BY FrameTypes DEF Evt
      <4>2. kbd' = [kbd EXCEPT !.layer = kbd.layer] /\ kbd.layer \in Layers
        BY <3>2 DEF KeyPress, TypeOK
      <4>3. QED
        BY <3>2, <4>1, <4>2 DEF KeyPress
    <3>3. QED
      BY <1>4, <3>1, <3>2
  <2>2. /\ kbd'.paired = kbd.paired /\ kbd'.plugged = kbd.plugged /\ kbd'.layer = l
        /\ step' = step /\ cand' = cand /\ dev' = dev /\ events' = events
        /\ heard' = heard /\ status' = status
    BY <1>4, <2>1 DEF LayerChange, KeyPress, handles, maps, TypeOK
  <2>3. CASE ~kbd.paired \/ (cand.fd # "open" /\ dev.fd # "open")
    <3>1. pipe' = pipe
      BY <2>1, <2>3 DEF Reported
    <3>2. EventsInv'
      BY <1>0, <2>2, EventStep DEF Running
    <3>3. FilesInv'
      BY <1>0, <2>2, <3>1 DEF FilesInv, Running
    <3>4. HeardInv'
      BY <1>0, <2>2, <2>3, <3>1 DEF HeardInv, RemovedNext, NoLayerIn
    <3>5. QED
      BY <3>2, <3>3, <3>4 DEF LayerInv
  <2>4. CASE kbd.paired /\ (cand.fd = "open" \/ dev.fd = "open")
    <3>1. pipe' = Append(pipe, f)
      BY <2>1, <2>4 DEF Reported
    <3>2. /\ NoLayerIn(pipe') <=> NoLayerIn(pipe) /\ f.evt # "Layer"
          /\ f.evt = "Layer" => LastIs(pipe', l)
          /\ f.evt # "Layer" /\ LastIs(pipe, l) => LastIs(pipe', l)
      BY <1>0, <2>1, <3>1, LayerAppended
    <3>3. EventsInv'
      BY <1>0, <2>2, EventStep DEF Running
    <3>4. FilesInv'
      BY <1>0, <2>2, <2>4 DEF FilesInv, Running
    <3>5. ASSUME NEW h, Traced(h) PROVE LastIs(pipe', l) /\ (NoLayerIn(pipe') => LastIs(h.inbox, l))
      BY <2>1, <3>2, <3>5 DEF Traced
    <3>6. /\ cand.fd = "open" => Traced(cand)'
          /\ dev.fd = "open" => Traced(dev)'
      BY <1>0, <2>2, <2>4, <3>5 DEF HeardInv, Traced
    <3>7. dev.fd = "open" /\ heard /\ NoLayerIn(pipe') /\ NoLayerIn(dev.inbox) => status.layer = l
      BY <1>0, <2>1, <2>4, <3>2 DEF HeardInv
    <3>8. step \in Opening /\ dev.fd = "open" /\ cand.fd = "open" => RemovedNext(events')
      BY <1>0, <2>2 DEF HeardInv
    <3>9. HeardInv'
      BY <2>2, <2>4, <3>6, <3>7, <3>8 DEF HeardInv, RemovedNext, NoLayerIn, Traced
    <3>10. QED
      BY <3>3, <3>4, <3>9 DEF LayerInv
  <2>5. QED
    BY <2>3, <2>4 DEF TypeOK
<1>5. CASE Publish
  BY <1>5, LayerFrame DEF Publish, handles, maps
<1>6. QED
  BY <1>1, <1>2, <1>3, <1>4, <1>5 DEF World
\* After these no file is open.
LEMMA LifeFollows ==
  ASSUME TypeOK, LayerInv, Start \/ Stop \/ Crash \/ HangUp \/ RemoveEvent
  PROVE  LayerInv'
<1>1. /\ cand'.fd = "closed" /\ dev'.fd = "closed" /\ pipe' = <<>>
      /\ step' \notin Opening
  <2>1. CASE Start
    BY <2>1 DEF Start, handles, Running, Opening, LayerInv, FilesInv
  <2>2. CASE Crash
    BY <2>2, SameFd DEF Crash, Opening
  <2>3. CASE Stop \/ HangUp \/ RemoveEvent
    BY <2>3, SameFd DEF Stop, HangUp, RemoveEvent, Opening, LayerInv, FilesInv
  <2>4. QED
    BY <2>1, <2>2, <2>3
<1>2. FilesInv' /\ HeardInv'
  BY <1>1 DEF FilesInv, HeardInv
<1>3. EventsInv'
  <2>1. CASE Start
    BY <2>1, EventStep DEF Start, Running, LayerInv
  <2>2. CASE Stop \/ Crash
    BY <2>2, EventStep DEF Stop, Crash, LayerInv
  <2>3. CASE HangUp
    BY <2>3, EventStep DEF HangUp, Running, LayerInv
  <2>4. CASE RemoveEvent
    <3>1. kbd'.plugged = kbd.plugged
      BY <2>4, CloseReleases DEF RemoveEvent
    <3>2. events # <<>> /\ events' = Tail(events) /\ step' = step
      BY <2>4 DEF RemoveEvent
    <3>3. QED
      BY <3>1, <3>2, EventStep DEF Running, LayerInv
  <2>5. QED
    BY <2>1, <2>2, <2>3, <2>4
<1>4. QED
  BY <1>2, <1>3 DEF LayerInv

\* A candidate is opened. The first device is then still open when the keyboard came
\* between the start of the monitor and the scan, and it is paired.
LEMMA OpenFollows ==
  ASSUME TypeOK, LayerInv, Scan \/ AddEvent
  PROVE  LayerInv'
<1>1. /\ FilesInv /\ EventsInv /\ HeardInv
      /\ cand \in Handle /\ dev \in Handle /\ pipe \in Seq(Frame)
      /\ step \in {"enabled", "idle"} /\ cand.fd = "closed" /\ step \notin Opening
      /\ kbd' = kbd /\ dev' = dev /\ heard' = heard /\ status' = status
  BY DEF LayerInv, FilesInv, TypeOK, Scan, AddEvent, maps, Opening
<1>2. Running' /\ Running /\ step' \in {"version", "idle"}
  BY DEF Scan, AddEvent, Open, Running
<1>3. EventsInv'
  <2>1. CASE Scan
    BY <1>1, <1>2, <2>1, EventStep DEF Scan
  <2>2. CASE AddEvent
    BY <1>1, <1>2, <2>2, EventStep DEF AddEvent
  <2>3. QED
    BY <2>1, <2>2
<1>4. dev.fd = "open" =>
        /\ AddEvent /\ kbd.paired /\ Traced(dev)
        /\ heard /\ NoLayerIn(pipe) /\ NoLayerIn(dev.inbox) => status.layer = kbd.layer
        /\ RemovedNext(events')
  <2>1. SUFFICES ASSUME dev.fd = "open" PROVE AddEvent /\ kbd.paired /\ RemovedNext(events')
    BY <1>1 DEF HeardInv, TypeOK
  <2>2. AddEvent
    BY <1>1, <2>1 DEF Scan, FilesInv
  <2>3. events # <<>> /\ Head(events) = "add" /\ events' = Tail(events)
    BY <2>2 DEF AddEvent
  <2>4. kbd.paired
    BY <1>1, <2>1, <2>3 DEF HeardInv, RemovedNext
  <2>5. events \in Seq(Event) /\ Alternates(events)
    BY <1>1 DEF TypeOK, Event, EventsInv
  <2>6. Tail(events) # <<>> => Head(Tail(events)) # "add"
    BY <2>3, <2>5, EventTaken
  <2>7. Tail(events) \in Seq(Event)
    BY <2>3, <2>5
  <2>8. RemovedNext(events')
    <3>1. Tail(events) # <<>> => Head(Tail(events)) \in Event
      BY <2>7
    <3>2. QED
      BY <2>3, <2>6, <3>1 DEF RemovedNext, Event
  <2>9. QED
    BY <2>2, <2>4, <2>8
<1>5. CASE ~kbd.plugged
  <2>1. step' = "idle" /\ pipe' = pipe /\ cand' = cand
    BY <1>1, <1>5 DEF Scan, AddEvent
  <2>2. dev.fd # "open"
    BY <1>1, <1>5 DEF FilesInv
  <2>3. FilesInv'
    BY <1>1, <1>2, <2>1, <2>2 DEF FilesInv, Opening
  <2>4. HeardInv'
    BY <1>1, <2>1, <2>2 DEF HeardInv
  <2>5. QED
    BY <1>3, <2>3, <2>4 DEF LayerInv
<1>6. CASE kbd.plugged
  <2>1. Open
    BY <1>6 DEF Scan, AddEvent
  <2>2. cand'.fd = "open" /\ cand'.inbox = <<>> /\ step' = "version"
    BY <2>1 DEF Open, NoHandle
  <2>3. pipe' = pipe \/ \E f \in Frame : f.evt # "Layer" /\ pipe' = Append(pipe, f)
    <3>1. Cmd("Version").cmd = "Version"
      BY DEF Cmd
    <3>2. PICK a \in {<<>>, <<Evt("Version")>>} : pipe' = pipe \o a
      BY <2>1, <3>1 DEF Open, Answers
    <3>3. Evt("Version") \in Frame /\ Evt("Version").evt = "Version"
      BY FrameTypes DEF Evt
    <3>4. pipe \o <<>> = pipe /\ pipe \o <<Evt("Version")>> = Append(pipe, Evt("Version"))
      BY <1>1, <3>3
    <3>5. QED
      BY <3>2, <3>3, <3>4
  <2>4. pipe' \in Seq(Frame)
    BY <1>1, <2>3
  <2>5. /\ LastIs(pipe, kbd.layer) => LastIs(pipe', kbd.layer)
        /\ NoLayerIn(pipe') <=> NoLayerIn(pipe)
    BY <1>1, <2>3, <2>4, QuietTraced
  <2>6. dev.fd # "open" => NoLayerIn(pipe')
    BY <1>1, <2>5, NoneIsLast DEF FilesInv
  <2>7. FilesInv'
    BY <1>1, <1>2, <1>6, <2>2 DEF FilesInv, Opening
  <2>8. NoLayerIn(cand'.inbox) /\ \A l : LastIs(cand'.inbox, l)
    BY <2>2, NoneIsLast
  <2>9. LastIs(pipe', kbd.layer)
    BY <1>4, <2>5, <2>6, NoneIsLast DEF Traced
  <2>10. HeardInv'
    BY <1>1, <1>4, <2>2, <2>5, <2>6, <2>8, <2>9 DEF HeardInv, Traced, NoLayerIn, RemovedNext
  <2>11. QED
    BY <1>3, <2>7, <2>10 DEF LayerInv
<1>7. QED
  BY <1>5, <1>6
\* A read of the handshake takes the next frame, and what it writes pairs the keyboard
\* or asks for no layer report.
LEMMA ReadFollows ==
  ASSUME TypeOK, LayerInv, ReadVersion \/ ReadPairing \/ ReadFirmware
  PROVE  LayerInv'
<1>1. /\ FilesInv /\ EventsInv /\ HeardInv
      /\ cand \in Handle /\ dev \in Handle /\ pipe \in Seq(Frame) /\ cand.inbox \in Seq(Frame)
      /\ dev' = dev /\ events' = events /\ heard' = heard /\ status' = status
      /\ step \in Opening /\ step' \in Opening \ {"version"} /\ Running /\ Running'
  BY InboxOf
  DEF LayerInv, TypeOK, ReadVersion, ReadPairing, ReadFirmware, maps, Opening, Running
<1>2. cand'.fd = cand.fd /\ cand'.inbox = Rest.inbox
  <2>1. \A b : [Rest EXCEPT !.buildId = b].inbox = Rest.inbox /\ [Rest EXCEPT !.buildId = b].fd = Rest.fd
    BY <1>1 DEF Rest, Handle
  <2>2. Rest.fd = cand.fd
    BY <1>1, SameFd
  <2>3. QED
    BY <2>1, <2>2 DEF ReadVersion, ReadPairing, ReadFirmware
<1>3. /\ NoLayerIn(cand.inbox) => NoLayerIn(cand'.inbox)
      /\ LastIs(cand.inbox, kbd.layer) => LastIs(cand'.inbox, kbd.layer)
  <2>1. CASE cand.inbox = <<>>
    <3>1. Rest.inbox = cand.inbox
      BY <1>1, <2>1 DEF Rest, Handle
    <3>2. QED
      BY <1>2, <3>1
  <2>2. CASE cand.inbox # <<>>
    <3>1. Rest.inbox = Tail(cand.inbox)
      BY <1>1, <2>2 DEF Rest, Handle
    <3>2. QED
      BY <1>1, <1>2, <2>2, <3>1, LayerTaken
  <2>3. QED
    BY <2>1, <2>2
<1>4. /\ kbd'.layer = kbd.layer /\ kbd'.plugged = kbd.plugged
      /\ cand.fd = "open" => kbd'.paired = TRUE
      /\ cand.fd # "open" => kbd' = kbd
      /\ pipe' = pipe \/ (cand.fd = "open" /\ \E f \in Frame : f.evt # "Layer" /\ pipe' = Append(pipe, f))
  <2>1. kbd.paired \in BOOLEAN /\ kbd \in Keyboard
    BY DEF TypeOK, Keyboard
  <2>2. cand.fd = "open" /\ step # "version" => kbd.paired = TRUE
    BY <1>1, <2>1 DEF HeardInv
  <2>3. CASE step = "version"
    <3>1. Write(cand, Cmd("Pair")) /\ Cmd("Pair") \in Command /\ Cmd("Pair").cmd = "Pair"
      BY <2>3, CommandTypes DEF ReadVersion, ReadPairing, ReadFirmware, Cmd
    <3>2. Told(kbd, Cmd("Pair")) = [kbd EXCEPT !.paired = TRUE]
      BY <3>1 DEF Told
    <3>3. QED
      BY <2>1, <3>1, <3>2, WriteAnswers DEF Keyboard
  <2>4. CASE step # "version" /\ kbd' = kbd /\ pipe' = pipe
    BY <2>2, <2>4
  <2>5. CASE step # "version" /\ Write(cand, Cmd("Firmware"))
    <3>1. Cmd("Firmware") \in Command /\ Cmd("Firmware").cmd = "Firmware"
      BY CommandTypes DEF Cmd
    <3>2. Told(kbd, Cmd("Firmware")) = kbd
      BY <3>1 DEF Told
    <3>3. QED
      BY <2>2, <2>5, <3>1, <3>2, WriteAnswers
  <2>6. QED
    BY <2>3, <2>4, <2>5 DEF ReadVersion, ReadPairing, ReadFirmware
<1>5. EventsInv'
  BY <1>1, <1>4, EventStep
<1>6. FilesInv'
  BY <1>1, <1>2, <1>4 DEF FilesInv, Opening
<1>7. CASE cand.fd # "open"
  <2>1. dev.fd # "open"
    BY <1>1, <1>7 DEF FilesInv, Handle
  <2>2. HeardInv'
    BY <1>1, <1>2, <1>7, <2>1 DEF HeardInv
  <2>3. QED
    BY <1>5, <1>6, <2>2 DEF LayerInv
<1>8. CASE cand.fd = "open"
  <2>1. pipe' \in Seq(Frame)
    BY <1>1, <1>4
  <2>2. /\ LastIs(pipe, kbd.layer) => LastIs(pipe', kbd.layer)
        /\ NoLayerIn(pipe') <=> NoLayerIn(pipe)
    BY <1>1, <1>4, <2>1, QuietTraced
  <2>3. Traced(cand)'
    <3>1. CASE kbd.paired
      BY <1>1, <1>2, <1>3, <1>4, <1>8, <2>2, <3>1 DEF HeardInv, Traced
    <3>2. CASE ~kbd.paired
      <4>1. NoLayerIn(pipe') /\ NoLayerIn(cand'.inbox)
        BY <1>1, <1>3, <1>8, <2>2, <3>2 DEF HeardInv
      <4>2. QED
        BY <4>1, NoneIsLast DEF Traced
    <3>3. QED
      BY <3>1, <3>2
  <2>4. dev.fd = "open" =>
          /\ Traced(dev) /\ RemovedNext(events)
          /\ heard /\ NoLayerIn(pipe) /\ NoLayerIn(dev.inbox) => status.layer = kbd.layer
    BY <1>1, <1>8 DEF HeardInv
  <2>5. dev.fd = "open" => Traced(dev)'
    BY <1>1, <1>4, <2>2, <2>4 DEF Traced
  <2>6. HeardInv'
    BY <1>1, <1>2, <1>4, <1>8, <2>2, <2>3, <2>4, <2>5 DEF HeardInv, RemovedNext, NoLayerIn
  <2>7. QED
    BY <1>5, <1>6, <2>6 DEF LayerInv
<1>9. QED
  BY <1>7, <1>8

\* The candidate takes the device's place, and closing that one may release the keyboard.
LEMMA ConnectFollows ==
  ASSUME TypeOK, LayerInv, Connect
  PROVE  LayerInv'
<1>1. /\ FilesInv /\ EventsInv /\ HeardInv
      /\ cand \in Handle /\ dev \in Handle
      /\ dev' = cand /\ cand'.fd = "closed" /\ events' = events /\ heard' = FALSE /\ pipe' = pipe
      /\ step = "connect" /\ step' \in {"idle", "connectFetch"}
  BY SameFd DEF LayerInv, TypeOK, Connect
<1>2. step \in Opening /\ step' \notin Opening /\ Running /\ Running' /\ step # "version"
  BY <1>1 DEF Opening, Running
<1>3. kbd'.plugged = kbd.plugged
  BY CloseReleases DEF Connect
<1>4. EventsInv'
  BY <1>1, <1>2, <1>3, EventStep
<1>5. FilesInv'
  BY <1>1, <1>2, <1>3 DEF FilesInv, Handle
<1>6. HeardInv'
  <2>1. CASE cand.fd # "open"
    BY <1>1, <2>1 DEF HeardInv
  <2>2. CASE cand.fd = "open" /\ dev.fd = "open"
    <3>1. ~kbd'.paired
      BY <2>2, CloseReleases DEF Connect
    <3>2. RemovedNext(events)
      BY <1>1, <1>2, <2>2 DEF HeardInv
    <3>3. QED
      BY <1>1, <1>2, <3>1, <3>2 DEF HeardInv, RemovedNext
  <2>3. CASE cand.fd = "open" /\ dev.fd # "open"
    <3>1. kbd' = kbd
      BY <2>3 DEF Connect, Close
    <3>2. kbd.paired /\ Traced(cand)
      BY <1>1, <1>2, <2>3 DEF HeardInv, TypeOK
    <3>3. Traced(dev)'
      BY <1>1, <3>1, <3>2 DEF Traced
    <3>4. QED
      BY <1>1, <1>2, <3>1, <3>2, <3>3 DEF HeardInv
  <2>4. QED
    BY <2>1, <2>2, <2>3
<1>7. QED
  BY <1>4, <1>5, <1>6 DEF LayerInv
\* A report is taken off the queue of the connected device.
LEMMA ReportFollows ==
  ASSUME TypeOK, LayerInv, LayerReport \/ OtherReport
  PROVE  LayerInv'
<1> DEFINE f == Head(dev.inbox)
<1>1. /\ FilesInv /\ EventsInv /\ HeardInv
      /\ dev \in Handle /\ dev.inbox \in Seq(Frame) /\ dev.inbox # <<>>
      /\ dev'.fd = dev.fd /\ dev'.inbox = Tail(dev.inbox)
      /\ kbd' = kbd /\ pipe' = pipe /\ step' = step /\ cand' = cand /\ events' = events
      /\ step = "idle"
  <2>1. dev.inbox # <<>> /\ dev' = [dev EXCEPT !.inbox = Tail(@)]
    BY DEF LayerReport, OtherReport, Polled
  <2>2. dev'.fd = dev.fd /\ dev'.inbox = Tail(dev.inbox)
    BY <2>1 DEF TypeOK, Handle
  <2>3. QED
    BY <2>1, <2>2, InboxOf DEF LayerInv, TypeOK, LayerReport, OtherReport, Polled
<1>2. step \notin Opening /\ Running /\ Running'
  BY <1>1 DEF Opening, Running
<1>3. /\ LayerReport => f.evt = "Layer" /\ status'.layer = f.layer
      /\ OtherReport => f.evt # "Layer" /\ status' = status /\ heard' = heard
  <2>1. CASE LayerReport
    <3> DEFINE st == [status EXCEPT !.layer = f.layer,
                                    !.buildId = IF dev.buildId = "" THEN @ ELSE dev.buildId]
    <3>1. Lookup(st) /\ f.evt = "Layer"
      BY <2>1 DEF LayerReport, Polled
    <3>2. st.layer = f.layer /\ [st EXCEPT !.cached = TRUE].layer = st.layer
      BY DEF TypeOK, Status
    <3> HIDE DEF st
    <3>3. status'.layer = st.layer
      BY <3>1, <3>2 DEF Lookup
    <3>4. f.evt # "Key" /\ f.evt # "Version" /\ f.evt # "Paired" /\ f.evt # "Firmware"
      BY <3>1
    <3>5. ~OtherReport
      BY <3>4 DEF OtherReport, Polled
    <3>6. QED
      BY <3>1, <3>2, <3>3, <3>5
  <2>2. CASE OtherReport
    <3>1. f.evt \in {"Key", "Version", "Paired", "Firmware"}
      BY <2>2 DEF OtherReport, Polled
    <3>2. f.evt # "Layer"
      BY <3>1
    <3>3. ~LayerReport
      BY <3>2 DEF LayerReport, Polled
    <3>4. QED
      BY <2>2, <3>2, <3>3 DEF OtherReport, maps
  <2>3. QED
    BY <2>1, <2>2
<1>4. /\ LastIs(dev.inbox, kbd.layer) => LastIs(dev'.inbox, kbd.layer)
      /\ LastIs(dev.inbox, kbd.layer) /\ NoLayerIn(dev'.inbox) /\ f.evt = "Layer" =>
           f.layer = kbd.layer
      /\ NoLayerIn(dev.inbox) <=> NoLayerIn(dev'.inbox) /\ f.evt # "Layer"
  BY <1>1, LayerTaken
<1> HIDE DEF f
<1>5. EventsInv' /\ FilesInv'
  BY <1>1, <1>2, EventStep DEF FilesInv
<1>6. ASSUME kbd.paired, dev.fd = "open"
      PROVE  /\ Traced(dev)'
             /\ heard' /\ NoLayerIn(pipe) /\ NoLayerIn(dev'.inbox) => status'.layer = kbd.layer
  <2>1. Traced(dev) /\ (heard /\ NoLayerIn(pipe) /\ NoLayerIn(dev.inbox) => status.layer = kbd.layer)
    BY <1>1, <1>6 DEF HeardInv
  <2>2. Traced(dev)'
    BY <1>1, <1>4, <2>1 DEF Traced
  <2>3. ASSUME heard', NoLayerIn(pipe), NoLayerIn(dev'.inbox) PROVE status'.layer = kbd.layer
    BY <1>3, <1>4, <2>1, <2>3 DEF Traced
  <2>4. QED
    BY <2>2, <2>3
<1>7. cand.fd = "closed"
  BY <1>1, <1>2 DEF FilesInv
<1>8. HeardInv'
  BY <1>1, <1>2, <1>6, <1>7 DEF HeardInv, RemovedNext, NoLayerIn
<1>9. QED
  BY <1>5, <1>8 DEF LayerInv

\* A paired keyboard that is told a layer reports it; an unpaired one does neither.
LEMMA CommandFollows ==
  ASSUME TypeOK, LayerInv, SetLayer \/ SetLight
  PROVE  LayerInv'
<1>1. /\ FilesInv /\ EventsInv /\ HeardInv
      /\ dev \in Handle /\ pipe \in Seq(Frame) /\ kbd \in Keyboard
      /\ UNCHANGED <<step, cand, dev, events, heard, status>>
      /\ step = "idle"
  BY DEF LayerInv, TypeOK, Keyboard, SetLayer, SetLight, Serving, handles, maps
<1>2. step \notin Opening /\ Running /\ Running'
  BY <1>1 DEF Opening, Running
<1>3. cand.fd = "closed"
  BY <1>1, <1>2 DEF FilesInv
<1>4. PICK c \in Command : c.cmd \in {"SetLayer", "Light"} /\ Write(dev, c)
  BY CommandTypes DEF SetLayer, SetLight, Cmd
<1>5. /\ dev.fd # "open" => kbd' = kbd /\ pipe' = pipe
      /\ dev.fd = "open" => kbd' = Told(kbd, c)
      /\ \/ pipe' = pipe
         \/ \E f \in Frame : f.evt # "Layer" /\ pipe' = Append(pipe, f)
         \/ c.cmd = "SetLayer" /\ kbd.paired /\ pipe' = Append(pipe, LayerEvt(c.layer))
  BY <1>4, WriteAnswers
<1>6. /\ kbd'.plugged = kbd.plugged /\ kbd'.paired = kbd.paired
      /\ ~kbd.paired => kbd' = kbd
      /\ c.cmd = "Light" => kbd' = kbd
      /\ dev.fd = "open" /\ kbd.paired /\ c.cmd = "SetLayer" => kbd'.layer = c.layer
  <2>1. c.cmd = "SetLayer" => Told(kbd, c) = [kbd EXCEPT !.layer = IF kbd.paired THEN c.layer ELSE kbd.layer]
    BY DEF Told
  <2>2. c.cmd = "Light" => Told(kbd, c) = kbd
    BY DEF Told
  <2>3. ~kbd.paired => [kbd EXCEPT !.layer = IF kbd.paired THEN c.layer ELSE kbd.layer] = kbd
    BY <1>1 DEF Keyboard
  <2>4. QED
    BY <1>1, <1>4, <1>5, <2>1, <2>2, <2>3 DEF Keyboard
<1>7. FilesInv'
  <2>1. dev.fd # "open" => pipe' = pipe
    BY <1>5
  <2>2. QED
    BY <1>1, <1>2, <1>3, <1>6, <2>1 DEF FilesInv
<1>8. EventsInv'
  BY <1>1, <1>2, <1>6, EventStep
<1>9. HeardInv'
  <2>1. CASE dev.fd # "open" \/ ~kbd.paired
    BY <1>1, <1>2, <1>3, <1>6, <2>1 DEF HeardInv, RemovedNext
  <2>2. CASE dev.fd = "open" /\ kbd.paired /\ c.cmd = "Light"
    <3>1. kbd' = kbd /\ pipe' \in Seq(Frame)
          /\ (pipe' = pipe \/ \E f \in Frame : f.evt # "Layer" /\ pipe' = Append(pipe, f))
      BY <1>1, <1>5, <1>6, <2>2
    <3>2. /\ LastIs(pipe, kbd.layer) => LastIs(pipe', kbd.layer)
          /\ NoLayerIn(pipe') <=> NoLayerIn(pipe)
      BY <1>1, <3>1, QuietTraced
    <3>3. QED
      BY <1>1, <1>2, <1>3, <2>2, <3>1, <3>2 DEF HeardInv, Traced
  <2>3. CASE dev.fd = "open" /\ kbd.paired /\ c.cmd = "SetLayer"
    <3>1. pipe' = Append(pipe, LayerEvt(c.layer)) /\ kbd'.layer = c.layer
      BY <1>4, <1>6, <2>3 DEF Write, Answers
    <3>2. LayerEvt(c.layer) \in Frame /\ LayerEvt(c.layer).evt = "Layer"
          /\ LayerEvt(c.layer).layer = c.layer
      BY FrameTypes DEF LayerEvt, Command
    <3>3. LastIs(pipe', kbd'.layer) /\ ~NoLayerIn(pipe')
      BY <1>1, <3>1, <3>2, LayerAppended
    <3>4. QED
      BY <1>1, <1>2, <1>3, <1>6, <2>3, <3>3 DEF HeardInv, Traced, NoLayerIn
  <2>4. QED
    BY <1>4, <2>1, <2>2, <2>3
<1>10. QED
  BY <1>7, <1>8, <1>9 DEF LayerInv

LEMMA OthersFollow ==
  ASSUME TypeOK, LayerInv, Fetch \/ Serve \/ (\E m \in Methods : Call(m))
  PROVE  LayerInv'
<1>1. \A st : [st EXCEPT !.cached = TRUE].layer = st.layer
  OBVIOUS
<1>2. CASE Fetch
  <2>1. step \notin Opening /\ Running /\ step' = "idle"
    BY <1>2 DEF Fetch, FetchSucceeds, FetchFails, Fetching, Opening, Running
  <2>2. UNCHANGED <<kbd, pipe, cand, dev, events, heard>> /\ status'.layer = status.layer
    BY <1>2 DEF Fetch, FetchSucceeds, FetchFails, handles, maps, TypeOK, Status
  <2>3. QED
    BY <2>1, <2>2, LayerFrame
<1>3. CASE AnswerError \/ RefreshKeymap \/ ClearCache \/ \E m \in Methods : Call(m)
  <2>1. /\ UNCHANGED <<kbd, pipe, cand, dev, events, heard, status>>
        /\ step' = step \/ (step = "idle" /\ step' = "refreshFetch")
    BY <1>3 DEF AnswerError, RefreshKeymap, ClearCache, Call, Serving, handles, maps
  <2>2. step = "idle" => step \notin Opening /\ Running
    BY DEF Opening, Running
  <2>3. QED
    BY <2>1, <2>2, LayerFrame
<1>4. CASE GetStatus \/ GetKeymap
  <2>1. UNCHANGED <<kbd, pipe, cand, dev, events, heard, step>>
    BY <1>4 DEF GetStatus, GetKeymap, handles
  <2>2. status'.layer = status.layer
    BY <1>4 DEF GetStatus, GetKeymap, Lookup, TypeOK, Status
  <2>3. QED
    BY <2>1, <2>2, LayerFrame
<1>5. CASE SetLayer \/ SetLight
  BY <1>5, CommandFollows
<1>6. QED
  BY <1>2, <1>3, <1>4, <1>5 DEF Serve

LEMMA LayerStep ==
  ASSUME TypeOK, LayerInv, NothingMissed, [Next]_vars
  PROVE  LayerInv'
<1>1. CASE UNCHANGED vars
  BY <1>1, LayerFrame DEF vars, handles, maps
<1>2. CASE World
  BY <1>2, WorldFollows
<1>3. CASE Start \/ Stop \/ Crash \/ HangUp \/ RemoveEvent
  BY <1>3, LifeFollows
<1>4. CASE Scan \/ AddEvent
  BY <1>4, OpenFollows
<1>5. CASE ReadVersion \/ ReadPairing \/ ReadFirmware
  BY <1>5, ReadFollows
<1>6. CASE Connect
  BY <1>6, ConnectFollows
<1>7. CASE LayerReport \/ OtherReport
  BY <1>7, ReportFollows
<1>8. CASE Fetch \/ Serve \/ \E m \in Methods : Call(m)
  BY <1>8, OthersFollow
<1>9. QED
  BY <1>1, <1>2, <1>3, <1>4, <1>5, <1>6, <1>7, <1>8 DEF Next, Handshake, UdevEvent, Poll

\* As long as no report meets a full queue: once a layer report was handled and while
\* the keyboard is paired, the status shows its layer whenever no report waits. A report
\* that the kernel drops cannot be known, so the queues are the theorem's hypothesis;
\* nothing is assumed of the keyboard's answers or of the order of plugging, restarts
\* and calls.
THEOREM LayerFollowedAlways == Spec /\ []NothingMissed => []LayerFollowed
<1>1. Init => LayerInv
  <2>1. Init => /\ pipe = <<>> /\ step = "down" /\ cand.fd = "closed" /\ dev.fd = "closed"
                /\ events = <<>>
    BY SameFd DEF Init
  <2>2. Init => FilesInv /\ HeardInv
    BY <2>1 DEF FilesInv, HeardInv, Opening
  <2>3. Init => EventsInv
    <3>1. Alternates(<<>>)
      BY DEF Alternates
    <3>2. QED
      BY <2>1, <3>1 DEF EventsInv
  <2>4. QED
    BY <2>2, <2>3 DEF LayerInv
<1>2. TypeOK /\ LayerInv /\ NothingMissed /\ [Next]_vars => LayerInv'
  BY LayerStep
<1>3. LayerInv => LayerFollowed
  BY DEF LayerInv, HeardInv, LayerFollowed
<1>4. QED
  BY <1>1, <1>2, <1>3, TypeCorrect, PTL DEF Spec
=============================================================================
