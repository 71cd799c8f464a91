---------------------------- MODULE VoyagerSync ----------------------------
(***************************************************************************)
(* One ZSA Voyager: the blocking handshake with which QmkVoyagerDevice     *)
(* opens it, its reports once it is paired, the Disconnect every close     *)
(* writes, and the Voyager's part of the daemon's callbacks, whose keymap  *)
(* comes from the Oryx service and not from the keyboard.                  *)
(*                                                                         *)
(* The daemon has one thread. While it waits for a frame or for the        *)
(* service, reports, hot-plug events and calls queue up around it.         *)
(***************************************************************************)
EXTENDS Integers, Sequences

CONSTANTS
  Layers,         \* layer numbers
  Layouts,        \* successive layouts published under the keyboard's revision
  NoLayout,
  QueueSize,      \* reports hidraw keeps for each open file
  PairingReads,   \* frames read for a PairingSuccess: 3 in the code
  PlugDuringStart,\* TRUE: the keyboard may come between monitor and scan
  Budget          \* how often the environment acts, by kind of act

BudgetKinds == {"plug", "change", "key", "stop", "crash", "call", "publish", "disk"}

ASSUME LayersAssumption == 0 \in Layers /\ Layers \subseteq Nat
ASSUME LayoutsAssumption == NoLayout \notin Layouts
ASSUME BoundsAssumption ==
  /\ QueueSize \in Nat \ {0} /\ PairingReads \in Nat \ {0}
  /\ PlugDuringStart \in BOOLEAN
  /\ Budget \in [BudgetKinds -> Nat]

VARIABLES
  kbd,       \* the keyboard: plugged in, paired, its layer (external)
  pipe,      \* reports on their way to the host
  published, \* the layout the Oryx service gives (external)
  step,      \* where the daemon's thread is
  reads,     \* frames read so far for PairingSuccess
  cand,      \* the candidate that is being opened
  dev,       \* the device in devices_
  events,    \* udev events not yet received
  status,    \* device_statuses[id]
  km,        \* device_keymaps[id]
  file,      \* the keymap file of the keyboard's revision
  announced, \* the layout of the last KeymapLoaded since the device is known
  heard,     \* a layer report was handled since the device was connected
  call,      \* the D-Bus call that waits for its answer
  left       \* what is left of Budget

maps    == <<status, km, announced, heard>>
handles == <<cand, dev>>
vars == <<kbd, pipe, published, step, reads, cand, dev, events, status, km, file,
          announced, heard, call, left>>

-----------------------------------------------------------------------------
(* Data *)

Methods == {"GetStatus", "GetKeymap", "RefreshKeymap", "SetLayer", "SetLight", "ClearCache"}

Command == [cmd : {"Version", "Pair", "Firmware", "Disconnect", "SetLayer", "Light"},
            layer : Layers]
Cmd(c) == [cmd |-> c, layer |-> 0]

Frame == [evt : {"Version", "Paired", "Firmware", "Layer", "Key"}, layer : Layers]
Evt(e) == [evt |-> e, layer |-> 0]
LayerEvt(l) == [evt |-> "Layer", layer |-> l]

\* An open file of the keyboard. buildId is the firmware version read by the
\* handshake, "" when there is none.
Handle == [fd : {"open", "hung", "closed"}, inbox : Seq(Frame), buildId : {"", "fw"}]
NoHandle == [fd |-> "closed", inbox |-> <<>>, buildId |-> ""]

\* DeviceStatus; buildId starts as the revision and becomes the firmware version
\* with the first layer report that brings one.
Status == [served : BOOLEAN, layer : Layers, buildId : {"revision", "fw"}, cached : BOOLEAN]
NewStatus == [served |-> TRUE, layer |-> 0, buildId |-> "revision", cached |-> FALSE]
NoStatus  == [NewStatus EXCEPT !.served = FALSE]

Spend(kind) == left[kind] > 0 /\ left' = [left EXCEPT ![kind] = @ - 1]

\* The keyboard handles a command at once; it takes orders only when it is paired.
Told(k, c) ==
  CASE c.cmd = "Pair"       -> [k EXCEPT !.paired = TRUE]
    [] c.cmd = "Disconnect" -> [k EXCEPT !.paired = FALSE]
    [] c.cmd = "SetLayer"   -> [k EXCEPT !.layer = IF k.paired THEN c.layer ELSE @]
    [] OTHER                -> k

\* What it may answer; the version queries may be unknown to it.
Answers(k, c) ==
  CASE c.cmd \in {"Version", "Firmware"} -> {<<>>, <<Evt(c.cmd)>>}
    [] c.cmd = "Pair"                    -> {<<Evt("Paired")>>}
    [] c.cmd = "SetLayer" /\ k.paired    -> {<<LayerEvt(c.layer)>>}
    [] OTHER                             -> {<<>>}

\* What handle h writes reaches the keyboard unless that is gone.
Write(h, c) ==
  IF h.fd = "open"
  THEN kbd' = Told(kbd, c) /\ \E a \in Answers(kbd, c) : pipe' = pipe \o a
  ELSE UNCHANGED <<kbd, pipe>>

\* Every open file gets every report; one with a full queue misses it.
Enqueued(h, frame) ==
  IF h.fd = "open" /\ Len(h.inbox) < QueueSize
  THEN [h EXCEPT !.inbox = Append(@, frame)] ELSE h

\* Reports of a paired keyboard; without an open file the host does not ask for
\* them and they are lost.
Reported(frame) ==
  pipe' = IF kbd.paired /\ "open" \in {cand.fd, dev.fd} THEN Append(pipe, frame) ELSE pipe

-----------------------------------------------------------------------------
(* The keyboard and the service (external) *)

Running == step \notin {"down", "crashed"}

Plug ==
  /\ ~kbd.plugged
  /\ step # "enabled" \/ PlugDuringStart
  /\ Spend("plug")
  /\ \E l \in Layers : kbd' = [plugged |-> TRUE, paired |-> FALSE, layer |-> l]
  /\ events' = IF Running THEN Append(events, "add") ELSE events
  /\ UNCHANGED <<pipe, published, step, reads, handles, maps, file, call>>

Hung(h) == IF h.fd = "open" THEN [h EXCEPT !.fd = "hung", !.inbox = <<>>] ELSE h

Unplug ==
  /\ kbd.plugged
  /\ kbd' = [plugged |-> FALSE, paired |-> FALSE, layer |-> 0]
  /\ pipe' = <<>>
  /\ cand' = Hung(cand) /\ dev' = Hung(dev)
  /\ events' = IF Running THEN Append(events, "remove") ELSE events
  /\ UNCHANGED <<published, step, reads, maps, file, call, left>>

Deliver ==
  /\ pipe # <<>>
  /\ pipe' = Tail(pipe)
  /\ cand' = Enqueued(cand, Head(pipe)) /\ dev' = Enqueued(dev, Head(pipe))
  /\ UNCHANGED <<kbd, published, step, reads, events, maps, file, call, left>>

\* The user changes the layer or presses a key.
LayerChange ==
  /\ kbd.plugged
  /\ Spend("change")
  /\ \E l \in Layers \ {kbd.layer} :
       kbd' = [kbd EXCEPT !.layer = l] /\ Reported(LayerEvt(l))
  /\ UNCHANGED <<published, step, reads, handles, events, maps, file, call>>

KeyPress ==
  /\ kbd.plugged
  /\ Spend("key")
  /\ Reported(Evt("Key"))
  /\ UNCHANGED <<kbd, published, step, reads, handles, events, maps, file, call>>

Publish ==
  /\ Spend("publish")
  /\ \E new \in Layouts \ {published} : published' = new
  /\ UNCHANGED <<kbd, pipe, step, reads, handles, events, maps, file, call>>

-----------------------------------------------------------------------------
(* Start and end of the daemon *)

Start ==
  /\ ~Running
  /\ step' = "enabled"
  /\ UNCHANGED <<kbd, pipe, published, reads, handles, events, maps, file, call, left>>

Forgotten ==
  /\ status' = NoStatus
  /\ km' = NoLayout
  /\ announced' = NoLayout
  /\ heard' = FALSE

\* Mutant of Close: the file is closed without a word.
CloseSilently(h) == kbd' = kbd

\* close() writes a Disconnect.
Close(h) == kbd' = IF h.fd = "open" THEN Told(kbd, Cmd("Disconnect")) ELSE kbd

\* The end of main: the manager's destructor closes the device.
Stop ==
  /\ step = "idle"
  /\ Spend("stop")
  /\ step' = "down"
  /\ Close(dev)
  /\ pipe' = <<>>
  /\ dev' = NoHandle
  /\ events' = <<>>
  /\ call' = "none"
  /\ Forgotten
  /\ UNCHANGED <<published, reads, cand, file>>

\* A crash at any point; the keyboard notices nothing.
Crash ==
  /\ Running
  /\ Spend("crash")
  /\ step' = "crashed"
  /\ reads' = 0
  /\ cand' = NoHandle /\ dev' = NoHandle
  /\ pipe' = <<>>
  /\ events' = <<>>
  /\ call' = "none"
  /\ Forgotten
  /\ UNCHANGED <<kbd, published, file>>

-----------------------------------------------------------------------------
(* Opening: the handshake of QmkVoyagerDevice::open. Each read takes the next  *)
(* frame, whatever it is, or times out; a late answer meets a later read.      *)

Open ==
  /\ cand' = [NoHandle EXCEPT !.fd = "open"]
  /\ \E a \in Answers(kbd, Cmd("Version")) : pipe' = pipe \o a
  /\ step' = "version"

Scan ==
  /\ step = "enabled"
  /\ IF kbd.plugged THEN Open ELSE step' = "idle" /\ UNCHANGED <<pipe, cand>>
  /\ UNCHANGED <<kbd, published, reads, dev, events, maps, file, call, left>>

AddEvent ==
  /\ step = "idle"
  /\ events # <<>> /\ Head(events) = "add"
  /\ events' = Tail(events)
  /\ IF kbd.plugged THEN Open ELSE UNCHANGED <<pipe, cand, step>>
  /\ UNCHANGED <<kbd, published, reads, dev, maps, file, call, left>>

Got(e) == cand.inbox # <<>> /\ Head(cand.inbox).evt = e
Rest == [cand EXCEPT !.inbox = IF @ = <<>> THEN @ ELSE Tail(@)]

\* Mutant of ReadVersion: a keyboard that does not answer is given up.
ReadVersionOrGiveUp ==
  /\ step = "version"
  /\ IF Got("Version")
     THEN cand' = Rest /\ step' = "pairing" /\ Write(cand, Cmd("Pair"))
     ELSE cand' = NoHandle /\ step' = "idle" /\ Close(cand) /\ pipe' = <<>>
  /\ UNCHANGED <<published, reads, dev, events, maps, file, call, left>>

ReadVersion ==
  /\ step = "version"
  /\ cand' = Rest
  /\ Write(cand, Cmd("Pair"))
  /\ step' = "pairing"
  /\ UNCHANGED <<published, reads, dev, events, maps, file, call, left>>

\* Mutant of ReadPairing: PairingSuccess is waited for.
ReadPairingForever ==
  /\ step = "pairing"
  /\ cand' = Rest
  /\ IF Got("Paired")
     THEN step' = "firmware" /\ Write(cand, Cmd("Firmware"))
     ELSE UNCHANGED <<step, kbd, pipe>>
  /\ UNCHANGED <<published, reads, dev, events, maps, file, call, left>>

\* A layer report among the frames is handled before its callback is set.
ReadPairing ==
  /\ step = "pairing"
  /\ cand' = Rest
  /\ IF Got("Paired") \/ reads + 1 = PairingReads
     THEN step' = "firmware" /\ reads' = 0 /\ Write(cand, Cmd("Firmware"))
     ELSE reads' = reads + 1 /\ UNCHANGED <<step, kbd, pipe>>
  /\ UNCHANGED <<published, dev, events, maps, file, call, left>>

\* Mutant of ReadFirmware: the frame's kind is not looked at.
ReadFirmwareUnchecked ==
  /\ step = "firmware"
  /\ cand' = [Rest EXCEPT !.buildId = IF cand.inbox # <<>> THEN
                (IF Got("Firmware") THEN "fw" ELSE "other") ELSE ""]
  /\ step' = "connect"
  /\ UNCHANGED <<kbd, pipe, published, reads, dev, events, maps, file, call, left>>

ReadFirmware ==
  /\ step = "firmware"
  /\ cand' = [Rest EXCEPT !.buildId = IF Got("Firmware") THEN "fw" ELSE ""]
  /\ step' = "connect"
  /\ UNCHANGED <<kbd, pipe, published, reads, dev, events, maps, file, call, left>>

-----------------------------------------------------------------------------
(* The keymap *)

Shown(layout) ==
  /\ km' = layout
  /\ announced' = layout

\* The candidate takes the old device's place, whose destructor closes it. Then
\* onConnect: a fresh status, and the revision's file or a fetch.
Connect ==
  /\ step = "connect"
  /\ Close(dev)
  /\ dev' = cand /\ cand' = NoHandle
  /\ heard' = FALSE
  /\ IF file # NoLayout
     THEN Shown(file) /\ status' = [NewStatus EXCEPT !.cached = TRUE] /\ step' = "idle"
     ELSE status' = NewStatus /\ step' = "connectFetch" /\ UNCHANGED <<km, announced>>
  /\ UNCHANGED <<pipe, published, reads, events, file, call, left>>

Fetching == step \in {"connectFetch", "refreshFetch"}

Returned == IF step = "refreshFetch" THEN call' = "none" ELSE call' = call

\* save may fail, which nobody looks at.
Saved ==
  \/ file' = published /\ left' = left
  \/ file' = file /\ Spend("disk")

\* Mutant of FetchSucceeds: the layout is not saved.
FetchNotSaved ==
  /\ Fetching
  /\ Shown(published)
  /\ file' = file
  /\ status' = [status EXCEPT !.cached = TRUE]
  /\ step' = "idle" /\ Returned
  /\ UNCHANGED <<kbd, pipe, published, reads, handles, events, heard, left>>

FetchSucceeds ==
  /\ Fetching
  /\ Shown(published)
  /\ Saved
  /\ status' = [status EXCEPT !.cached = TRUE]
  /\ step' = "idle" /\ Returned
  /\ UNCHANGED <<kbd, pipe, published, reads, handles, events, heard>>

\* No network, no such layout, or six seconds are over.
FetchFails ==
  /\ Fetching
  /\ step' = "idle" /\ Returned
  /\ UNCHANGED <<kbd, pipe, published, reads, handles, events, maps, file, left>>

\* A lookup of a keymap that memory does not have: the file of the status' build.
Lookup(st) ==
  IF km = NoLayout /\ st.buildId = "revision" /\ file # NoLayout
  THEN Shown(file) /\ status' = [st EXCEPT !.cached = TRUE]
  ELSE UNCHANGED <<km, announced>> /\ status' = st

-----------------------------------------------------------------------------
(* Reports of the connected device *)

Polled(e) ==
  /\ step = "idle"
  /\ dev.inbox # <<>> /\ Head(dev.inbox).evt = e
  /\ dev' = [dev EXCEPT !.inbox = Tail(@)]

\* Mutant of LayerReport: without a keymap the report is not looked at.
LayerReportNeedsKeymap ==
  /\ Polled("Layer")
  /\ heard' = TRUE
  /\ Lookup(IF km = NoLayout THEN status ELSE [status EXCEPT !.layer = Head(dev.inbox).layer])
  /\ UNCHANGED <<kbd, pipe, published, step, reads, cand, events, file, call, left>>

LayerReport ==
  /\ Polled("Layer")
  /\ heard' = TRUE
  /\ Lookup([status EXCEPT !.layer = Head(dev.inbox).layer,
                           !.buildId = IF dev.buildId = "" THEN @ ELSE dev.buildId])
  /\ UNCHANGED <<kbd, pipe, published, step, reads, cand, events, file, call, left>>

\* Key events go out as signals; late answers of the handshake are ignored.
OtherReport ==
  /\ \E e \in {"Key", "Version", "Paired", "Firmware"} : Polled(e)
  /\ UNCHANGED <<kbd, pipe, published, step, reads, cand, events, maps, file, call, left>>

HangUp ==
  /\ step = "idle"
  /\ dev.fd = "hung"
  /\ dev' = NoHandle
  /\ Forgotten
  /\ UNCHANGED <<kbd, pipe, published, step, reads, cand, events, file, call, left>>

RemoveEvent ==
  /\ step = "idle"
  /\ events # <<>> /\ Head(events) = "remove"
  /\ events' = Tail(events)
  /\ Close(dev)
  /\ pipe' = <<>>
  /\ dev' = NoHandle
  /\ Forgotten
  /\ UNCHANGED <<published, step, reads, cand, file, call, left>>

-----------------------------------------------------------------------------
(* D-Bus calls: one waits until the thread is back in its loop *)

Call(m) ==
  /\ Running /\ call = "none"
  /\ Spend("call")
  /\ call' = m
  /\ UNCHANGED <<kbd, pipe, published, step, reads, handles, events, maps, file>>

Serving(m) == step = "idle" /\ call = m /\ (m = "ClearCache" \/ status.served)
Answered == call' = "none"

\* Nothing is exported under the path.
AnswerError ==
  /\ step = "idle" /\ call \notin {"none", "ClearCache"}
  /\ ~status.served
  /\ Answered
  /\ UNCHANGED <<kbd, pipe, published, step, reads, handles, events, maps, file, left>>

GetStatus ==
  /\ Serving("GetStatus")
  /\ status' = [status EXCEPT !.cached = @ \/ km # NoLayout]
  /\ Answered
  /\ UNCHANGED <<kbd, pipe, published, step, reads, handles, events, km, file, announced,
                 heard, left>>

GetKeymap ==
  /\ Serving("GetKeymap")
  /\ Lookup(status)
  /\ Answered
  /\ UNCHANGED <<kbd, pipe, published, step, reads, handles, events, file, heard, left>>

\* Mutant of RefreshKeymap: the keymap is dropped first, as a ZMK device's is.
RefreshDropsFirst ==
  /\ Serving("RefreshKeymap")
  /\ km' = NoLayout
  /\ step' = "refreshFetch"
  /\ UNCHANGED <<kbd, pipe, published, reads, handles, events, status, announced, heard,
                 file, call, left>>

RefreshKeymap ==
  /\ Serving("RefreshKeymap")
  /\ step' = "refreshFetch"
  /\ UNCHANGED <<kbd, pipe, published, reads, handles, events, maps, file, call, left>>

\* setLayer and the lighting methods are written through to the keyboard.
SetLayer ==
  /\ Serving("SetLayer")
  /\ \E l \in Layers : Write(dev, [cmd |-> "SetLayer", layer |-> l])
  /\ Answered
  /\ UNCHANGED <<published, step, reads, handles, events, maps, file, left>>

SetLight ==
  /\ Serving("SetLight")
  /\ Write(dev, Cmd("Light"))
  /\ Answered
  /\ UNCHANGED <<published, step, reads, handles, events, maps, file, left>>

ClearCache ==
  /\ Serving("ClearCache")
  /\ file' = NoLayout
  /\ Answered
  /\ UNCHANGED <<kbd, pipe, published, step, reads, handles, events, maps, left>>

-----------------------------------------------------------------------------
Init ==
  /\ \E l \in Layers :
       kbd \in {[plugged |-> TRUE, paired |-> FALSE, layer |-> l],
                [plugged |-> FALSE, paired |-> FALSE, layer |-> 0]}
  /\ pipe = <<>>
  /\ published \in Layouts
  /\ step = "down" /\ reads = 0
  /\ cand = NoHandle /\ dev = NoHandle
  /\ events = <<>>
  /\ status = NoStatus
  /\ km = NoLayout /\ announced = NoLayout /\ heard = FALSE
  /\ file \in Layouts \cup {NoLayout}
  /\ call = "none"
  /\ left = Budget

World == Plug \/ Unplug \/ Deliver \/ LayerChange \/ KeyPress \/ Publish

Handshake == Scan \/ ReadVersion \/ ReadPairing \/ ReadFirmware \/ Connect
Fetch == FetchSucceeds \/ FetchFails
UdevEvent == AddEvent \/ RemoveEvent
Poll == LayerReport \/ OtherReport \/ HangUp
Serve == AnswerError \/ GetStatus \/ GetKeymap \/ RefreshKeymap \/ SetLayer \/ SetLight
         \/ ClearCache

Next == World \/ Start \/ Stop \/ Crash \/ Handshake \/ Fetch \/ UdevEvent \/ Poll \/ Serve
        \/ \E m \in Methods : Call(m)

Spec == Init /\ [][Next]_vars

\* The thread goes on: reads and fetches time out, and the loop comes round to
\* events, devices and calls. systemd starts the daemon. Nothing is assumed of the
\* keyboard, not even that it answers.
Fairness ==
  /\ WF_vars(Start)
  /\ WF_vars(Handshake) /\ WF_vars(Fetch)
  /\ WF_vars(UdevEvent) /\ WF_vars(Poll) /\ WF_vars(Serve)

FairSpec == Spec /\ Fairness

-----------------------------------------------------------------------------
(* Properties *)

Steps == {"down", "crashed", "enabled", "version", "pairing", "firmware", "connect",
          "connectFetch", "refreshFetch", "idle"}

\* The variables keep their types; above all, what a device takes for its firmware
\* version is the answer to that question and no other frame, in whatever order the
\* frames of the handshake come (ReadFirmware).
TypeOK ==
  /\ kbd \in [plugged : BOOLEAN, paired : BOOLEAN, layer : Layers]
  /\ pipe \in Seq(Frame)
  /\ published \in Layouts
  /\ step \in Steps /\ reads \in 0..(PairingReads - 1)
  /\ cand \in Handle /\ dev \in Handle
  /\ events \in Seq({"add", "remove"})
  /\ status \in Status
  /\ km \in Layouts \cup {NoLayout} /\ announced \in Layouts \cup {NoLayout}
  /\ file \in Layouts \cup {NoLayout}
  /\ heard \in BOOLEAN
  /\ call \in Methods \cup {"none"}
  /\ left \in [BudgetKinds -> Nat]

NoLayerIn(inbox) == \A i \in DOMAIN inbox : inbox[i].evt # "Layer"

\* Once a layer report was handled, and while the keyboard is paired, the status shows
\* its layer whenever no report waits: no transition is missed, through restarts,
\* hot-plugging and blocking calls (handleReport, onLayerState). One that comes between
\* the start of the monitor and the scan is opened twice, and the Disconnect of the
\* first device then leaves it unpaired.
LayerFollowed ==
  heard /\ kbd.paired /\ dev.fd = "open" /\ NoLayerIn(pipe) /\ NoLayerIn(dev.inbox) =>
    status.layer = kbd.layer

\* A daemon that has stopped leaves no keyboard paired: every device it has ever
\* paired with was told so (close, the manager's destructor).
StoppedIsReleased == step = "down" => ~kbd.paired

\* What clients were told to read is what they read, also when a save failed
\* (onConnect, refresh_keymap).
AnnouncedIsShown == km = announced

\* What they read is what is on disk for the next start, until a save fails.
ShownIsStored ==
  km # NoLayout /\ file # NoLayout /\ left["disk"] = Budget["disk"] => km = file

\* A served keyboard never loses its keymap: a refresh that fails, a device that is
\* replaced and a cleared cache leave the one in memory (refresh_keymap, onConnect).
KeymapKept ==
  [][status.served /\ status'.served /\ km # NoLayout => km' # NoLayout]_vars

\* Every call is answered, also while the keyboard is silent or the service does not
\* answer, because each wait of the thread ends (open, fetchLayout).
CallAnswered == call # "none" ~> call = "none"

\* A keyboard that is plugged in is served, also when it never answers.
PluggedIsServed ==
  kbd.plugged /\ Running ~> (status.served /\ dev.fd = "open") \/ ~kbd.plugged \/ ~Running
=============================================================================
