--------------------------- MODULE DeviceRegistry ---------------------------
(***************************************************************************)
(* Which keyboards stratad knows: DeviceManager's devices_ and active      *)
(* keyboard, filled by the scan at startup and by udev events, and what    *)
(* the connect and disconnect callbacks keep in step with them: the status *)
(* and probe maps of the daemon and the objects DBusServer exports.        *)
(*                                                                         *)
(* Keyboards come and go at any moment; the monitor queues their events    *)
(* from before the enumeration, so an event may be late, announce again    *)
(* what the scan has opened, or be about a node that has changed hands.    *)
(***************************************************************************)
EXTENDS Integers, Sequences

CONSTANTS
  Ids,         \* device ids (model and serial number)
  Nodes,       \* hidraw nodes
  NoId, NoNode,
  UniqueIds,   \* TRUE when no two nodes show the same id at a time
  Moves,       \* how often a keyboard is plugged or unplugged
  Glitches     \* how often an open or a read fails for no lasting reason

ASSUME NamesAssumption == NoId \notin Ids /\ NoNode \notin Nodes
ASSUME BoundsAssumption == UniqueIds \in BOOLEAN /\ Moves \in Nat /\ Glitches \in Nat

VARIABLES
  plugged,     \* the keyboard behind each node (external)
  events,      \* udev events not yet received
  phase,       \* "start", "watch" once the monitor is enabled, "scan", then "run"
  toScan,      \* nodes enumerated by the scan and not visited yet
  devices,     \* devices_: node and file descriptor of each listed id
  active,      \* activeDeviceId_
  statuses,    \* device_statuses: the node in each id's status
  probes,      \* ids with a pending probe
  slots,       \* ids whose objects DBusServer exports
  emitted,     \* signals of the last step
  moves, glitches

world  == <<plugged, events, moves>>
daemon == <<devices, active, statuses, probes, slots>>
vars == <<plugged, events, phase, toScan, devices, active, statuses, probes, slots,
          emitted, moves, glitches>>

-----------------------------------------------------------------------------
Absent == [node |-> NoNode, fd |-> "closed"]

Listed == {id \in Ids : devices[id].node # NoNode}

Signal(kind, id) == [kind |-> kind, id |-> id]

Event == [action : {"add", "remove"}, node : Nodes, id : Ids]

Glitch == glitches > 0 /\ glitches' = glitches - 1

\* probeDevice and open: the node must still show the keyboard the event or the
\* enumeration was about; even then the open may fail.
CanOpen(node, id) == plugged[node] = id

-----------------------------------------------------------------------------
(* Keyboards come and go (external), and udev announces it sooner or later. *)
(* A device whose keyboard is gone has a hung-up descriptor.                *)

\* Mutant of Notify: the monitor is enabled after the scan.
NotifyAfterScan(action, node, id) ==
  events' = IF phase # "run" THEN events
            ELSE Append(events, [action |-> action, node |-> node, id |-> id])

Notify(action, node, id) == events' = Append(events, [action |-> action, node |-> node, id |-> id])

Plug(node, id) ==
  /\ moves > 0 /\ moves' = moves - 1
  /\ plugged[node] = NoId
  /\ UniqueIds => \A n \in Nodes : plugged[n] # id
  /\ plugged' = [plugged EXCEPT ![node] = id]
  /\ Notify("add", node, id)
  /\ emitted' = <<>>
  /\ UNCHANGED <<daemon, phase, toScan, glitches>>

Unplug(node) ==
  /\ moves > 0 /\ moves' = moves - 1
  /\ plugged[node] # NoId
  /\ plugged' = [plugged EXCEPT ![node] = NoId]
  /\ Notify("remove", node, plugged[node])
  /\ devices' = [id \in Ids |-> IF devices[id].node = node /\ devices[id].fd = "open"
                                THEN [devices[id] EXCEPT !.fd = "hung"] ELSE devices[id]]
  /\ emitted' = <<>>
  /\ UNCHANGED <<active, statuses, probes, slots, phase, toScan, glitches>>

\* What udev announces before the monitor is enabled reaches nobody.
Missed ==
  /\ phase = "start" /\ events # <<>>
  /\ events' = Tail(events)
  /\ emitted' = <<>>
  /\ UNCHANGED <<plugged, moves, daemon, phase, toScan, glitches>>

-----------------------------------------------------------------------------
(* Connection *)

\* Mutants of Connect: the status gets the id for a node, the newcomer becomes the
\* active keyboard, a registered id is registered again.
ConnectMixesFields(node, id) ==
  /\ devices' = [devices EXCEPT ![id] = [node |-> node, fd |-> "open"]]
  /\ active' = IF active = NoId THEN id ELSE active
  /\ statuses' = [statuses EXCEPT ![id] = id]
  /\ probes' = probes \cup {id}
  /\ slots' = slots \cup {id}
  /\ emitted' = <<Signal("Added", id)>>

ConnectTakesOver(node, id) ==
  /\ devices' = [devices EXCEPT ![id] = [node |-> node, fd |-> "open"]]
  /\ active' = id
  /\ statuses' = [statuses EXCEPT ![id] = node]
  /\ probes' = probes \cup {id}
  /\ slots' = slots \cup {id}
  /\ emitted' = <<Signal("Added", id)>>

ConnectRegistersAgain(node, id) ==
  /\ devices' = [devices EXCEPT ![id] = [node |-> node, fd |-> "open"]]
  /\ active' = IF active = NoId THEN id ELSE active
  /\ statuses' = [statuses EXCEPT ![id] = node]
  /\ probes' = probes \cup {id}
  /\ slots' = slots \cup {id}
  /\ emitted' = <<Signal("Added", id)>>

\* A candidate that opened: it takes the place of a device of the same id, whose
\* destructor closes it without a callback; then the daemon's onConnect resets
\* the status, registers the objects (dropping old ones first) and starts the
\* probe.
Connect(node, id) ==
  /\ devices' = [devices EXCEPT ![id] = [node |-> node, fd |-> "open"]]
  /\ active' = IF active = NoId THEN id ELSE active
  /\ statuses' = [statuses EXCEPT ![id] = node]
  /\ probes' = probes \cup {id}
  /\ slots' = slots \cup {id}
  /\ emitted' = (IF id \in slots THEN <<Signal("Removed", id)>> ELSE <<>>)
                \o <<Signal("Added", id)>>

\* Mutants of Forget: the objects or the probe are left behind.
ForgetKeepsObjects(id) ==
  /\ probes' = probes \ {id}
  /\ slots' = slots
  /\ statuses' = [statuses EXCEPT ![id] = NoNode]

ForgetKeepsProbe(id) ==
  /\ probes' = probes
  /\ slots' = slots \ {id}
  /\ statuses' = [statuses EXCEPT ![id] = NoNode]

\* What the daemon forgets in either of its disconnect callbacks.
Forget(id) ==
  /\ probes' = probes \ {id}
  /\ slots' = slots \ {id}
  /\ statuses' = [statuses EXCEPT ![id] = NoNode]

\* Mutant of RemovedSignal: the objects are unregistered without a look.
RemovedSignalAlways(id) == <<Signal("Removed", id)>>

RemovedSignal(id) == IF id \in slots THEN <<Signal("Removed", id)>> ELSE <<>>

-----------------------------------------------------------------------------
(* Startup: init enables the monitor, then scans *)

EnableMonitor ==
  /\ phase = "start"
  /\ phase' = "watch"
  /\ emitted' = <<>>
  /\ UNCHANGED <<world, daemon, toScan, glitches>>

\* The nodes of the moment, whether or not their keyboards are to be announced as well.
Enumerate ==
  /\ phase = "watch"
  /\ phase' = "scan"
  /\ toScan' = {n \in Nodes : plugged[n] # NoId}
  /\ emitted' = <<>>
  /\ UNCHANGED <<world, daemon, glitches>>

\* Mutant of ScanOpens: the scan stops at the first keyboard.
ScanStopsAtFirst(node) ==
  /\ phase = "scan" /\ node \in toScan
  /\ plugged[node] # NoId
  /\ Connect(node, plugged[node])
  /\ toScan' = {}
  /\ UNCHANGED <<world, phase, glitches>>

ScanOpens(node) ==
  /\ phase = "scan" /\ node \in toScan
  /\ plugged[node] # NoId
  /\ Connect(node, plugged[node])
  /\ toScan' = toScan \ {node}
  /\ UNCHANGED <<world, phase, glitches>>

ScanSkips(node) ==
  /\ phase = "scan" /\ node \in toScan
  /\ \/ plugged[node] = NoId /\ UNCHANGED glitches
     \/ Glitch
  /\ toScan' = toScan \ {node}
  /\ emitted' = <<>>
  /\ UNCHANGED <<world, daemon, phase>>

ScanDone ==
  /\ phase = "scan" /\ toScan = {}
  /\ phase' = "run"
  /\ emitted' = <<>>
  /\ UNCHANGED <<world, daemon, toScan, glitches>>

-----------------------------------------------------------------------------
(* The running daemon *)

Received(action) ==
  /\ phase = "run"
  /\ events # <<>>
  /\ Head(events).action = action
  /\ events' = Tail(events)

AddOpens ==
  /\ Received("add")
  /\ CanOpen(Head(events).node, Head(events).id)
  /\ Connect(Head(events).node, Head(events).id)
  /\ UNCHANGED <<plugged, moves, phase, toScan, glitches>>

\* The candidate is gone or does not open: the event is dropped for good.
AddFails ==
  /\ Received("add")
  /\ \/ ~CanOpen(Head(events).node, Head(events).id) /\ UNCHANGED glitches
     \/ Glitch
  /\ emitted' = <<>>
  /\ UNCHANGED <<plugged, moves, daemon, phase, toScan>>

\* Mutant of RemoveListed: the active keyboard is not chosen anew.
RemoveListedKeepsActive(id) ==
  /\ Received("remove")
  /\ devices[id].node = Head(events).node
  /\ devices' = [devices EXCEPT ![id] = Absent]
  /\ Forget(id)
  /\ emitted' = RemovedSignal(id)
  /\ UNCHANGED <<plugged, moves, active, phase, toScan, glitches>>

\* A remove event is matched by node: the device is closed and erased, the
\* daemon forgets it, and if it was the active one another takes its place.
RemoveListed(id) ==
  /\ Received("remove")
  /\ devices[id].node = Head(events).node
  /\ devices' = [devices EXCEPT ![id] = Absent]
  /\ Forget(id)
  /\ IF active # id
     THEN active' = active /\ emitted' = RemovedSignal(id)
     ELSE IF Listed = {id}
     THEN active' = NoId /\ emitted' = RemovedSignal(id)
     ELSE \E other \in Listed \ {id} :
            /\ active' = other
            /\ emitted' = RemovedSignal(id) \o <<Signal("Active", other)>>
  /\ UNCHANGED <<plugged, moves, phase, toScan, glitches>>

RemoveUnknown ==
  /\ Received("remove")
  /\ \A id \in Ids : devices[id].node # Head(events).node
  /\ emitted' = <<>>
  /\ UNCHANGED <<plugged, moves, daemon, phase, toScan, glitches>>

\* A device's own poll meets a hang-up or a read error: it closes, the daemon
\* forgets it, but it stays in devices_ until its remove event.
PollFails(id) ==
  /\ phase = "run"
  /\ \/ devices[id].fd = "hung" /\ UNCHANGED glitches
     \/ devices[id].fd = "open" /\ Glitch
  /\ devices' = [devices EXCEPT ![id].fd = "closed"]
  /\ Forget(id)
  /\ emitted' = RemovedSignal(id)
  /\ UNCHANGED <<world, active, phase, toScan>>

\* The probe of a device ends: a summary came, or its retries are used up.
ProbeEnds(id) ==
  /\ phase = "run" /\ id \in probes
  /\ probes' = probes \ {id}
  /\ emitted' = <<>>
  /\ UNCHANGED <<world, devices, active, statuses, slots, phase, toScan, glitches>>

SetActiveDevice(id) ==
  /\ phase = "run" /\ id \in Listed
  /\ active' = id
  /\ emitted' = IF active # id THEN <<Signal("Active", id)>> ELSE <<>>
  /\ UNCHANGED <<world, devices, statuses, probes, slots, phase, toScan, glitches>>

-----------------------------------------------------------------------------
Init ==
  /\ plugged = [n \in Nodes |-> NoId]
  /\ events = <<>>
  /\ phase = "start" /\ toScan = {}
  /\ devices = [id \in Ids |-> Absent]
  /\ active = NoId
  /\ statuses = [id \in Ids |-> NoNode]
  /\ probes = {} /\ slots = {} /\ emitted = <<>>
  /\ moves = Moves /\ glitches = Glitches

World == Missed \/ \E n \in Nodes : Unplug(n) \/ \E id \in Ids : Plug(n, id)

Scan == EnableMonitor \/ Enumerate \/ ScanDone \/ \E n \in Nodes : ScanOpens(n) \/ ScanSkips(n)

HandleUdevEvent ==
  AddOpens \/ AddFails \/ RemoveUnknown \/ \E id \in Ids : RemoveListed(id)

PollDevices == \E id \in Ids : PollFails(id)

Next == World \/ Scan \/ HandleUdevEvent \/ PollDevices
        \/ \E id \in Ids : ProbeEnds(id) \/ SetActiveDevice(id)

Spec == Init /\ [][Next]_vars

\* The loop of the daemon receives an event and polls every device each time
\* round; the scan at startup runs to its end.
Fairness ==
  /\ WF_vars(Scan) /\ WF_vars(HandleUdevEvent)
  /\ \A id \in Ids : WF_vars(devices[id].fd = "hung" /\ PollFails(id))

FairSpec == Spec /\ Fairness

-----------------------------------------------------------------------------
(* Properties *)

Device == [node : Nodes \cup {NoNode}, fd : {"open", "hung", "closed"}]

\* The variables keep their types.
TypeOK ==
  /\ plugged \in [Nodes -> Ids \cup {NoId}]
  /\ events \in Seq(Event)
  /\ phase \in {"start", "watch", "scan", "run"}
  /\ toScan \subseteq Nodes
  /\ devices \in [Ids -> Device]
  /\ active \in Ids \cup {NoId}
  /\ statuses \in [Ids -> Nodes \cup {NoNode}]
  /\ probes \subseteq Ids /\ slots \subseteq Ids
  /\ moves \in Nat /\ glitches \in Nat

\* The active keyboard is a listed one, and there is one exactly when any is
\* listed (activeDeviceId_ against devices_).
ActiveIsListed ==
  IF Listed = {} THEN active = NoId ELSE active \in Listed

\* The maps that are filled and emptied in three different callbacks agree: the
\* exported objects, the statuses and the open devices are the same ids, each
\* status names its device's node, and a probe is only pending for one of them.
MapsAgree ==
  /\ slots = {id \in Ids : devices[id].fd # "closed"}
  /\ \A id \in Ids : statuses[id] = IF id \in slots THEN devices[id].node ELSE NoNode
  /\ slots \subseteq Listed
  /\ probes \subseteq slots

\* A client that replays DeviceAdded and DeviceRemoved, and nothing else, knows
\* exactly the exported objects, and never sees an object added or removed
\* twice in a row.
Follow(known, s) ==
  IF s.kind = "Added" /\ s.id \notin known THEN known \cup {s.id}
  ELSE IF s.kind = "Removed" /\ s.id \in known THEN known \ {s.id}
  ELSE IF s.kind = "Active" THEN known
  ELSE {NoId}

Followed(known, signals) ==
  LET after[i \in 0..Len(signals)] ==
        IF i = 0 THEN known ELSE Follow(after[i - 1], signals[i])
  IN after[Len(signals)]

SignalsTellObjects == [][Followed(slots, emitted') = slots']_vars

\* Once the queued events and hang-ups are handled, the exported keyboards are
\* those plugged in, each open on its own node, and the active one is among
\* them: no order of scan, events and hang-ups loses or invents a keyboard,
\* nor does a keyboard suffer that is both enumerated and announced.
Settled == phase = "run" /\ events = <<>> /\ \A id \in Ids : devices[id].fd # "hung"

SettledServesPlugged ==
  Settled =>
    /\ \A n \in Nodes, id \in Ids :
         plugged[n] = id <=> devices[id] = [node |-> n, fd |-> "open"]
    /\ slots # {} => active \in slots

\* A keyboard that is unplugged is dropped, unless it comes back first.
GoneIsDropped ==
  \A id \in Ids :
    (\A n \in Nodes : plugged[n] # id) ~> (id \notin slots \/ \E n \in Nodes : plugged[n] = id)

\* A keyboard that is plugged in is exported from its node, unless it is
\* unplugged first.
PluggedIsServed ==
  \A id \in Ids, n \in Nodes :
    plugged[n] = id ~> (devices[id] = [node |-> n, fd |-> "open"] \/ plugged[n] # id)

\* The manager implements the abstract one: a device that is replaced by another
\* of the same id stays listed, and only a removal or a client moves the choice.
Manager == INSTANCE ActiveKeyboard WITH listed <- Listed

ImplementsActiveKeyboard == Manager!Spec
=============================================================================
