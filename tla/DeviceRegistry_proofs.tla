------------------------ MODULE DeviceRegistry_proofs ------------------------
(***************************************************************************)
(* Proofs about DeviceRegistry, for any sets of ids and nodes, any number  *)
(* of moves and any number of failed opens and reads: the types, that the  *)
(* maps of the manager, the daemon and the D-Bus server agree, that the    *)
(* active keyboard is a listed one, that the registry implements           *)
(* ActiveKeyboard, that it serves what is plugged in once the queue of     *)
(* events is empty, and that its signals tell a client the exported        *)
(* objects.                                                                *)
(***************************************************************************)
EXTENDS DeviceRegistry, SequenceTheorems, TLAPS

\* A received event is one that was queued, and the rest stay events.
LEMMA ReceivedEvent ==
  ASSUME TypeOK, NEW action, Received(action)
  PROVE  Head(events) \in Event /\ events' \in Seq(Event)
BY DEF TypeOK, Received

\* The monitor queues events only.
LEMMA NotifyEvent ==
  ASSUME TypeOK, NEW action \in {"add", "remove"}, NEW node \in Nodes, NEW id \in Ids,
         Notify(action, node, id)
  PROVE  events' \in Seq(Event)
<1>1. [action |-> action, node |-> node, id |-> id] \in Event
  BY DEF Event
<1>2. QED
  BY <1>1 DEF TypeOK, Notify

\* Connecting a known id on a known node keeps the types of the daemon's maps.
LEMMA ConnectTypes ==
  ASSUME TypeOK, NEW node \in Nodes, NEW id \in Ids, Connect(node, id)
  PROVE  /\ devices' \in [Ids -> Device]
         /\ active' \in Ids \cup {NoId}
         /\ statuses' \in [Ids -> Nodes \cup {NoNode}]
         /\ probes' \subseteq Ids /\ slots' \subseteq Ids
BY DEF TypeOK, Connect, Device

\* So does forgetting one.
LEMMA ForgetTypes ==
  ASSUME TypeOK, NEW id \in Ids, Forget(id)
  PROVE  /\ statuses' \in [Ids -> Nodes \cup {NoNode}]
         /\ probes' \subseteq Ids /\ slots' \subseteq Ids
BY DEF TypeOK, Forget

-----------------------------------------------------------------------------
\* Every step of the registry, the world and the callbacks keeps the types.
LEMMA TypeStep == TypeOK /\ [Next]_vars => TypeOK'
<1> SUFFICES ASSUME TypeOK, [Next]_vars PROVE TypeOK'
  OBVIOUS
<1> USE NamesAssumption, BoundsAssumption
<1>1. CASE UNCHANGED vars
  BY <1>1 DEF TypeOK, vars
<1>2. ASSUME NEW n \in Nodes, NEW id \in Ids, Plug(n, id) PROVE TypeOK'
  <2>1. events' \in Seq(Event)
    BY <1>2, NotifyEvent DEF Plug
  <2>2. moves' \in Nat
    BY <1>2 DEF TypeOK, Plug
  <2>3. QED
    BY <1>2, <2>1, <2>2 DEF TypeOK, Plug, daemon
<1>3. ASSUME NEW n \in Nodes, Unplug(n) PROVE TypeOK'
  <2>1. plugged[n] \in Ids
    BY <1>3 DEF TypeOK, Unplug
  <2>2. events' \in Seq(Event)
    BY <1>3, <2>1, NotifyEvent DEF Unplug
  <2>3. devices' \in [Ids -> Device]
    BY <1>3 DEF TypeOK, Unplug, Device
  <2>4. QED
    BY <1>3, <2>2, <2>3 DEF TypeOK, Unplug
<1>4. CASE Missed \/ EnableMonitor \/ Enumerate
  BY <1>4 DEF TypeOK, Missed, EnableMonitor, Enumerate, world, daemon
<1>5. CASE ScanDone
  BY <1>5 DEF TypeOK, ScanDone, world, daemon
<1>6. ASSUME NEW n \in Nodes, ScanOpens(n) PROVE TypeOK'
  <2>1. plugged[n] \in Ids /\ Connect(n, plugged[n])
    BY <1>6 DEF TypeOK, ScanOpens
  <2>2. QED
    BY <1>6, <2>1, ConnectTypes DEF TypeOK, ScanOpens, world
<1>7. ASSUME NEW n \in Nodes, ScanSkips(n) PROVE TypeOK'
  BY <1>7 DEF TypeOK, ScanSkips, Glitch, world, daemon
<1>8. CASE AddOpens
  <2>1. Head(events) \in Event /\ events' \in Seq(Event)
    BY <1>8, ReceivedEvent DEF AddOpens
  <2>2. Connect(Head(events).node, Head(events).id)
    BY <1>8 DEF AddOpens
  <2>3. Head(events).node \in Nodes /\ Head(events).id \in Ids
    BY <2>1 DEF Event
  <2>4. QED
    BY <1>8, <2>1, <2>2, <2>3, ConnectTypes DEF TypeOK, AddOpens
<1>9. CASE AddFails
  <2>1. events' \in Seq(Event)
    BY <1>9, ReceivedEvent DEF AddFails
  <2>2. QED
    BY <1>9, <2>1 DEF TypeOK, AddFails, Glitch, daemon
<1>10. CASE RemoveUnknown
  <2>1. events' \in Seq(Event)
    BY <1>10, ReceivedEvent DEF RemoveUnknown
  <2>2. QED
    BY <1>10, <2>1 DEF TypeOK, RemoveUnknown, daemon
<1>11. ASSUME NEW id \in Ids, RemoveListed(id) PROVE TypeOK'
  <2>1. events' \in Seq(Event)
    BY <1>11, ReceivedEvent DEF RemoveListed
  <2>2. Forget(id)
    BY <1>11 DEF RemoveListed
  <2>3. active' \in Ids \cup {NoId}
    BY <1>11 DEF TypeOK, RemoveListed, Listed
  <2>4. devices' \in [Ids -> Device]
    BY <1>11 DEF TypeOK, RemoveListed, Device, Absent
  <2>5. QED
    BY <1>11, <2>1, <2>2, <2>3, <2>4, ForgetTypes DEF TypeOK, RemoveListed
<1>12. ASSUME NEW id \in Ids, PollFails(id) PROVE TypeOK'
  <2>1. Forget(id)
    BY <1>12 DEF PollFails
  <2>2. devices' \in [Ids -> Device]
    BY <1>12 DEF TypeOK, PollFails, Device
  <2>3. QED
    BY <1>12, <2>1, <2>2, ForgetTypes DEF TypeOK, PollFails, Glitch, world
<1>13. ASSUME NEW id \in Ids, ProbeEnds(id) PROVE TypeOK'
  BY <1>13 DEF TypeOK, ProbeEnds, world
<1>14. ASSUME NEW id \in Ids, SetActiveDevice(id) PROVE TypeOK'
  BY <1>14 DEF TypeOK, SetActiveDevice, world
<1>15. QED
  BY <1>1, <1>2, <1>3, <1>4, <1>5, <1>6, <1>7, <1>8, <1>9, <1>10, <1>11,
     <1>12, <1>13, <1>14
  DEF Next, World, Scan, HandleUdevEvent, PollDevices

\* So the variables always have them.
THEOREM TypeCorrect == Spec => []TypeOK
<1>1. Init => TypeOK
  BY NamesAssumption, BoundsAssumption DEF Init, TypeOK, Absent, Device
<1>2. QED
  BY <1>1, TypeStep, PTL DEF Spec

-----------------------------------------------------------------------------
(* The maps agree, and the active keyboard is listed. Neither needs the      *)
(* events to be timely or truthful: each step keeps both.                    *)

Consistent == MapsAgree /\ ActiveIsListed

\* A connection, over whatever device had the id before.
LEMMA ConnectConsistent ==
  ASSUME TypeOK, Consistent, NEW node \in Nodes, NEW id \in Ids, Connect(node, id)
  PROVE  Consistent'
<1> USE NamesAssumption
<1>1. \A i \in Ids : devices'[i] = IF i = id THEN [node |-> node, fd |-> "open"]
                                   ELSE devices[i]
  BY DEF TypeOK, Connect
<1>2. \A i \in Ids : statuses'[i] = IF i = id THEN node ELSE statuses[i]
  BY DEF TypeOK, Connect
<1>3. Listed' = Listed \cup {id}
  BY <1>1 DEF Listed
<1>4. MapsAgree'
  BY <1>1, <1>2, <1>3 DEF TypeOK, Consistent, MapsAgree, Connect
<1>5. ActiveIsListed'
  <2>1. Listed' # {} /\ active' \in Listed'
    BY <1>3 DEF Consistent, ActiveIsListed, Connect, Listed
  <2>2. QED
    BY <2>1 DEF ActiveIsListed
<1>6. QED
  BY <1>4, <1>5 DEF Consistent

\* The manager's removal of a listed device.
LEMMA RemoveConsistent ==
  ASSUME TypeOK, Consistent, NEW id \in Ids, RemoveListed(id)
  PROVE  Consistent'
<1> USE NamesAssumption
<1>1. \A i \in Ids : devices'[i] = IF i = id THEN Absent ELSE devices[i]
  BY DEF TypeOK, RemoveListed
<1>2. \A i \in Ids : statuses'[i] = IF i = id THEN NoNode ELSE statuses[i]
  BY DEF TypeOK, RemoveListed, Forget
<1>3. Listed' = Listed \ {id}
  BY <1>1 DEF Listed, Absent
<1>4. MapsAgree'
  BY <1>1, <1>2, <1>3 DEF TypeOK, Consistent, MapsAgree, RemoveListed, Forget, Absent
<1>5. id \in Listed
  <2>1. Head(events).node \in Nodes
    BY ReceivedEvent DEF RemoveListed, Event
  <2>2. QED
    BY <2>1 DEF RemoveListed, Listed
<1>6. ActiveIsListed'
  <2>1. CASE active # id
    BY <1>3, <1>5, <2>1 DEF Consistent, ActiveIsListed, RemoveListed
  <2>2. CASE active = id /\ Listed = {id}
    BY <1>3, <2>2 DEF ActiveIsListed, RemoveListed
  <2>3. CASE active = id /\ Listed # {id}
    BY <1>3, <1>5, <2>3 DEF ActiveIsListed, RemoveListed
  <2>4. QED
    BY <2>1, <2>2, <2>3
<1>7. QED
  BY <1>4, <1>6 DEF Consistent

\* A step that keeps the node of every device and the active id lists the same
\* devices.
LEMMA SameListed ==
  ASSUME \A i \in Ids : devices'[i].node = devices[i].node
  PROVE  Listed' = Listed
BY DEF Listed

LEMMA SameNodes ==
  ASSUME TypeOK, NEW n \in Nodes, Unplug(n)
  PROVE  \A i \in Ids : /\ devices'[i].node = devices[i].node
                        /\ devices'[i].fd = "closed" <=> devices[i].fd = "closed"
BY DEF TypeOK, Unplug, Device

LEMMA StepConsistent == TypeOK /\ Consistent /\ [Next]_vars => Consistent'
<1> SUFFICES ASSUME TypeOK, Consistent, [Next]_vars PROVE Consistent'
  OBVIOUS
<1> USE NamesAssumption
<1>1. ASSUME UNCHANGED daemon PROVE Consistent'
  BY <1>1 DEF Consistent, MapsAgree, ActiveIsListed, Listed, daemon
<1>2. ASSUME NEW n \in Nodes, Unplug(n) PROVE Consistent'
  <2>1. UNCHANGED <<active, statuses, probes, slots>>
    BY <1>2 DEF Unplug
  <2>2. Listed' = Listed
    BY <1>2, SameNodes, SameListed
  <2>3. MapsAgree'
    BY <1>2, <2>1, <2>2, SameNodes DEF Consistent, MapsAgree
  <2>4. QED
    BY <2>1, <2>2, <2>3 DEF Consistent, ActiveIsListed
<1>3. ASSUME NEW n \in Nodes, ScanOpens(n) PROVE Consistent'
  <2>1. plugged[n] \in Ids /\ Connect(n, plugged[n])
    BY <1>3 DEF TypeOK, ScanOpens
  <2>2. QED
    BY <2>1, ConnectConsistent
<1>4. CASE AddOpens
  <2>1. Head(events).node \in Nodes /\ Head(events).id \in Ids
    BY <1>4, ReceivedEvent DEF AddOpens, Event
  <2>2. QED
    BY <1>4, <2>1, ConnectConsistent DEF AddOpens
<1>5. ASSUME NEW id \in Ids, PollFails(id) PROVE Consistent'
  <2>1. \A i \in Ids : devices'[i] = IF i = id THEN [devices[i] EXCEPT !.fd = "closed"]
                                     ELSE devices[i]
    BY <1>5 DEF TypeOK, PollFails
  <2>2. \A i \in Ids : statuses'[i] = IF i = id THEN NoNode ELSE statuses[i]
    BY <1>5 DEF TypeOK, PollFails, Forget
  <2>3. \A i \in Ids : /\ devices'[i].node = devices[i].node
                       /\ devices'[i].fd = IF i = id THEN "closed" ELSE devices[i].fd
    BY <2>1 DEF TypeOK, Device
  <2>4. Listed' = Listed
    BY <2>3, SameListed
  <2>5. MapsAgree'
    BY <1>5, <2>2, <2>3, <2>4 DEF TypeOK, Consistent, MapsAgree, PollFails, Forget
  <2>6. QED
    BY <1>5, <2>4, <2>5 DEF Consistent, ActiveIsListed, PollFails
<1>6. ASSUME NEW id \in Ids, ProbeEnds(id) PROVE Consistent'
  BY <1>6 DEF Consistent, MapsAgree, ActiveIsListed, Listed, ProbeEnds
<1>7. ASSUME NEW id \in Ids, SetActiveDevice(id) PROVE Consistent'
  BY <1>7 DEF Consistent, MapsAgree, ActiveIsListed, Listed, SetActiveDevice
<1>8. ASSUME NEW id \in Ids, RemoveListed(id) PROVE Consistent'
  BY <1>8, RemoveConsistent
<1>9. CASE UNCHANGED vars
  BY <1>1, <1>9 DEF vars, daemon
<1>10. CASE World
  BY <1>1, <1>2, <1>10 DEF World, Plug, Missed
<1>11. CASE Scan
  BY <1>1, <1>3, <1>11 DEF Scan, EnableMonitor, Enumerate, ScanDone, ScanSkips
<1>12. CASE HandleUdevEvent
  BY <1>1, <1>4, <1>8, <1>12 DEF HandleUdevEvent, AddFails, RemoveUnknown
<1>13. QED
  BY <1>5, <1>6, <1>7, <1>9, <1>10, <1>11, <1>12 DEF Next, PollDevices

LEMMA ConsistentAlways == Spec => [](TypeOK /\ Consistent)
<1>1. Init => Consistent
  BY DEF Init, Consistent, MapsAgree, ActiveIsListed, Listed, Absent
<1>2. QED
  BY <1>1, TypeCorrect, StepConsistent, PTL DEF Spec

\* The exported objects, the statuses and the open devices are the same ids, and
\* a probe is pending only for one of them.
THEOREM MapsAgreeAlways == Spec => []MapsAgree
BY ConsistentAlways, PTL DEF Consistent

\* There is an active keyboard exactly when one is listed, and it is listed.
THEOREM ActiveIsListedAlways == Spec => []ActiveIsListed
BY ConsistentAlways, PTL DEF Consistent

-----------------------------------------------------------------------------
(* The registry implements ActiveKeyboard. A connection attaches, unless it  *)
(* replaces a device of its id; a removal detaches; SetActiveDevice selects; *)
(* every other step is a stutter, the closing of a device by its own poll    *)
(* included.                                                                 *)

LEMMA ConnectRefines ==
  ASSUME TypeOK, Consistent, NEW node \in Nodes, NEW id \in Ids, Connect(node, id)
  PROVE  Manager!Next \/ UNCHANGED <<Listed, active>>
<1> USE NamesAssumption
<1>1. Listed' = Listed \cup {id}
  BY DEF TypeOK, Connect, Listed
<1>2. CASE id \in Listed
  <2>1. active # NoId
    BY <1>2 DEF Consistent, ActiveIsListed, Listed
  <2>2. UNCHANGED <<Listed, active>>
    BY <1>1, <1>2, <2>1 DEF Connect
  <2>3. QED
    BY <2>2
<1>3. CASE id \notin Listed
  <2>1. Manager!Attach(id)
    BY <1>1, <1>3 DEF Manager!Attach, Connect
  <2>2. QED
    BY <2>1 DEF Manager!Next
<1>4. QED
  BY <1>2, <1>3

LEMMA RemoveRefines ==
  ASSUME TypeOK, Consistent, NEW id \in Ids, RemoveListed(id)
  PROVE  Manager!Next
<1> USE NamesAssumption
<1>1. id \in Listed
  <2>1. Head(events).node \in Nodes
    BY ReceivedEvent DEF RemoveListed, Event
  <2>2. QED
    BY <2>1 DEF RemoveListed, Listed
<1>2. Listed' = Listed \ {id}
  BY DEF TypeOK, RemoveListed, Listed, Absent
<1>3. IF active # id THEN active' = active
      ELSE IF Listed' = {} THEN active' = NoId
      ELSE active' \in Listed'
  BY <1>1, <1>2 DEF RemoveListed
<1>4. Manager!Detach(id)
  BY <1>1, <1>2, <1>3 DEF Manager!Detach
<1>5. QED
  BY <1>4 DEF Manager!Next

LEMMA StepRefines ==
  TypeOK /\ Consistent /\ [Next]_vars => [Manager!Next]_<<Listed, active>>
<1> SUFFICES ASSUME TypeOK, Consistent, [Next]_vars
             PROVE  Manager!Next \/ UNCHANGED <<Listed, active>>
  OBVIOUS
<1> USE NamesAssumption
<1>1. ASSUME UNCHANGED <<devices, active>> PROVE UNCHANGED <<Listed, active>>
  BY <1>1 DEF Listed
<1>2. ASSUME NEW n \in Nodes, Unplug(n) PROVE UNCHANGED <<Listed, active>>
  BY <1>2, SameNodes, SameListed DEF Unplug
<1>3. ASSUME NEW n \in Nodes, ScanOpens(n)
      PROVE  Manager!Next \/ UNCHANGED <<Listed, active>>
  <2>1. plugged[n] \in Ids /\ Connect(n, plugged[n])
    BY <1>3 DEF TypeOK, ScanOpens
  <2>2. QED
    BY <2>1, ConnectRefines
<1>4. CASE AddOpens
  <2>1. Head(events).node \in Nodes /\ Head(events).id \in Ids
    BY <1>4, ReceivedEvent DEF AddOpens, Event
  <2>2. QED
    BY <1>4, <2>1, ConnectRefines DEF AddOpens
<1>5. ASSUME NEW id \in Ids, RemoveListed(id) PROVE Manager!Next
  BY <1>5, RemoveRefines
<1>6. ASSUME NEW id \in Ids, PollFails(id) PROVE UNCHANGED <<Listed, active>>
  <2>1. \A i \in Ids : devices'[i].node = devices[i].node
    BY <1>6 DEF TypeOK, PollFails, Device
  <2>2. QED
    BY <1>6, <2>1, SameListed DEF PollFails
<1>7. ASSUME NEW id \in Ids, ProbeEnds(id) PROVE UNCHANGED <<devices, active>>
  BY <1>7 DEF ProbeEnds
<1>8. ASSUME NEW id \in Ids, SetActiveDevice(id) PROVE Manager!Next
  <2>1. Manager!Select(id)
    BY <1>8 DEF Manager!Select, SetActiveDevice, Listed
  <2>2. QED
    BY <2>1 DEF Manager!Next
<1>9. CASE UNCHANGED vars
  BY <1>1, <1>9 DEF vars
<1>10. CASE World
  BY <1>1, <1>2, <1>10 DEF World, Plug, Missed, daemon
<1>11. CASE Scan
  BY <1>1, <1>3, <1>11 DEF Scan, EnableMonitor, Enumerate, ScanDone, ScanSkips, daemon
<1>12. CASE HandleUdevEvent
  BY <1>1, <1>4, <1>5, <1>12 DEF HandleUdevEvent, AddFails, RemoveUnknown, daemon
<1>13. QED
  BY <1>1, <1>6, <1>7, <1>8, <1>9, <1>10, <1>11, <1>12 DEF Next, PollDevices

\* DeviceManager implements ActiveKeyboard: the active keyboard moves only when a
\* client says so or when it is itself removed, also across the replacement of
\* a device by another of the same id.
THEOREM Implements == Spec => ImplementsActiveKeyboard
<1>1. Init => Manager!Init
  BY DEF Init, Manager!Init, Listed, Absent
<1>2. QED
  BY <1>1, ConsistentAlways, StepRefines, PTL
  DEF Spec, ImplementsActiveKeyboard, Manager!Spec
-----------------------------------------------------------------------------
(* The settled registry. Of each node, the events still queued tell by turns *)
(* of coming and going, and the last one tells how the node is now. The scan *)
(* may have listed already what an event is still to announce, and opening   *)
(* that again at a stale add may put a second keyboard beside a first one    *)
(* that is gone; but then both are still announced, so that each is dropped  *)
(* by a remove of its own.                                                   *)

Unmentioned(s, n) == \A i \in DOMAIN s : s[i].node # n

\* The node's events alternate.
TakesTurns(s, n) ==
  \A i, j \in DOMAIN s :
    i < j /\ s[i].node = n /\ s[j].node = n
      /\ (\A k \in DOMAIN s : i < k /\ k < j => s[k].node # n) =>
    s[i].action # s[j].action

\* The node's last event leaves it with keyboard p.
LeavesWith(e) == IF e.action = "add" THEN e.id ELSE NoId
LastTells(s, n, p) ==
  \/ Unmentioned(s, n)
  \/ \E i \in DOMAIN s :
       s[i].node = n /\ LeavesWith(s[i]) = p /\ \A j \in DOMAIN s : j > i => s[j].node # n

\* The node's first event is an add.
AddIsNext(s, n) ==
  \E i \in DOMAIN s :
    s[i].node = n /\ s[i].action = "add" /\ \A j \in DOMAIN s : j < i => s[j].node # n

\* An add of the keyboard at the node is still to come.
Announced(s, n, id) ==
  \E i \in DOMAIN s : s[i].node = n /\ s[i].action = "add" /\ s[i].id = id

At(n) == {id \in Ids : devices[id].node = n}
OpenAt(n) == [node |-> n, fd |-> "open"]

One(S) == \A i, j \in S : i = j
Two(S) == \A i, j, k \in S : i = j \/ j = k \/ i = k

\* All that is listed at the node is announced.
AllAnnounced(n) == \A i \in At(n) : Announced(events, n, i)

NodeInv(n) ==
  /\ TakesTurns(events, n)
  /\ LastTells(events, n, plugged[n])
  /\ AddIsNext(events, n) => One(At(n)) /\ AllAnnounced(n)
  /\ One(At(n)) \/ (Two(At(n)) /\ AllAnnounced(n))
  /\ Unmentioned(events, n) =>
       IF plugged[n] = NoId THEN At(n) = {} /\ n \notin toScan
       ELSE phase \in {"start", "watch"} \/ n \in toScan \/ devices[plugged[n]] = OpenAt(n)
  /\ Unmentioned(events, n) => \A i \in At(n) : devices[i].fd = "open"
  /\ n \in toScan => At(n) = {}

QueueInv ==
  /\ \A n \in Nodes : NodeInv(n)
  /\ phase \in {"start", "watch"} => Listed = {} /\ toScan = {}
  /\ phase = "run" => toScan = {}
  /\ \A id \in Ids : devices[id].fd = "open" => plugged[devices[id].node] = id
  /\ \A n, m \in Nodes : plugged[n] = plugged[m] /\ plugged[n] # NoId => n = m
  /\ glitches = 0

\* An event of another node changes nothing for this one.
SameFor(n, s, t) ==
  /\ TakesTurns(s, n) => TakesTurns(t, n)
  /\ \A p : LastTells(s, n, p) => LastTells(t, n, p)
  /\ AddIsNext(t, n) => AddIsNext(s, n)
  /\ \A id : Announced(s, n, id) => Announced(t, n, id)
  /\ Unmentioned(t, n) => Unmentioned(s, n)

LEMMA QueuedElsewhere ==
  ASSUME NEW n, NEW s \in Seq(Event), NEW e \in Event, e.node # n
  PROVE  SameFor(n, s, Append(s, e))
<1> DEFINE t == Append(s, e)
<1>1. /\ DOMAIN s = 1..Len(s) /\ DOMAIN t = 1..(Len(s) + 1) /\ Len(s) \in Nat
      /\ \A i \in 1..Len(s) : t[i] = s[i]
      /\ t[Len(s) + 1] = e
  OBVIOUS
<1> HIDE DEF t
<1>2. \A i \in DOMAIN t : t[i].node = n => i \in DOMAIN s /\ t[i] = s[i]
  BY <1>1
<1>3. \A i \in DOMAIN s : i \in DOMAIN t /\ t[i] = s[i]
  BY <1>1
<1>4. TakesTurns(s, n) => TakesTurns(t, n)
  BY <1>2, <1>3 DEF TakesTurns
<1>5. \A p : LastTells(s, n, p) => LastTells(t, n, p)
  BY <1>2, <1>3 DEF LastTells, Unmentioned
<1>6. AddIsNext(t, n) => AddIsNext(s, n)
  BY <1>2, <1>3 DEF AddIsNext
<1>7. Unmentioned(t, n) => Unmentioned(s, n)
  BY <1>2, <1>3 DEF Unmentioned
<1>8. \A id : Announced(s, n, id) => Announced(t, n, id)
  BY <1>3 DEF Announced
<1>9. QED
  BY <1>4, <1>5, <1>6, <1>7, <1>8 DEF SameFor, t

LEMMA TakenElsewhere ==
  ASSUME NEW n, NEW s \in Seq(Event), s # <<>>, Head(s).node # n
  PROVE  SameFor(n, s, Tail(s))
<1> DEFINE t == Tail(s)
<1>1. /\ DOMAIN s = 1..Len(s) /\ DOMAIN t = 1..(Len(s) - 1) /\ Len(s) \in Nat /\ Len(s) > 0
      /\ \A i \in 1..(Len(s) - 1) : t[i] = s[i + 1]
      /\ Head(s) = s[1]
  OBVIOUS
<1> HIDE DEF t
<1>2. \A i \in DOMAIN t : i \in Int /\ i + 1 \in DOMAIN s /\ t[i] = s[i + 1]
  BY <1>1
<1>3. \A i \in DOMAIN s : i \in Int /\ (s[i].node = n => i - 1 \in DOMAIN t /\ t[i - 1] = s[i])
  BY <1>1
<1>4. TakesTurns(s, n) => TakesTurns(t, n)
  <2>1. SUFFICES ASSUME TakesTurns(s, n), NEW i \in DOMAIN t, NEW j \in DOMAIN t, i < j,
                        t[i].node = n, t[j].node = n,
                        \A k \in DOMAIN t : i < k /\ k < j => t[k].node # n
                 PROVE  t[i].action # t[j].action
    BY DEF TakesTurns
  <2>2. i + 1 \in DOMAIN s /\ j + 1 \in DOMAIN s /\ i + 1 < j + 1 /\ t[i] = s[i + 1] /\ t[j] = s[j + 1]
    BY <1>2, <2>1
  <2>3. ASSUME NEW k \in DOMAIN s, i + 1 < k, k < j + 1 PROVE s[k].node # n
    <3>1. SUFFICES ASSUME s[k].node = n PROVE FALSE
      OBVIOUS
    <3>2. k - 1 \in DOMAIN t /\ t[k - 1] = s[k]
      BY <1>3, <3>1
    <3>3. i < k - 1 /\ k - 1 < j
      <4>1. i \in Int /\ j \in Int /\ k \in Int
        BY <1>2, <1>3
      <4>2. QED
        BY <2>3, <4>1
    <3>4. QED
      BY <2>1, <3>1, <3>2, <3>3
  <2>4. QED
    BY <2>1, <2>2, <2>3 DEF TakesTurns
<1>5. \A p : LastTells(s, n, p) => LastTells(t, n, p)
  <2>1. ASSUME NEW p, NEW i \in DOMAIN s, s[i].node = n, LeavesWith(s[i]) = p,
               \A j \in DOMAIN s : j > i => s[j].node # n
        PROVE  LastTells(t, n, p)
    <3>1. i - 1 \in DOMAIN t /\ t[i - 1] = s[i] /\ i \in Int
      BY <1>3, <2>1
    <3>2. ASSUME NEW j \in DOMAIN t, j > i - 1 PROVE t[j].node # n
      <4>1. j + 1 \in DOMAIN s /\ t[j] = s[j + 1] /\ j + 1 > i
        BY <1>2, <3>1, <3>2
      <4>2. QED
        BY <2>1, <4>1
    <3>3. QED
      BY <2>1, <3>1, <3>2 DEF LastTells
  <2>2. Unmentioned(s, n) => Unmentioned(t, n)
    BY <1>2 DEF Unmentioned
  <2>3. QED
    BY <2>1, <2>2 DEF LastTells
<1>6. AddIsNext(t, n) => AddIsNext(s, n)
  <2>1. SUFFICES ASSUME NEW i \in DOMAIN t, t[i].node = n, t[i].action = "add",
                        \A j \in DOMAIN t : j < i => t[j].node # n
                 PROVE  AddIsNext(s, n)
    BY DEF AddIsNext
  <2>2. i + 1 \in DOMAIN s /\ t[i] = s[i + 1]
    BY <1>2
  <2>3. ASSUME NEW j \in DOMAIN s, j < i + 1 PROVE s[j].node # n
    <3>1. SUFFICES ASSUME s[j].node = n PROVE FALSE
      OBVIOUS
    <3>2. j - 1 \in DOMAIN t /\ t[j - 1] = s[j] /\ j - 1 < i
      BY <1>2, <1>3, <2>3, <3>1
    <3>3. QED
      BY <2>1, <3>1, <3>2
  <2>4. QED
    BY <2>1, <2>2, <2>3 DEF AddIsNext
<1>7. Unmentioned(t, n) => Unmentioned(s, n)
  BY <1>3 DEF Unmentioned
<1>8. \A id : Announced(s, n, id) => Announced(t, n, id)
  BY <1>3 DEF Announced
<1>9. QED
  BY <1>4, <1>5, <1>6, <1>7, <1>8 DEF SameFor, t

\* A keyboard that comes to an empty node, or leaves one, queues its event.
LEMMA QueuedHere ==
  ASSUME NEW s \in Seq(Event), NEW e \in Event, NEW p \in Ids \cup {NoId},
         TakesTurns(s, e.node), LastTells(s, e.node, p),
         p = NoId <=> e.action = "add"
  PROVE  /\ TakesTurns(Append(s, e), e.node)
         /\ LastTells(Append(s, e), e.node, LeavesWith(e))
         /\ AddIsNext(Append(s, e), e.node) =>
              AddIsNext(s, e.node) \/ (Unmentioned(s, e.node) /\ e.action = "add")
         /\ \A id : Announced(s, e.node, id) => Announced(Append(s, e), e.node, id)
         /\ ~Unmentioned(Append(s, e), e.node)
<1> DEFINE n == e.node
           t == Append(s, e)
<1>1. /\ DOMAIN s = 1..Len(s) /\ DOMAIN t = 1..(Len(s) + 1) /\ Len(s) \in Nat
      /\ \A i \in 1..Len(s) : t[i] = s[i]
      /\ t[Len(s) + 1] = e
  OBVIOUS
<1>2. TakesTurns(s, n) /\ LastTells(s, n, p) /\ e.node = n /\ \A i \in DOMAIN s : s[i] \in Event
  OBVIOUS
<1> HIDE DEF t, n
<1>3. \A i \in DOMAIN s : i \in DOMAIN t /\ t[i] = s[i] /\ i < Len(s) + 1
  BY <1>1
<1>4. \A i \in DOMAIN t : i \in DOMAIN s \/ i = Len(s) + 1
  BY <1>1
<1>5. Len(s) + 1 \in DOMAIN t
  BY <1>1
<1>6. TakesTurns(t, n)
  <2>1. SUFFICES ASSUME NEW i \in DOMAIN t, NEW j \in DOMAIN t, i < j,
                        t[i].node = n, t[j].node = n,
                        \A k \in DOMAIN t : i < k /\ k < j => t[k].node # n
                 PROVE  t[i].action # t[j].action
    BY DEF TakesTurns
  <2>2. i \in DOMAIN s
    BY <1>1, <2>1
  <2>3. CASE j \in DOMAIN s
    BY <1>2, <1>3, <2>1, <2>2, <2>3 DEF TakesTurns
  <2>4. CASE j = Len(s) + 1
    <3>1. s[i].node = n /\ \A k \in DOMAIN s : k > i => s[k].node # n
      BY <1>3, <2>1, <2>2, <2>4
    <3>2. LeavesWith(s[i]) = p
      <4>1. PICK l \in DOMAIN s : s[l].node = n /\ LeavesWith(s[l]) = p
                                 /\ \A k \in DOMAIN s : k > l => s[k].node # n
        BY <1>2, <2>2, <3>1 DEF LastTells, Unmentioned
      <4>2. i \in Int /\ l \in Int
        BY <1>1, <2>2
      <4>3. i = l
        BY <2>2, <3>1, <4>1, <4>2
      <4>4. QED
        BY <4>1, <4>3
    <3>3. s[i].action = "add" <=> p # NoId
      BY <1>2, <2>2, <3>2, NamesAssumption DEF LeavesWith, Event
    <3>4. s[i].action # e.action
      BY <3>3
    <3>5. QED
      BY <1>1, <1>3, <2>2, <2>4, <3>4
  <2>5. QED
    BY <1>4, <2>3, <2>4
<1>7. LastTells(t, n, LeavesWith(e))
  <2>1. \A j \in DOMAIN t : ~(j > Len(s) + 1)
    BY <1>1
  <2>2. QED
    BY <1>1, <1>2, <1>5, <2>1 DEF LastTells
<1>8. AddIsNext(t, n) => AddIsNext(s, n) \/ (Unmentioned(s, n) /\ e.action = "add")
  <2>1. SUFFICES ASSUME NEW i \in DOMAIN t, t[i].node = n, t[i].action = "add",
                        \A j \in DOMAIN t : j < i => t[j].node # n
                 PROVE  AddIsNext(s, n) \/ (Unmentioned(s, n) /\ e.action = "add")
    BY DEF AddIsNext
  <2>2. CASE i \in DOMAIN s
    BY <1>3, <2>1, <2>2 DEF AddIsNext
  <2>3. CASE i = Len(s) + 1
    BY <1>1, <1>3, <2>1, <2>3 DEF Unmentioned
  <2>4. QED
    BY <1>4, <2>2, <2>3
<1>9. ~Unmentioned(t, n)
  BY <1>1, <1>2, <1>5 DEF Unmentioned
<1>10. \A id : Announced(s, n, id) => Announced(t, n, id)
  BY <1>3 DEF Announced
<1>11. QED
  BY <1>6, <1>7, <1>8, <1>9, <1>10 DEF t, n

LEMMA TakenHere ==
  ASSUME NEW s \in Seq(Event), s # <<>>, NEW p,
         TakesTurns(s, Head(s).node), LastTells(s, Head(s).node, p)
  PROVE  /\ TakesTurns(Tail(s), Head(s).node)
         /\ LastTells(Tail(s), Head(s).node, p)
         /\ Unmentioned(Tail(s), Head(s).node) => LeavesWith(Head(s)) = p
         /\ AddIsNext(s, Head(s).node) <=> Head(s).action = "add"
         /\ AddIsNext(Tail(s), Head(s).node) => Head(s).action # "add"
         /\ \A id : Announced(s, Head(s).node, id) =>
              \/ Announced(Tail(s), Head(s).node, id)
              \/ Head(s).action = "add" /\ Head(s).id = id
         /\ ~Unmentioned(s, Head(s).node)
<1> DEFINE e == Head(s)
           n == e.node
           t == Tail(s)
<1>1. /\ DOMAIN s = 1..Len(s) /\ DOMAIN t = 1..(Len(s) - 1) /\ Len(s) \in Nat /\ Len(s) > 0
      /\ \A i \in 1..(Len(s) - 1) : t[i] = s[i + 1]
      /\ e = s[1]
  OBVIOUS
<1>2. TakesTurns(s, n) /\ LastTells(s, n, p) /\ e.node = n
  OBVIOUS
<1> HIDE DEF t, n, e
<1>3. \A i \in DOMAIN t : i \in Int /\ i + 1 \in DOMAIN s /\ t[i] = s[i + 1]
  BY <1>1
<1>4. \A i \in DOMAIN s : i \in Int /\ i >= 1 /\ (i > 1 => i - 1 \in DOMAIN t /\ t[i - 1] = s[i])
  BY <1>1
<1>5. 1 \in DOMAIN s /\ s[1].node = n
  BY <1>1, <1>2
<1>6. TakesTurns(t, n)
  <2>1. SUFFICES ASSUME NEW i \in DOMAIN t, NEW j \in DOMAIN t, i < j,
                        t[i].node = n, t[j].node = n,
                        \A k \in DOMAIN t : i < k /\ k < j => t[k].node # n
                 PROVE  t[i].action # t[j].action
    BY DEF TakesTurns
  <2>2. i + 1 \in DOMAIN s /\ j + 1 \in DOMAIN s /\ i + 1 < j + 1 /\ t[i] = s[i + 1] /\ t[j] = s[j + 1]
    BY <1>3, <2>1
  <2>3. ASSUME NEW k \in DOMAIN s, i + 1 < k, k < j + 1 PROVE s[k].node # n
    <3>1. i >= 1
      BY <1>1
    <3>2. k - 1 \in DOMAIN t /\ t[k - 1] = s[k] /\ i < k - 1 /\ k - 1 < j
      BY <1>3, <1>4, <2>3, <3>1
    <3>3. QED
      BY <2>1, <3>2
  <2>4. QED
    BY <1>2, <2>1, <2>2, <2>3 DEF TakesTurns
<1>7. LastTells(t, n, p)
  <2>1. PICK l \in DOMAIN s : s[l].node = n /\ LeavesWith(s[l]) = p
                             /\ \A j \in DOMAIN s : j > l => s[j].node # n
    BY <1>2, <1>5 DEF LastTells, Unmentioned
  <2>2. ASSUME NEW j \in DOMAIN t, j > l - 1 PROVE t[j].node # n
    <3>1. j + 1 \in DOMAIN s /\ t[j] = s[j + 1] /\ j + 1 > l
      BY <1>3, <1>4, <2>1, <2>2
    <3>2. QED
      BY <2>1, <3>1
  <2>3. CASE l > 1
    BY <1>4, <2>1, <2>2, <2>3 DEF LastTells
  <2>4. CASE l = 1
    <3>1. \A j \in DOMAIN t : j > l - 1
      BY <1>1, <2>4
    <3>2. QED
      BY <2>2, <3>1 DEF LastTells, Unmentioned
  <2>5. QED
    BY <1>4, <2>3, <2>4
<1>8. Unmentioned(t, n) => LeavesWith(e) = p
  <2>1. SUFFICES ASSUME Unmentioned(t, n) PROVE LeavesWith(e) = p
    OBVIOUS
  <2>2. \A j \in DOMAIN s : j > 1 => s[j].node # n
    BY <1>4, <2>1 DEF Unmentioned
  <2>3. PICK l \in DOMAIN s : s[l].node = n /\ LeavesWith(s[l]) = p
    BY <1>2, <1>5 DEF LastTells, Unmentioned
  <2>4. l = 1
    BY <1>4, <2>2, <2>3
  <2>5. QED
    BY <1>1, <2>3, <2>4
<1>9. AddIsNext(s, n) <=> e.action = "add"
  <2>1. e.action = "add" => AddIsNext(s, n)
    <3>1. \A j \in DOMAIN s : ~(j < 1)
      BY <1>4
    <3>2. QED
      BY <1>1, <1>5, <3>1 DEF AddIsNext
  <2>2. ASSUME NEW i \in DOMAIN s, s[i].node = n, s[i].action = "add",
               \A j \in DOMAIN s : j < i => s[j].node # n
        PROVE  e.action = "add"
    <3>1. i = 1
      BY <1>4, <1>5, <2>2
    <3>2. QED
      BY <1>1, <2>2, <3>1
  <2>3. QED
    BY <2>1, <2>2 DEF AddIsNext
<1>10. AddIsNext(t, n) => e.action # "add"
  <2>1. SUFFICES ASSUME NEW i \in DOMAIN t, t[i].node = n, t[i].action = "add",
                        \A j \in DOMAIN t : j < i => t[j].node # n
                 PROVE  e.action # "add"
    BY DEF AddIsNext
  <2>2. i + 1 \in DOMAIN s /\ t[i] = s[i + 1] /\ 1 < i + 1
    BY <1>1, <1>3
  <2>3. ASSUME NEW k \in DOMAIN s, 1 < k, k < i + 1 PROVE s[k].node # n
    <3>1. k - 1 \in DOMAIN t /\ t[k - 1] = s[k] /\ k - 1 < i
      BY <1>3, <1>4, <2>3
    <3>2. QED
      BY <2>1, <3>1
  <2>4. s[1].action # s[i + 1].action
    BY <1>2, <1>5, <2>1, <2>2, <2>3 DEF TakesTurns
  <2>5. QED
    BY <1>1, <2>1, <2>2, <2>4
<1>11. ~Unmentioned(s, n)
  BY <1>5 DEF Unmentioned
<1>12. ASSUME NEW id, Announced(s, n, id)
       PROVE  Announced(t, n, id) \/ (e.action = "add" /\ e.id = id)
  <2>1. PICK i \in DOMAIN s : s[i].node = n /\ s[i].action = "add" /\ s[i].id = id
    BY <1>12 DEF Announced
  <2>2. CASE i = 1
    BY <1>1, <2>1, <2>2
  <2>3. CASE i > 1
    BY <1>4, <2>1, <2>3 DEF Announced
  <2>4. QED
    BY <1>4, <2>2, <2>3
<1>13. QED
  BY <1>6, <1>7, <1>8, <1>9, <1>10, <1>11, <1>12 DEF t, n, e

\* A keyboard that is at a node whose events are still queued is announced.
LEMMA PresentIsAnnounced ==
  ASSUME NEW s \in Seq(Event), NEW n, NEW p \in Ids, LastTells(s, n, p), ~Unmentioned(s, n)
  PROVE  Announced(s, n, p)
<1>1. PICK i \in DOMAIN s : s[i].node = n /\ LeavesWith(s[i]) = p
  BY DEF LastTells
<1>2. QED
  BY <1>1, NamesAssumption DEF LeavesWith, Announced

\* A node whose next event is an add is one that is mentioned; an announced one too.
LEMMA Mentioned ==
  ASSUME NEW s, NEW n
  PROVE  /\ AddIsNext(s, n) => ~Unmentioned(s, n)
         /\ \A id : Announced(s, n, id) => ~Unmentioned(s, n)
BY DEF AddIsNext, Announced, Unmentioned

\* What NodeInv says of the next state, with its sequences and sets spelled out.
LEMMA NodeNext ==
  ASSUME NEW n \in Nodes,
         TakesTurns(events', n), LastTells(events', n, plugged'[n]),
         AddIsNext(events', n) => One(At(n)') /\ \A i \in At(n)' : Announced(events', n, i),
         One(At(n)') \/ (Two(At(n)') /\ \A i \in At(n)' : Announced(events', n, i)),
         Unmentioned(events', n) =>
           IF plugged'[n] = NoId THEN At(n)' = {} /\ n \notin toScan'
           ELSE phase' \in {"start", "watch"} \/ n \in toScan' \/ devices'[plugged'[n]] = OpenAt(n),
         Unmentioned(events', n) => \A i \in At(n)' : devices'[i].fd = "open",
         n \in toScan' => At(n)' = {}
  PROVE  NodeInv(n)'
BY DEF NodeInv, TakesTurns, LastTells, AddIsNext, Unmentioned, OpenAt, AllAnnounced, Announced,
       One, Two

\* A step that is about another node, or only forgets devices of this one.
LEMMA NodeKept ==
  ASSUME NEW n \in Nodes, NodeInv(n),
         events' = events \/ SameFor(n, events, events'),
         plugged'[n] = plugged[n],
         phase \in {"start", "watch"} => phase' \in {"start", "watch"},
         n \in toScan' <=> n \in toScan,
         \A i \in Ids : devices'[i].node = n =>
           devices[i].node = n /\ (devices[i].fd = "open" => devices'[i].fd = "open"),
         plugged[n] # NoId /\ devices[plugged[n]] = OpenAt(n) =>
           devices'[plugged[n]] = OpenAt(n)
  PROVE  NodeInv(n)'
<1>1. SameFor(n, events, events')
  BY DEF SameFor
<1>2. \A i \in At(n)' : i \in At(n) /\ (devices[i].fd = "open" => devices'[i].fd = "open")
  BY DEF At
<1>3. TakesTurns(events', n) /\ LastTells(events', n, plugged'[n])
  BY <1>1 DEF NodeInv, SameFor
<1>4. /\ One(At(n)) => One(At(n)')
      /\ Two(At(n)) => Two(At(n)')
      /\ AllAnnounced(n) => \A i \in At(n)' : Announced(events', n, i)
  BY <1>1, <1>2 DEF One, Two, AllAnnounced, SameFor
<1>5. AddIsNext(events', n) => One(At(n)') /\ \A i \in At(n)' : Announced(events', n, i)
  BY <1>1, <1>4 DEF NodeInv, SameFor
<1>6. One(At(n)') \/ (Two(At(n)') /\ \A i \in At(n)' : Announced(events', n, i))
  BY <1>4 DEF NodeInv
<1>7. Unmentioned(events', n) =>
        IF plugged'[n] = NoId THEN At(n)' = {} /\ n \notin toScan'
        ELSE phase' \in {"start", "watch"} \/ n \in toScan' \/ devices'[plugged'[n]] = OpenAt(n)
  BY <1>1, <1>2 DEF NodeInv, SameFor
<1>8. Unmentioned(events', n) => \A i \in At(n)' : devices'[i].fd = "open"
  BY <1>1, <1>2 DEF NodeInv, SameFor
<1>9. n \in toScan' => At(n)' = {}
  BY <1>2 DEF NodeInv
<1>10. QED
  BY <1>3, <1>5, <1>6, <1>7, <1>8, <1>9, NodeNext

\* Each event of the world is queued.
LEMMA NotifySettles ==
  ASSUME TypeOK, QueueInv, NEW node \in Nodes, NEW id \in Ids,
         NEW action \in {"add", "remove"}, Notify(action, node, id),
         (plugged[node] = NoId) <=> (action = "add")
  PROVE  /\ \A n \in Nodes \ {node} : SameFor(n, events, events')
         /\ TakesTurns(events', node)
         /\ LastTells(events', node, IF action = "add" THEN id ELSE NoId)
         /\ AddIsNext(events', node) =>
              AddIsNext(events, node) \/ (Unmentioned(events, node) /\ action = "add")
         /\ \A i : Announced(events, node, i) => Announced(events', node, i)
         /\ ~Unmentioned(events', node)
<1> DEFINE e == [action |-> action, node |-> node, id |-> id]
<1>1. events' = Append(events, e) /\ e \in Event /\ events \in Seq(Event)
      /\ e.node = node /\ e.action = action
      /\ LeavesWith(e) = IF action = "add" THEN id ELSE NoId
  BY DEF Notify, Event, TypeOK, LeavesWith
<1>2. plugged[node] \in Ids \cup {NoId}
  BY DEF TypeOK
<1>3. TakesTurns(events, node) /\ LastTells(events, node, plugged[node])
  BY DEF QueueInv, NodeInv
<1> HIDE DEF e
<1>4. \A n \in Nodes \ {node} : SameFor(n, events, events')
  BY <1>1, QueuedElsewhere
<1>5. QED
  BY <1>1, <1>2, <1>3, <1>4, QueuedHere

LEMMA PlugSettles ==
  ASSUME TypeOK, Consistent, UniqueIds, QueueInv, NEW node \in Nodes, NEW id \in Ids, Plug(node, id)
  PROVE  QueueInv'
<1> USE NamesAssumption
<1>1. /\ UNCHANGED <<devices, phase, toScan, glitches>>
      /\ plugged[node] = NoId /\ plugged' = [plugged EXCEPT ![node] = id]
      /\ \A n \in Nodes : plugged[n] # id
      /\ Notify("add", node, id)
  BY DEF Plug, daemon
<1>2. \A n \in Nodes : plugged'[n] = IF n = node THEN id ELSE plugged[n]
  BY <1>1 DEF TypeOK
<1>3. Listed' = Listed /\ \A n \in Nodes : At(n)' = At(n)
  BY <1>1 DEF Listed, At
<1>4. \A i \in Ids : devices[i].fd = "open" => devices[i].node \in Nodes /\ devices[i].node # node
  <2>1. SUFFICES ASSUME NEW i \in Ids, devices[i].fd = "open"
                 PROVE  devices[i].node \in Nodes /\ devices[i].node # node
    OBVIOUS
  <2>2. plugged[devices[i].node] = i
    BY <2>1 DEF QueueInv
  <2>3. i \in Listed
    BY <2>1 DEF Consistent, MapsAgree
  <2>4. QED
    BY <1>1, <2>2, <2>3 DEF Listed, TypeOK, Device
<1>5. /\ \A n \in Nodes \ {node} : SameFor(n, events, events')
      /\ TakesTurns(events', node) /\ LastTells(events', node, id)
      /\ AddIsNext(events', node) => AddIsNext(events, node) \/ Unmentioned(events, node)
      /\ \A i : Announced(events, node, i) => Announced(events', node, i)
      /\ ~Unmentioned(events', node)
  BY <1>1, NotifySettles
<1>6. ASSUME NEW n \in Nodes, n # node PROVE NodeInv(n)'
  BY <1>1, <1>2, <1>5, <1>6, NodeKept DEF QueueInv
<1>7. NodeInv(node)'
  <2>1. NodeInv(node)
    BY DEF QueueInv
  <2>2. Unmentioned(events, node) => At(node) = {}
    BY <1>1, <2>1 DEF NodeInv
  <2>3. AllAnnounced(node) => \A i \in At(node)' : Announced(events', node, i)
    BY <1>3, <1>5 DEF AllAnnounced
  <2>4. At(node) = {} => One(At(node)) /\ AllAnnounced(node)
    BY DEF One, AllAnnounced
  <2>5. AddIsNext(events', node) =>
          One(At(node)') /\ \A i \in At(node)' : Announced(events', node, i)
    BY <1>3, <1>5, <2>1, <2>2, <2>3, <2>4 DEF NodeInv
  <2>6. One(At(node)') \/ (Two(At(node)') /\ \A i \in At(node)' : Announced(events', node, i))
    BY <1>3, <2>1, <2>3 DEF NodeInv
  <2>7. node \in toScan' => At(node)' = {}
    BY <1>1, <1>3, <2>1 DEF NodeInv
  <2>8. plugged'[node] = id
    BY <1>2
  <2>9. QED
    BY <1>5, <2>5, <2>6, <2>7, <2>8, NodeNext
<1>8. \A i \in Ids : devices'[i].fd = "open" => plugged'[devices'[i].node] = i
  BY <1>1, <1>2, <1>4 DEF QueueInv
<1>9. \A n, m \in Nodes : plugged'[n] = plugged'[m] /\ plugged'[n] # NoId => n = m
  BY <1>1, <1>2 DEF QueueInv
<1>10. QED
  BY <1>1, <1>3, <1>6, <1>7, <1>8, <1>9 DEF QueueInv

LEMMA UnplugSettles ==
  ASSUME TypeOK, Consistent, QueueInv, NEW node \in Nodes, Unplug(node)
  PROVE  QueueInv'
<1> USE NamesAssumption
<1> DEFINE id == plugged[node]
<1>1. /\ UNCHANGED <<phase, toScan, glitches>>
      /\ id \in Ids /\ plugged' = [plugged EXCEPT ![node] = NoId]
      /\ Notify("remove", node, id)
  BY DEF Unplug, TypeOK
<1>2. \A n \in Nodes : plugged'[n] = IF n = node THEN NoId ELSE plugged[n]
  BY <1>1 DEF TypeOK
<1>3. \A i \in Ids : /\ devices'[i].node = devices[i].node
                     /\ devices[i].node # node => devices'[i] = devices[i]
                     /\ devices'[i].fd = "open" => devices[i].fd = "open" /\ devices[i].node # node
  BY DEF Unplug, TypeOK, Device
<1>4. Listed' = Listed /\ \A n \in Nodes : At(n)' = At(n)
  BY <1>3 DEF Listed, At
<1>5. \A i \in Ids : devices[i].fd = "open" => devices[i].node \in Nodes
  <2>1. SUFFICES ASSUME NEW i \in Ids, devices[i].fd = "open" PROVE devices[i].node \in Nodes
    OBVIOUS
  <2>2. i \in Listed
    BY <2>1 DEF Consistent, MapsAgree
  <2>3. QED
    BY <2>2 DEF Listed, TypeOK, Device
<1>6. /\ \A n \in Nodes \ {node} : SameFor(n, events, events')
      /\ TakesTurns(events', node) /\ LastTells(events', node, NoId)
      /\ AddIsNext(events', node) => AddIsNext(events, node)
      /\ \A i : Announced(events, node, i) => Announced(events', node, i)
      /\ ~Unmentioned(events', node)
  <2>1. "remove" \in {"add", "remove"} /\ "remove" # "add" /\ (plugged[node] = NoId) = FALSE
    BY <1>1
  <2>2. QED
    BY <1>1, <2>1, NotifySettles
<1> HIDE DEF id
<1>7. ASSUME NEW n \in Nodes, n # node PROVE NodeInv(n)'
  <2>1. \A i \in Ids : devices'[i].node = n =>
          devices[i].node = n /\ (devices[i].fd = "open" => devices'[i].fd = "open")
    BY <1>3, <1>7
  <2>2. plugged[n] # NoId /\ devices[plugged[n]] = OpenAt(n) => devices'[plugged[n]] = OpenAt(n)
    <3>1. plugged[n] # NoId => plugged[n] \in Ids
      BY DEF TypeOK
    <3>2. QED
      BY <1>3, <1>7, <3>1 DEF OpenAt
  <2>3. QED
    BY <1>1, <1>2, <1>6, <1>7, <2>1, <2>2, NodeKept DEF QueueInv
<1>8. NodeInv(node)'
  <2>1. NodeInv(node)
    BY DEF QueueInv
  <2>2. AllAnnounced(node) => \A i \in At(node)' : Announced(events', node, i)
    BY <1>4, <1>6 DEF AllAnnounced
  <2>3. /\ AddIsNext(events', node) =>
             One(At(node)') /\ \A i \in At(node)' : Announced(events', node, i)
        /\ One(At(node)') \/ (Two(At(node)') /\ \A i \in At(node)' : Announced(events', node, i))
    BY <1>4, <1>6, <2>1, <2>2 DEF NodeInv
  <2>4. node \in toScan' => At(node)' = {}
    BY <1>1, <1>4, <2>1 DEF NodeInv
  <2>5. plugged'[node] = NoId
    BY <1>2
  <2>6. QED
    BY <1>6, <2>3, <2>4, <2>5, NodeNext
<1>9. \A i \in Ids : devices'[i].fd = "open" => plugged'[devices'[i].node] = i
  BY <1>1, <1>2, <1>3, <1>5 DEF QueueInv
<1>10. \A n, m \in Nodes : plugged'[n] = plugged'[m] /\ plugged'[n] # NoId => n = m
  BY <1>1, <1>2 DEF QueueInv
<1>11. QED
  BY <1>1, <1>4, <1>7, <1>8, <1>9, <1>10 DEF QueueInv

\* Before the monitor is enabled nothing is listed, and an event may pass unheard.
LEMMA MissedSettles ==
  ASSUME TypeOK, QueueInv, Missed
  PROVE  QueueInv'
<1>1. /\ UNCHANGED <<plugged, devices, phase, toScan, glitches>>
      /\ phase = "start" /\ events # <<>> /\ events' = Tail(events) /\ events \in Seq(Event)
      /\ Listed = {} /\ toScan = {}
  BY DEF Missed, daemon, TypeOK, QueueInv
<1>2. ASSUME NEW n \in Nodes PROVE NodeInv(n)'
  <2>1. NodeInv(n) /\ At(n)' = {}
    <3>1. \A i \in Ids : devices[i].node # n
      BY <1>1, NamesAssumption DEF Listed
    <3>2. QED
      BY <1>1, <3>1 DEF QueueInv, At
  <2>2. TakesTurns(events', n) /\ LastTells(events', n, plugged[n])
    <3>1. CASE Head(events).node = n
      BY <1>1, <2>1, <3>1, TakenHere DEF NodeInv
    <3>2. CASE Head(events).node # n
      BY <1>1, <2>1, <3>2, TakenElsewhere DEF NodeInv, SameFor
    <3>3. QED
      BY <3>1, <3>2
  <2>3. One(At(n)') /\ \A i \in At(n)' : FALSE
    BY <2>1 DEF One
  <2>4. QED
    BY <1>1, <2>1, <2>2, <2>3, NodeNext
<1>3. Listed' = Listed
  BY <1>1 DEF Listed
<1>4. QED
  BY <1>1, <1>2, <1>3 DEF QueueInv

\* A keyboard is opened on its node: by the scan, where nothing is listed yet, or when its
\* add is taken.
LEMMA ConnectSettles ==
  ASSUME TypeOK, Consistent, QueueInv, NEW node \in Nodes, NEW id \in Ids, Connect(node, id),
         plugged[node] = id, plugged' = plugged, phase' = phase, phase \notin {"start", "watch"},
         glitches' = glitches, events' \in Seq(Event),
         One(At(node)), \A i \in At(node) : i = id \/ Announced(events', node, i),
         TakesTurns(events', node), LastTells(events', node, id),
         AddIsNext(events', node) => At(node) = {},
         events' = events \/ \A n \in Nodes \ {node} : SameFor(n, events, events'),
         toScan' = toScan \ {node}
  PROVE  QueueInv'
<1> USE NamesAssumption
<1>1. /\ devices'[id] = OpenAt(node)
      /\ \A i \in Ids : i # id => devices'[i] = devices[i]
  BY DEF Connect, TypeOK, OpenAt
<1>2. ASSUME NEW n \in Nodes, n # node PROVE NodeInv(n)'
  <2>1. NodeInv(n) /\ (events' = events \/ SameFor(n, events, events'))
    BY <1>2 DEF QueueInv
  <2>2. plugged[n] # id
    BY <1>2 DEF QueueInv
  <2>3. plugged[n] # NoId => plugged[n] \in Ids
    BY DEF TypeOK
  <2>4. \A i \in Ids : devices'[i].node = n => i # id
    BY <1>1, <1>2 DEF OpenAt
  <2>5. QED
    BY <1>1, <1>2, <2>1, <2>2, <2>3, <2>4, NodeKept
<1>3. NodeInv(node)'
  <2>1. At(node)' = At(node) \cup {id}
    BY <1>1 DEF At, OpenAt
  <2>2. node \notin toScan' /\ plugged'[node] = id /\ id # NoId
    OBVIOUS
  <2>3. devices'[id].fd = "open" /\ devices'[plugged'[node]] = OpenAt(node)
    BY <1>1, <2>2 DEF OpenAt
  <2>4. Two(At(node)')
    BY <2>1 DEF One, Two
  <2>5. ~Unmentioned(events', node) => \A i \in At(node)' : Announced(events', node, i)
    BY <2>1, PresentIsAnnounced
  <2>6. Unmentioned(events', node) => At(node)' = {id}
    BY <2>1, Mentioned
  <2>7. One({id})
    BY DEF One
  <2>8. AddIsNext(events', node) => One(At(node)') /\ \A i \in At(node)' : Announced(events', node, i)
    BY <2>1, <2>5, <2>7, Mentioned
  <2>9. One(At(node)') \/ (Two(At(node)') /\ \A i \in At(node)' : Announced(events', node, i))
    BY <2>4, <2>5, <2>6, <2>7
  <2>10. Unmentioned(events', node) => \A i \in At(node)' : devices'[i].fd = "open"
    BY <2>3, <2>6
  <2>11. QED
    BY <2>2, <2>3, <2>8, <2>9, <2>10, NodeNext
<1>4. \A i \in Ids : devices'[i].fd = "open" => plugged'[devices'[i].node] = i
  BY <1>1 DEF QueueInv, OpenAt
<1>5. QED
  BY <1>2, <1>3, <1>4 DEF QueueInv

LEMMA ScanSettles ==
  ASSUME TypeOK, Consistent, QueueInv, Scan
  PROVE  QueueInv'
<1> USE NamesAssumption
<1>1. CASE EnableMonitor
  <2>1. /\ UNCHANGED <<plugged, events, devices, toScan, glitches>>
        /\ phase = "start" /\ phase' = "watch" /\ Listed = {} /\ toScan = {}
    BY <1>1 DEF EnableMonitor, world, daemon, QueueInv
  <2>2. ASSUME NEW n \in Nodes PROVE NodeInv(n)'
    BY <2>1, NodeKept DEF QueueInv
  <2>3. Listed' = Listed
    BY <2>1 DEF Listed
  <2>4. QED
    BY <2>1, <2>2, <2>3 DEF QueueInv
<1>2. CASE Enumerate
  <2>1. /\ UNCHANGED <<plugged, events, devices, glitches>>
        /\ Listed = {} /\ toScan = {} /\ phase' = "scan"
        /\ toScan' = {n \in Nodes : plugged[n] # NoId}
    BY <1>2 DEF Enumerate, world, daemon, QueueInv
  <2>2. ASSUME NEW n \in Nodes PROVE NodeInv(n)'
    <3>1. NodeInv(n) /\ At(n)' = {}
      BY <2>1 DEF At, Listed, QueueInv
    <3>2. n \in toScan' <=> plugged'[n] # NoId
      BY <2>1
    <3>3. TakesTurns(events', n) /\ LastTells(events', n, plugged'[n])
      BY <2>1, <3>1 DEF NodeInv
    <3>4. One(At(n)') /\ \A i \in At(n)' : FALSE
      BY <3>1 DEF One
    <3>5. QED
      BY <3>1, <3>2, <3>3, <3>4, NodeNext
  <2>3. QED
    BY <2>1, <2>2 DEF QueueInv
<1>3. CASE ScanDone
  <2>1. /\ UNCHANGED <<plugged, events, devices, glitches, toScan>>
        /\ phase = "scan" /\ phase' = "run" /\ toScan = {}
    BY <1>3 DEF ScanDone, world, daemon
  <2>2. ASSUME NEW n \in Nodes PROVE NodeInv(n)'
    BY <2>1, NodeKept DEF QueueInv
  <2>3. QED
    BY <2>1, <2>2 DEF QueueInv
<1>4. ASSUME NEW node \in Nodes, ScanOpens(node) PROVE QueueInv'
  <2>1. /\ plugged[node] \in Ids /\ Connect(node, plugged[node])
        /\ phase = "scan" /\ node \in toScan /\ toScan' = toScan \ {node}
        /\ UNCHANGED <<plugged, events, phase, glitches>>
    BY <1>4 DEF ScanOpens, world, TypeOK
  <2>2. /\ At(node) = {} /\ One(At(node))
        /\ TakesTurns(events, node) /\ LastTells(events, node, plugged[node])
    BY <2>1 DEF QueueInv, NodeInv, One
  <2>3. events' \in Seq(Event) /\ TakesTurns(events', node) /\ LastTells(events', node, plugged[node])
    BY <2>1, <2>2 DEF TypeOK
  <2>4. QED
    BY <2>1, <2>2, <2>3, ConnectSettles
<1>5. ASSUME NEW node \in Nodes, ScanSkips(node) PROVE QueueInv'
  <2>1. /\ plugged[node] = NoId /\ toScan' = toScan \ {node} /\ phase = "scan"
        /\ UNCHANGED <<plugged, events, devices, phase, glitches>>
    BY <1>5 DEF ScanSkips, world, daemon, Glitch, QueueInv
  <2>2. ASSUME NEW n \in Nodes, n # node PROVE NodeInv(n)'
    BY <2>1, <2>2, NodeKept DEF QueueInv
  <2>3. NodeInv(node)'
    <3>1. NodeInv(node) /\ At(node)' = At(node)
      BY <2>1 DEF QueueInv, At
    <3>2. AllAnnounced(node) => \A i \in At(node)' : Announced(events', node, i)
      BY <2>1, <3>1 DEF AllAnnounced
    <3>3. /\ TakesTurns(events', node) /\ LastTells(events', node, plugged'[node])
          /\ AddIsNext(events', node) =>
               One(At(node)') /\ \A i \in At(node)' : Announced(events', node, i)
          /\ One(At(node)') \/ (Two(At(node)') /\ \A i \in At(node)' : Announced(events', node, i))
      BY <2>1, <3>1, <3>2 DEF NodeInv
    <3>4. Unmentioned(events', node) => At(node)' = {}
      BY <2>1, <3>1 DEF NodeInv
    <3>5. QED
      BY <2>1, <3>3, <3>4, NodeNext
  <2>4. QED
    BY <2>1, <2>2, <2>3 DEF QueueInv
<1>6. QED
  BY <1>1, <1>2, <1>3, <1>4, <1>5 DEF Scan

\* A remove is taken: a keyboard at its node is dropped, if there is one.
LEMMA RemoveSettles ==
  ASSUME TypeOK, Consistent, QueueInv, NEW n \in Nodes,
         phase = "run", UNCHANGED <<plugged, phase, toScan, glitches>>,
         TakesTurns(events', n), LastTells(events', n, plugged[n]),
         Unmentioned(events', n) => plugged[n] = NoId,
         \A i : Announced(events, n, i) => Announced(events', n, i),
         \A m \in Nodes \ {n} : SameFor(m, events, events'),
         \A i \in Ids : devices'[i] = devices[i] \/ (devices[i].node = n /\ devices'[i] = Absent),
         One(At(n)) => At(n)' = {},
         Two(At(n)) => One(At(n)')
  PROVE  QueueInv'
<1> USE NamesAssumption
<1>1. \A i \in Ids : \A m \in Nodes : devices'[i].node = m => devices'[i] = devices[i]
  BY DEF Absent
<1>2. ASSUME NEW m \in Nodes, m # n PROVE NodeInv(m)'
  <2>1. plugged[m] # NoId /\ devices[plugged[m]] = OpenAt(m) => devices'[plugged[m]] = OpenAt(m)
    <3>1. plugged[m] # NoId => plugged[m] \in Ids
      BY DEF TypeOK
    <3>2. QED
      BY <1>2, <3>1 DEF OpenAt
  <2>2. NodeInv(m)
    BY DEF QueueInv
  <2>3. \A i \in Ids : devices'[i].node = m =>
          devices[i].node = m /\ (devices[i].fd = "open" => devices'[i].fd = "open")
    BY <1>1
  <2>4. QED
    BY <1>2, <2>1, <2>2, <2>3, NodeKept
<1>3. NodeInv(n)'
  <2>1. NodeInv(n) /\ At(n)' \subseteq At(n)
    BY <1>1 DEF QueueInv, At
  <2>2. At(n)' = {} \/ (One(At(n)') /\ \A i \in At(n)' : Announced(events', n, i))
    BY <2>1 DEF NodeInv, AllAnnounced
  <2>3. One({})
    BY DEF One
  <2>4. One(At(n)') /\ \A i \in At(n)' : Announced(events', n, i)
    BY <2>2, <2>3
  <2>5. Unmentioned(events', n) => At(n)' = {}
    BY <2>4, Mentioned
  <2>6. n \notin toScan'
    BY DEF QueueInv
  <2>7. QED
    BY <2>4, <2>5, <2>6, NodeNext
<1>4. \A i \in Ids : devices'[i].fd = "open" => plugged'[devices'[i].node] = i
  BY DEF QueueInv, Absent
<1>5. QED
  BY <1>2, <1>3, <1>4 DEF QueueInv

\* An event is taken: what it says of its node is checked against the queue.
LEMMA UdevSettles ==
  ASSUME TypeOK, Consistent, QueueInv, HandleUdevEvent
  PROVE  QueueInv'
<1> USE NamesAssumption
<1>1. /\ phase = "run" /\ events # <<>> /\ events' = Tail(events) /\ events \in Seq(Event)
      /\ toScan = {} /\ events' \in Seq(Event)
      /\ UNCHANGED <<plugged, phase, toScan>>
  BY DEF HandleUdevEvent, AddOpens, AddFails, RemoveUnknown, RemoveListed, Received, TypeOK,
         QueueInv
<1>2. PICK e \in Event, n \in Nodes : e = Head(events) /\ n = e.node
  <2>1. Head(events) \in Event
    BY <1>1
  <2>2. QED
    BY <2>1 DEF Event
<1>3. NodeInv(n)
  BY <1>1 DEF QueueInv
<1>4. /\ TakesTurns(events', n) /\ LastTells(events', n, plugged[n])
      /\ Unmentioned(events', n) => LeavesWith(e) = plugged[n]
      /\ AddIsNext(events, n) <=> e.action = "add"
      /\ AddIsNext(events', n) => e.action # "add"
      /\ \A id : Announced(events, n, id) =>
           Announced(events', n, id) \/ (e.action = "add" /\ e.id = id)
  BY <1>2, <1>1, <1>3, TakenHere DEF NodeInv
<1>5. \A m \in Nodes \ {n} : SameFor(m, events, events')
  BY <1>2, <1>1, TakenElsewhere
<1>6. e.id \in Ids
  BY DEF Event
<1>7. CASE AddOpens
  <2>1. /\ Connect(n, e.id) /\ plugged[n] = e.id /\ e.action = "add" /\ glitches' = glitches
    BY <1>2, <1>7 DEF AddOpens, CanOpen, Received
  <2>2. One(At(n)) /\ \A i \in At(n) : i = e.id \/ Announced(events', n, i)
    BY <1>3, <1>4, <2>1 DEF NodeInv, AllAnnounced
  <2>3. toScan' = toScan \ {n} /\ ~AddIsNext(events', n)
    BY <1>1, <1>4, <2>1
  <2>4. QED
    BY <1>1, <1>4, <1>5, <1>6, <2>1, <2>2, <2>3, ConnectSettles
<1>8. CASE AddFails
  <2>1. /\ UNCHANGED <<devices, glitches>> /\ plugged[n] # e.id /\ e.action = "add"
    BY <1>2, <1>8 DEF AddFails, CanOpen, Received, Glitch, daemon, QueueInv
  <2>2. ASSUME NEW m \in Nodes, m # n PROVE NodeInv(m)'
    BY <1>1, <1>5, <2>1, <2>2, NodeKept DEF QueueInv
  <2>3. ~Unmentioned(events', n) /\ ~AddIsNext(events', n)
    BY <1>4, <2>1 DEF LeavesWith
  <2>4. At(n)' = At(n) /\ One(At(n))
    BY <1>3, <1>4, <2>1 DEF At, NodeInv
  <2>5. NodeInv(n)'
    BY <1>1, <1>4, <2>3, <2>4, NodeNext
  <2>6. Listed' = Listed
    BY <2>1 DEF Listed
  <2>7. QED
    BY <1>1, <2>1, <2>2, <2>5, <2>6 DEF QueueInv
<1>9. CASE RemoveUnknown
  <2>1. /\ UNCHANGED <<devices, glitches>> /\ e.action = "remove"
        /\ \A i \in Ids : devices[i].node # n
    BY <1>2, <1>9 DEF RemoveUnknown, Received, daemon
  <2>2. At(n) = {} /\ At(n)' = {} /\ One(At(n)')
    BY <2>1 DEF At, One
  <2>3. QED
    BY <1>1, <1>4, <1>5, <2>1, <2>2, RemoveSettles DEF LeavesWith
<1>10. ASSUME NEW id \in Ids, RemoveListed(id) PROVE QueueInv'
  <2>1. devices' = [devices EXCEPT ![id] = Absent] /\ devices[id].node = n
        /\ e.action = "remove" /\ glitches' = glitches
    BY <1>2, <1>10 DEF RemoveListed, Received
  <2>2. At(n)' = At(n) \ {id} /\ id \in At(n)
    BY <2>1 DEF At, Absent, TypeOK
  <2>3. One(At(n)) => At(n)' = {}
    BY <2>2 DEF One
  <2>4. Two(At(n)) => One(At(n)')
    BY <2>2 DEF One, Two
  <2>5. \A i \in Ids : devices'[i] = devices[i] \/ (devices[i].node = n /\ devices'[i] = Absent)
    BY <2>1 DEF TypeOK
  <2>6. Unmentioned(events', n) => plugged[n] = NoId
    BY <1>4, <2>1 DEF LeavesWith
  <2>7. \A i : Announced(events, n, i) => Announced(events', n, i)
    BY <1>4, <2>1
  <2>8. QED
    BY <1>1, <1>4, <1>5, <2>1, <2>3, <2>4, <2>5, <2>6, <2>7, RemoveSettles
<1>11. QED
  BY <1>7, <1>8, <1>9, <1>10 DEF HandleUdevEvent

LEMMA PollSettles ==
  ASSUME TypeOK, Consistent, QueueInv, NEW id \in Ids, PollFails(id)
  PROVE  QueueInv'
<1>1. /\ UNCHANGED <<plugged, events, phase, toScan, glitches>>
      /\ devices[id].fd = "hung" /\ devices' = [devices EXCEPT ![id].fd = "closed"]
  BY DEF PollFails, world, Glitch, QueueInv
<1>2. \A i \in Ids : /\ devices'[i].node = devices[i].node
                     /\ devices[i].fd = "open" => devices'[i] = devices[i]
                     /\ devices'[i].fd = "open" => devices[i].fd = "open"
  BY <1>1 DEF TypeOK, Device
<1>3. ASSUME NEW n \in Nodes PROVE NodeInv(n)'
  <2>1. plugged[n] # NoId => plugged[n] \in Ids
    BY DEF TypeOK
  <2>2. plugged[n] # NoId /\ devices[plugged[n]] = OpenAt(n) => devices'[plugged[n]] = OpenAt(n)
    BY <1>2, <2>1 DEF OpenAt
  <2>3. QED
    BY <1>1, <1>2, <2>2, NodeKept DEF QueueInv
<1>4. Listed' = Listed
  BY <1>2, SameListed
<1>5. QED
  BY <1>1, <1>2, <1>3, <1>4 DEF QueueInv

LEMMA QueueStep ==
  ASSUME TypeOK, Consistent, UniqueIds, QueueInv, [Next]_vars
  PROVE  QueueInv'
<1>1. ASSUME UNCHANGED <<plugged, events, phase, toScan, devices, glitches>> PROVE QueueInv'
  <2>1. ASSUME NEW n \in Nodes PROVE NodeInv(n)'
    BY <1>1, NodeKept DEF QueueInv
  <2>2. QED
    BY <1>1, <2>1 DEF QueueInv, Listed
<1>2. CASE UNCHANGED vars
  BY <1>1, <1>2 DEF vars
<1>3. CASE World
  BY <1>3, MissedSettles, PlugSettles, UnplugSettles DEF World
<1>4. CASE Scan
  BY <1>4, ScanSettles
<1>5. CASE HandleUdevEvent
  BY <1>5, UdevSettles
<1>6. CASE PollDevices
  BY <1>6, PollSettles DEF PollDevices
<1>7. ASSUME NEW id \in Ids, ProbeEnds(id) \/ SetActiveDevice(id) PROVE QueueInv'
  BY <1>1, <1>7 DEF ProbeEnds, SetActiveDevice, world
<1>8. QED
  BY <1>2, <1>3, <1>4, <1>5, <1>6, <1>7 DEF Next

\* When no two keyboards show the same id and opens and reads fail only because the
\* keyboard is gone: once every event and hang-up is handled, the exported keyboards are
\* those plugged in, each open on its own node, and the active one is among them,
\* whatever the order of scan, events and hang-ups was (init, handleUdevEvent).
THEOREM SettledAlways ==
  ASSUME UniqueIds, Glitches = 0
  PROVE  Spec => []SettledServesPlugged
<1>1. Init => QueueInv
  <2>1. SUFFICES ASSUME Init PROVE QueueInv
    OBVIOUS
  <2>2. /\ events = <<>> /\ phase = "start" /\ toScan = {} /\ glitches = 0
        /\ \A id \in Ids : devices[id] = Absent
        /\ \A n \in Nodes : plugged[n] = NoId
    BY <2>1 DEF Init
  <2>3. Listed = {} /\ \A n \in Nodes : At(n) = {}
    BY <2>2, NamesAssumption DEF Listed, At, Absent
  <2>4. \A n \in Nodes : NodeInv(n)
    BY <2>2, <2>3
    DEF NodeInv, TakesTurns, LastTells, AddIsNext, Unmentioned, One, AllAnnounced
  <2>5. QED
    BY <2>2, <2>3, <2>4 DEF QueueInv, Absent
<1>2. TypeOK /\ Consistent /\ QueueInv /\ [Next]_vars => QueueInv'
  BY QueueStep
<1>3. TypeOK /\ Consistent /\ QueueInv => SettledServesPlugged
  <2>1. SUFFICES ASSUME TypeOK, Consistent, QueueInv, Settled
                 PROVE  /\ \A n \in Nodes, id \in Ids :
                             plugged[n] = id <=> devices[id] = OpenAt(n)
                        /\ slots # {} => active \in slots
    BY DEF SettledServesPlugged, OpenAt
  <2>2. \A n \in Nodes : NodeInv(n) /\ Unmentioned(events, n) /\ n \notin toScan
                       /\ phase \notin {"start", "watch"}
    BY <2>1 DEF QueueInv, Settled, Unmentioned
  <2>3. ASSUME NEW n \in Nodes, NEW id \in Ids
        PROVE  plugged[n] = id <=> devices[id] = OpenAt(n)
    BY <2>1, <2>2, NamesAssumption DEF NodeInv, QueueInv, OpenAt
  <2>4. Listed = slots
    <3>1. ASSUME NEW id \in Listed PROVE devices[id].fd = "open"
      <4>1. devices[id].node \in Nodes /\ id \in At(devices[id].node)
        BY <2>1 DEF Listed, TypeOK, Device, At
      <4>2. QED
        BY <2>2, <4>1 DEF NodeInv
    <3>2. QED
      BY <2>1, <3>1 DEF Consistent, MapsAgree, Listed
  <2>5. QED
    BY <2>1, <2>3, <2>4 DEF Consistent, ActiveIsListed
<1>4. QED
  BY <1>1, <1>2, <1>3, ConsistentAlways, PTL DEF Spec
-----------------------------------------------------------------------------
(* Signals. A step emits at most two, and a client that follows them knows *)
(* the exported objects.                                                   *)

LEMMA FollowedSignals ==
  ASSUME NEW known, NEW signals, NEW n \in 0..2, Len(signals) = n
  PROVE  Followed(known, signals) =
           IF n = 0 THEN known
           ELSE IF n = 1 THEN Follow(known, signals[1])
           ELSE Follow(Follow(known, signals[1]), signals[2])
<1> DEFINE Step(f) == [i \in 0..n |-> IF i = 0 THEN known ELSE Follow(f[i - 1], signals[i])]
           after == CHOOSE f : f = Step(f)
           w == [i \in 0..n |-> IF i = 0 THEN known
                                ELSE IF i = 1 THEN Follow(known, signals[1])
                                ELSE Follow(Follow(known, signals[1]), signals[2])]
<1>1. Followed(known, signals) = after[n]
  BY DEF Followed
<1>2. w = Step(w)
  <2>1. ASSUME NEW i \in 0..n
        PROVE  w[i] = IF i = 0 THEN known ELSE Follow(w[i - 1], signals[i])
    <3>1. CASE i = 0
      BY <3>1
    <3>2. CASE i = 1
      BY <3>2
    <3>3. CASE i = 2
      BY <3>3
    <3>4. QED
      BY <3>1, <3>2, <3>3
  <2> HIDE DEF w
  <2>2. w = [i \in 0..n |-> w[i]]
    BY DEF w
  <2>3. QED
    BY <2>1, <2>2
<1>3. \E f : f = Step(f)
  BY <1>2
<1>4. after = Step(after)
  BY <1>3
<1> HIDE DEF after
<1>5. \A i \in 0..n : after[i] = IF i = 0 THEN known ELSE Follow(after[i - 1], signals[i])
  BY <1>4
<1>6. after[0] = known
  BY <1>5
<1>7. n >= 1 => after[1] = Follow(known, signals[1])
  BY <1>5, <1>6
<1>8. n = 2 => after[2] = Follow(Follow(known, signals[1]), signals[2])
  BY <1>5, <1>7
<1>9. QED
  BY <1>1, <1>6, <1>7, <1>8

LEMMA EmptyThenOne == \A a : <<>> \o <<a>> = <<a>>
<1> TAKE a
<1>1. <<a>> \in Seq({a})
  OBVIOUS
<1>2. QED
  BY <1>1, ConcatEmptySeq

LEMMA OneThenOne == \A a, b : <<a>> \o <<b>> = <<a, b>>
<1> TAKE a, b
<1> DEFINE s == <<a>>
           t == <<b>>
<1>1. /\ s \in Seq({a, b}) /\ Len(s) = 1 /\ s[1] = a
      /\ t \in Seq({a, b}) /\ Len(t) = 1 /\ t[1] = b
  OBVIOUS
<1> HIDE DEF s, t
<1> DEFINE c == s \o t
           u == <<a, b>>
<1>2. c \in Seq({a, b}) /\ Len(c) = Len(s) + Len(t)
  BY <1>1, ConcatProperties
<1>3. \A i \in 1..(Len(s) + Len(t)) :
        c[i] = IF i <= Len(s) THEN s[i] ELSE t[i - Len(s)]
  BY <1>1, ConcatProperties
<1> HIDE DEF c
<1>4. Len(c) = 2 /\ c[1] = a /\ c[2] = b
  BY <1>1, <1>2, <1>3
<1>5. u \in Seq({a, b}) /\ Len(u) = 2 /\ u[1] = a /\ u[2] = b
  OBVIOUS
<1> HIDE DEF u
<1>6. c = u
  <2>1. \A i \in 1..Len(c) : c[i] = u[i]
    BY <1>4, <1>5
  <2>2. QED
    BY <2>1, <1>2, <1>4, <1>5, SeqEqual
<1>7. QED
  BY <1>6 DEF c, s, t, u

\* No signal, one, or two of them in turn.
LEMMA FollowedNone == \A known : Followed(known, <<>>) = known
<1> TAKE known
<1>1. Len(<<>>) = 0 /\ 0 \in 0..2
  OBVIOUS
<1>2. QED
  BY <1>1, FollowedSignals

LEMMA FollowedOne == \A known, a : Followed(known, <<a>>) = Follow(known, a)
<1> TAKE known, a
<1> DEFINE s == <<a>>
<1>1. Len(s) = 1 /\ s[1] = a
  OBVIOUS
<1> HIDE DEF s
<1>2. Followed(known, s) = Follow(known, s[1])
  BY <1>1, FollowedSignals
<1>3. QED
  BY <1>1, <1>2 DEF s

LEMMA FollowedTwo ==
  \A known, a, b : Followed(known, <<a, b>>) = Follow(Follow(known, a), b)
<1> TAKE known, a, b
<1> DEFINE s == <<a, b>>
<1>1. Len(s) = 2 /\ s[1] = a /\ s[2] = b
  OBVIOUS
<1> HIDE DEF s
<1>2. Followed(known, s) = Follow(Follow(known, s[1]), s[2])
  BY <1>1, FollowedSignals
<1>3. QED
  BY <1>1, <1>2 DEF s

\* What each signal tells a client that knows the objects it is about.
LEMMA FollowedKinds ==
  \A known, id :
    /\ id \notin known => Follow(known, Signal("Added", id)) = known \cup {id}
    /\ id \in known => Follow(known, Signal("Removed", id)) = known \ {id}
    /\ Follow(known, Signal("Active", id)) = known
BY DEF Follow, Signal

LEMMA ConnectTells ==
  ASSUME NEW node, NEW id, Connect(node, id)
  PROVE  Followed(slots, emitted') = slots'
<1> DEFINE added == Signal("Added", id)
           removed == Signal("Removed", id)
<1>1. slots' = slots \cup {id}
  BY DEF Connect
<1>2. CASE id \in slots
  <2>1. emitted' = <<removed>> \o <<added>>
    BY <1>2 DEF Connect
  <2> HIDE DEF added, removed
  <2>2. emitted' = <<removed, added>>
    BY <2>1, OneThenOne
  <2>3. Followed(slots, <<removed, added>>) = Follow(Follow(slots, removed), added)
    BY FollowedTwo
  <2>4. Follow(slots, removed) = slots \ {id}
    BY <1>2, FollowedKinds DEF removed
  <2>5. Follow(slots \ {id}, added) = (slots \ {id}) \cup {id}
    BY FollowedKinds DEF added
  <2>6. QED
    BY <1>1, <1>2, <2>2, <2>3, <2>4, <2>5
<1>3. CASE id \notin slots
  <2>1. emitted' = <<>> \o <<added>>
    BY <1>3 DEF Connect
  <2> HIDE DEF added
  <2>2. emitted' = <<added>>
    BY <2>1, EmptyThenOne
  <2>3. Followed(slots, <<added>>) = Follow(slots, added)
    BY FollowedOne
  <2>4. Follow(slots, added) = slots \cup {id}
    BY <1>3, FollowedKinds DEF added
  <2>5. QED
    BY <1>1, <2>2, <2>3, <2>4
<1>4. QED
  BY <1>2, <1>3

\* The objects of a device are unregistered once, whether another becomes the active
\* one or not.
LEMMA ForgetTells ==
  ASSUME NEW id, Forget(id),
         \/ emitted' = RemovedSignal(id)
         \/ \E other : emitted' = RemovedSignal(id) \o <<Signal("Active", other)>>
  PROVE  Followed(slots, emitted') = slots'
<1> DEFINE removed == Signal("Removed", id)
<1>1. slots' = slots \ {id}
  BY DEF Forget
<1>2. Followed(slots, RemovedSignal(id)) = slots'
  <2>1. CASE id \in slots
    <3>1. RemovedSignal(id) = <<removed>>
      BY <2>1 DEF RemovedSignal
    <3>2. Follow(slots, removed) = slots \ {id}
      BY <2>1, FollowedKinds
    <3> HIDE DEF removed
    <3>3. Followed(slots, <<removed>>) = Follow(slots, removed)
      BY FollowedOne
    <3>4. QED
      BY <1>1, <3>1, <3>2, <3>3
  <2>2. CASE id \notin slots
    <3>1. RemovedSignal(id) = <<>>
      BY <2>2 DEF RemovedSignal
    <3>2. Followed(slots, <<>>) = slots
      BY FollowedNone
    <3>3. QED
      BY <1>1, <2>2, <3>1, <3>2
  <2>3. QED
    BY <2>1, <2>2
<1>3. ASSUME NEW other, emitted' = RemovedSignal(id) \o <<Signal("Active", other)>>
      PROVE  Followed(slots, emitted') = slots'
  <2> DEFINE chosen == Signal("Active", other)
  <2>1. \A known : Follow(known, chosen) = known
    BY FollowedKinds
  <2>2. emitted' = RemovedSignal(id) \o <<chosen>>
    BY <1>3
  <2> HIDE DEF chosen
  <2>3. CASE id \in slots
    <3>1. RemovedSignal(id) = <<removed>>
      BY <2>3 DEF RemovedSignal
    <3>2. Follow(slots, removed) = slots \ {id}
      BY <2>3, FollowedKinds
    <3> HIDE DEF removed
    <3>3. emitted' = <<removed, chosen>>
      BY <2>2, <3>1, OneThenOne
    <3>4. Followed(slots, <<removed, chosen>>) = Follow(Follow(slots, removed), chosen)
      BY FollowedTwo
    <3>5. QED
      BY <1>1, <2>1, <3>2, <3>3, <3>4
  <2>4. CASE id \notin slots
    <3>1. RemovedSignal(id) = <<>>
      BY <2>4 DEF RemovedSignal
    <3>2. emitted' = <<chosen>>
      BY <2>2, <3>1, EmptyThenOne
    <3>3. Followed(slots, <<chosen>>) = Follow(slots, chosen)
      BY FollowedOne
    <3>4. QED
      BY <1>1, <2>1, <2>4, <3>2, <3>3
  <2>5. QED
    BY <2>3, <2>4
<1>4. QED
  BY <1>2, <1>3

LEMMA NextTells ==
  ASSUME Next
  PROVE  Followed(slots, emitted') = slots'
<1>1. ASSUME emitted' = <<>>, slots' = slots PROVE Followed(slots, emitted') = slots'
  <2>1. Followed(slots, <<>>) = slots
    BY FollowedNone
  <2>2. QED
    BY <1>1, <2>1
<1>2. CASE World
  BY <1>1, <1>2 DEF World, Plug, Unplug, Missed, daemon
<1>3. CASE Scan
  <2>1. ASSUME NEW n \in Nodes, ScanOpens(n) PROVE Followed(slots, emitted') = slots'
    BY <2>1, ConnectTells DEF ScanOpens
  <2>2. QED
    BY <1>1, <1>3, <2>1 DEF Scan, EnableMonitor, Enumerate, ScanDone, ScanSkips, daemon
<1>4. CASE HandleUdevEvent
  <2>1. CASE AddOpens
    BY <2>1, ConnectTells DEF AddOpens
  <2>2. CASE AddFails \/ RemoveUnknown
    BY <1>1, <2>2 DEF AddFails, RemoveUnknown, daemon
  <2>3. ASSUME NEW id \in Ids, RemoveListed(id) PROVE Followed(slots, emitted') = slots'
    <3>1. /\ Forget(id)
          /\ \/ emitted' = RemovedSignal(id)
             \/ \E other : emitted' = RemovedSignal(id) \o <<Signal("Active", other)>>
      BY <2>3 DEF RemoveListed
    <3>2. QED
      BY <3>1, ForgetTells
  <2>4. QED
    BY <1>4, <2>1, <2>2, <2>3 DEF HandleUdevEvent
<1>5. ASSUME NEW id \in Ids, PollFails(id) PROVE Followed(slots, emitted') = slots'
  BY <1>5, ForgetTells DEF PollFails
<1>6. ASSUME NEW id \in Ids, ProbeEnds(id) PROVE Followed(slots, emitted') = slots'
  BY <1>1, <1>6 DEF ProbeEnds
<1>7. ASSUME NEW id \in Ids, SetActiveDevice(id) PROVE Followed(slots, emitted') = slots'
  <2>1. slots' = slots /\ (emitted' = <<>> \/ emitted' = <<Signal("Active", id)>>)
    BY <1>7 DEF SetActiveDevice
  <2>2. Followed(slots, <<>>) = slots
    BY FollowedNone
  <2>3. Followed(slots, <<Signal("Active", id)>>) = Follow(slots, Signal("Active", id))
    BY FollowedOne
  <2>4. Follow(slots, Signal("Active", id)) = slots
    BY FollowedKinds
  <2>5. QED
    BY <2>1, <2>2, <2>3, <2>4
<1>8. QED
  BY <1>2, <1>3, <1>4, <1>5, <1>6, <1>7 DEF Next, PollDevices

\* A client that follows DeviceAdded and DeviceRemoved knows exactly the exported
\* objects, and sees none added or removed twice in a row, whatever else happens
\* (registerDevice, unregisterDevice).
THEOREM SignalsTellAlways == Spec => SignalsTellObjects
<1>1. [Next]_vars => [Followed(slots, emitted') = slots']_vars
  BY NextTells
<1>2. QED
  BY <1>1, PTL DEF Spec, SignalsTellObjects
=============================================================================
