--------------------------- MODULE ActiveKeyboard ---------------------------
(***************************************************************************)
(* What DeviceManager promises the rest of the daemon and its clients: a   *)
(* set of listed keyboards and one active keyboard among them, if there is *)
(* any. The first keyboard becomes active, a client may choose another,    *)
(* and a choice stands until the chosen keyboard is gone.                  *)
(***************************************************************************)
CONSTANTS Ids, NoId

VARIABLES listed, active

Init == listed = {} /\ active = NoId

Attach(id) ==
  /\ id \notin listed
  /\ listed' = listed \cup {id}
  /\ active' = IF active = NoId THEN id ELSE active

Detach(id) ==
  /\ id \in listed
  /\ listed' = listed \ {id}
  /\ IF active # id THEN active' = active
     ELSE IF listed' = {} THEN active' = NoId
     ELSE active' \in listed'

Select(id) ==
  /\ id \in listed
  /\ active' = id
  /\ UNCHANGED listed

Next == \E id \in Ids : Attach(id) \/ Detach(id) \/ Select(id)

Spec == Init /\ [][Next]_<<listed, active>>
=============================================================================
