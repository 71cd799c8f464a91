---------------------------- MODULE KeymapStore ----------------------------
(***************************************************************************)
(* What the rest of the daemon takes KeymapCache for: a store with one     *)
(* keymap for each build, whose operations happen at once or not at all,   *)
(* and say which. A load that is refused looks as if nothing were stored.  *)
(* A keymap is the set of binding lists it holds.                          *)
(***************************************************************************)
CONSTANTS
  Builds, Lists,
  ReadsFail      \* TRUE when a load may be refused

VARIABLES
  store,   \* the keymap of each build
  op,      \* the operation under way
  result   \* what it gives back

vars == <<store, op, result>>

Keymaps == SUBSET Lists
Kinds == {"none", "load", "save", "update", "remove", "clear"}
Ops == [kind : Kinds, build : Builds, data : Keymaps]
NoOp == [kind |-> "none", build |-> CHOOSE b \in Builds : TRUE, data |-> {}]

NoFile == [state |-> "none", data |-> {}]
Whole(k) == [state |-> "whole", data |-> k]

Pending == [done |-> FALSE, ok |-> FALSE, found |-> NoFile]
Done(ok) == [done |-> TRUE, ok |-> ok, found |-> NoFile]
Found(file) == [done |-> TRUE, ok |-> file # NoFile, found |-> file]

Init ==
  /\ store = [b \in Builds |-> NoFile]
  /\ op = NoOp
  /\ result = Pending

Request ==
  /\ op.kind = "none"
  /\ op' \in Ops
  /\ UNCHANGED <<store, result>>

Doing(kind) == op.kind = kind /\ ~result.done /\ op' = op

Load == Doing("load") /\ result' = Found(store[op.build]) /\ store' = store

Save == Doing("save") /\ result' = Done(TRUE) /\ store' = [store EXCEPT ![op.build] = Whole(op.data)]

Update ==
  /\ Doing("update")
  /\ store[op.build] # NoFile
  /\ result' = Done(TRUE)
  /\ store' = [store EXCEPT ![op.build] = Whole(@.data \cup op.data)]

Remove == Doing("remove") /\ result' = Done(TRUE) /\ store' = [store EXCEPT ![op.build] = NoFile]

ClearOne(b) == Doing("clear") /\ store' = [store EXCEPT ![b] = NoFile] /\ result' = result

Cleared ==
  /\ Doing("clear")
  /\ \A b \in Builds : store[b] = NoFile
  /\ result' = Done(TRUE) /\ store' = store

Refuse ==
  /\ op.kind # "none" /\ ~result.done
  /\ op.kind = "load" => ReadsFail
  /\ result' = Done(FALSE)
  /\ UNCHANGED <<store, op>>

\* The caller has its result, or is gone before it had one.
Return ==
  /\ op.kind # "none"
  /\ op' = NoOp
  /\ result' = Pending
  /\ store' = store

Next ==
  \/ Request \/ Return
  \/ Load \/ Save \/ Update \/ Remove \/ Cleared \/ Refuse
  \/ \E b \in Builds : ClearOne(b)

Spec == Init /\ [][Next]_vars
=============================================================================
