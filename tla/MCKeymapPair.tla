---------------------------- MODULE MCKeymapPair ----------------------------
(* An instance of KeymapPair for TLC: two builds of one layer, and one request, to A. *)
EXTENDS KeymapPair, TLC

CONSTANTS b1, b2

TwoBuilds == {b1, b2}
OneLayer == b1 :> 1 @@ b2 :> 1
Symmetric == Permutations(TwoBuilds)
Nothing == {}

Requests(n) ==
  [plug |-> 1, flash |-> 0, loss |-> 0, disk |-> 0, event |-> 0, request |-> n]

NoRequest == Requests(0)
OneRequest == Requests(1)

\* Bounds on what is on a link at a time: the connection's two queries, and two more for
\* A, which gets the request, one more for B.
MaxInFlightA == 4
MaxInFlightB == 3

FewInFlight ==
  /\ Len(toKbdA) + Len(toHostA) <= MaxInFlightA
  /\ Len(toKbdB) + Len(toHostB) <= MaxInFlightB
=============================================================================
