-------------------------- MODULE MCKeymapRestart --------------------------
(* Instances of KeymapRestart for TLC. *)
EXTENDS KeymapRestart, TLC

CONSTANTS b1, b2

TwoBuilds == {b1, b2}
OneAndTwoLayers == b1 :> 1 @@ b2 :> 2
Nothing == {}

RestartBudget == [plug |-> 2, flash |-> 0, loss |-> 0, disk |-> 0,
                  event |-> 0, request |-> 1]
=============================================================================
