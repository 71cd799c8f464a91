---------------------------- MODULE MCKeymapSync ----------------------------
(* Instances of KeymapSync for TLC: two builds of one and two layers. *)
EXTENDS KeymapSync, TLC

CONSTANTS b1, b2

TwoBuilds == {b1, b2}
OneAndTwoLayers == b1 :> 1 @@ b2 :> 2
Nothing == {}
Probed == {"CurrentLayer", "Summary"}

Acts(plug, flash, loss, disk, event, request) ==
  [plug |-> plug, flash |-> flash, loss |-> loss, disk |-> disk,
   event |-> event, request |-> request]

ReliableBudget == Acts(2, 1, 0, 0, 1, 1)
LossyBudget == Acts(2, 1, 2, 1, 0, 1)
LiveBudget == Acts(2, 1, 2, 0, 1, 0)
RefreshBudget == Acts(1, 0, 0, 0, 0, 2)
=============================================================================
