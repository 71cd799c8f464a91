--------------------------- MODULE MCVoyagerSync ---------------------------
(* Instances of VoyagerSync for TLC. *)
EXTENDS VoyagerSync, FiniteSets, TLC

CONSTANTS old, new

TwoLayers == {0, 1}
TwoLayouts == {old, new}

Acts(plug, change, key, stop, crash, calls, publish, disk) ==
  [plug |-> plug, change |-> change, key |-> key, stop |-> stop, crash |-> crash,
   call |-> calls, publish |-> publish, disk |-> disk]

\* Nothing tells the layouts apart.
SameLayouts == Permutations(TwoLayouts)

SafetyBudget == Acts(1, 1, 0, 0, 1, 1, 1, 1)

\* Bound on how many of the acts of a budget come together: any three of the six.
MaxActs == 3
FewActs == Cardinality({k \in BudgetKinds : left[k] < Budget[k]}) <= MaxActs

LiveBudget == Acts(1, 0, 1, 1, 1, 1, 0, 0)
============================================================================
