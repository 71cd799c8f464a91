---------------------------- MODULE MCCacheStore ----------------------------
(* Instances of CacheStore for TLC. *)
EXTENDS CacheStore, TLC

CONSTANTS b1, b2, l1, l2

TwoBuilds == {b1, b2}
TwoLists == {l1, l2}

\* A keymap is saved when its layers are known; updates then add its lists.
LayersOnly == {{}}

AllFaults == FaultKinds

\* Bound on the temporary files that are there at a time, under way or left behind.
MaxLeftovers == 1
FewLeftovers == Cardinality({b \in Builds : tmps[b] # NoFile}) <= MaxLeftovers

\* Nothing tells the lists apart.
SameLists == Permutations(TwoLists)
=============================================================================
