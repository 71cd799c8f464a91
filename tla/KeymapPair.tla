----------------------------- MODULE KeymapPair -----------------------------
(***************************************************************************)
(* Two keyboards of one model on one daemon. Their serial numbers give     *)
(* them an id each, and so a status, a keymap, a probe and a link each;    *)
(* but one model has one name, and the keymap files are named after the    *)
(* name and the build. So all they share is the cache: each pre-loads,     *)
(* loads, writes and removes files that are the other's too.               *)
(*                                                                         *)
(* Each keyboard is a KeymapSync over the common files. It is instantiated *)
(* through KeymapSettled_proofs, which extends it, so that what is proved  *)
(* of a step of one keyboard there can be cited for A and for B.           *)
(***************************************************************************)
EXTENDS Integers, Sequences, FiniteSets

CONSTANTS
  Builds, NoBuild, MaxLayers, LayerCount, Keys, Sensors, MaxRetries, Losable,
  BudgetA, BudgetB  \* KeymapSync's Budget, for each keyboard

VARIABLES
  cache,  \* the files, of either keyboard
  fwA, linkedA, statusA, kmA, probeA, toKbdA, toHostA, signalA, leftA,
  fwB, linkedB, statusB, kmB, probeB, toKbdB, toHostB, signalB, leftB

ownA == <<fwA, linkedA, statusA, kmA, probeA, toKbdA, toHostA, signalA, leftA>>
ownB == <<fwB, linkedB, statusB, kmB, probeB, toKbdB, toHostB, signalB, leftB>>
vars == <<cache, ownA, ownB>>

A == INSTANCE KeymapSettled_proofs WITH
       fw <- fwA, linked <- linkedA, status <- statusA, km <- kmA, probe <- probeA,
       toKbd <- toKbdA, toHost <- toHostA, signal <- signalA, left <- leftA,
       Budget <- BudgetA

B == INSTANCE KeymapSettled_proofs WITH
       fw <- fwB, linked <- linkedB, status <- statusB, km <- kmB, probe <- probeB,
       toKbd <- toKbdB, toHost <- toHostB, signal <- signalB, left <- leftB,
       Budget <- BudgetB

ASSUME PairAssumption ==
  /\ NoBuild \notin Builds
  /\ MaxLayers \in Nat \ {0} /\ Keys \in Nat \ {0} /\ Sensors \in Nat
  /\ LayerCount \in [Builds -> 1..MaxLayers]
  /\ MaxRetries \in Nat \ {0}
  /\ Losable \subseteq A!QueryKinds
  /\ BudgetA \in [A!BudgetKinds -> Nat] /\ BudgetB \in [A!BudgetKinds -> Nat]

-----------------------------------------------------------------------------
Init == A!Init /\ B!Init

\* One thread serves both: a callback, a timer or a method is about one keyboard.
StepA == A!Next /\ UNCHANGED ownB
StepB == B!Next /\ UNCHANGED ownA

Next == StepA \/ StepB

Spec == Init /\ [][Next]_vars

-----------------------------------------------------------------------------
(* Properties *)

\* Whatever the other one loads, writes and removes meanwhile, a keyboard with nothing
\* in flight and its probe timer off is served its own keymap: not the one onConnect
\* pre-loaded from the other's file, and not what two discoveries have left between
\* them (onConnect, onSummary, onLayerInfo).
BothSettle == A!SettledIsSynced /\ B!SettledIsSynced

\* Two discoveries under way at once, of two builds or of one, leave only whole keymaps
\* in the files that both of them write (onLayerInfo, save, update_bindings).
PairFilesWhole == A!FilesWhole

\* A keyboard whose status has come to its own build leaves the file of the other's
\* build alone: only a step of the other keyboard or a client who clears the cache
\* changes it. Before, the status may show the other's build from the pre-load, and a
\* refresh removes the other's file (onConnect, refresh_keymap).
OthersFileKept ==
  [][fwA # fwB =>
       /\ statusA.buildId = fwA /\ cache'[fwB] # cache[fwB] => ~StepA \/ A!ClearCache
       /\ statusB.buildId = fwB /\ cache'[fwA] # cache[fwA] => ~StepB \/ B!ClearCache]_vars

=============================================================================
