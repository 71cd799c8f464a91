------------------------- MODULE KeymapPair_proofs -------------------------
(***************************************************************************)
(* Proofs about KeymapPair for any builds, budgets and losses: the files   *)
(* stay whole, each keyboard settles at its own keymap, and spares the     *)
(* other's file once its status shows its own build. A step of one         *)
(* keyboard keeps that keyboard's invariants by the lemmas on KeymapSync,  *)
(* and of the other's changes only the files, of which those invariants    *)
(* say no more than the first keyboard's do.                               *)
(***************************************************************************)
EXTENDS KeymapPair, TLAPS

PairInv == A!TypeOK /\ A!FilesInv /\ B!TypeOK /\ B!FilesInv
PairSync == A!SyncInv /\ B!SyncInv

LEMMA Assumed ==
  /\ A!BuildsAssumption /\ A!SizesAssumption /\ A!BoundsAssumption
  /\ B!BuildsAssumption /\ B!SizesAssumption /\ B!BoundsAssumption
BY PairAssumption DEF A!BuildsAssumption, A!SizesAssumption, A!BoundsAssumption,
   B!BuildsAssumption, B!SizesAssumption, B!BoundsAssumption, A!QueryKinds, B!QueryKinds,
   A!BudgetKinds, B!BudgetKinds

\* Both keyboards mean the same by a well-typed set of files and by whole files.
SameFiles(c) ==
  /\ c \in [Builds -> A!Keymap] <=> c \in [Builds -> B!Keymap]
  /\ A!AllWhole(c) <=> B!AllWhole(c)

LEMMA CommonFiles ==
  ASSUME NEW c
  PROVE  SameFiles(c)
<1>1. A!Keymap = B!Keymap
  BY DEF A!Keymap, B!Keymap, A!Maybe, B!Maybe, A!Idx, B!Idx, A!Pos, B!Pos, A!SenIdx,
     B!SenIdx
<1>2. \A k, b : A!Whole(k, b) <=> B!Whole(k, b)
  BY DEF A!Whole, B!Whole, A!Idx, B!Idx
<1>3. QED
  BY <1>1, <1>2 DEF SameFiles, A!AllWhole, B!AllWhole

\* A keyboard that makes no step keeps its invariants if the files stay well typed and
\* whole.
LEMMA RestA ==
  ASSUME A!TypeOK, A!FilesInv, UNCHANGED ownA,
         cache' \in [Builds -> A!Keymap], A!AllWhole(cache')
  PROVE  A!TypeOK' /\ A!FilesInv'
<1>1. A!TypeOK'
  BY DEF ownA, A!TypeOK
<1>2. A!FilesWhole'
  BY DEF A!AllWhole, A!FilesWhole
<1>3. QED
  BY <1>1, <1>2 DEF ownA, A!FilesInv, A!PartOfOneBuild, A!HeaderOfBuild, A!LinkSound,
     A!LoadedIsWhole, A!SoundQueries, A!SoundReports, A!Discovering, A!Whole

LEMMA RestB ==
  ASSUME B!TypeOK, B!FilesInv, UNCHANGED ownB,
         cache' \in [Builds -> B!Keymap], B!AllWhole(cache')
  PROVE  B!TypeOK' /\ B!FilesInv'
<1>1. B!TypeOK'
  BY DEF ownB, B!TypeOK
<1>2. B!FilesWhole'
  BY DEF B!AllWhole, B!FilesWhole
<1>3. QED
  BY <1>1, <1>2 DEF ownB, B!FilesInv, B!PartOfOneBuild, B!HeaderOfBuild, B!LinkSound,
     B!LoadedIsWhole, B!SoundQueries, B!SoundReports, B!Discovering, B!Whole

LEMMA StepPair ==
  ASSUME PairInv, [Next]_vars
  PROVE  PairInv'
<1>1. CASE StepA
  <2>1. A!TypeOK' /\ A!FilesInv'
    BY <1>1, Assumed, A!StepTypes, A!StepFiles DEF PairInv, StepA
  <2>2. cache' \in [Builds -> A!Keymap] /\ A!AllWhole(cache')
    BY <2>1 DEF A!TypeOK, A!FilesInv, A!FilesWhole, A!AllWhole
  <2>3. cache' \in [Builds -> B!Keymap] /\ B!AllWhole(cache')
    BY <2>2, CommonFiles DEF SameFiles
  <2>4. QED
    BY <1>1, <2>1, <2>3, RestB DEF PairInv, StepA
<1>2. CASE StepB
  <2>1. B!TypeOK' /\ B!FilesInv'
    BY <1>2, Assumed, B!StepTypes, B!StepFiles DEF PairInv, StepB
  <2>2. cache' \in [Builds -> B!Keymap] /\ B!AllWhole(cache')
    BY <2>1 DEF B!TypeOK, B!FilesInv, B!FilesWhole, B!AllWhole
  <2>3. cache' \in [Builds -> A!Keymap] /\ A!AllWhole(cache')
    BY <2>2, CommonFiles DEF SameFiles
  <2>4. QED
    BY <1>2, <2>1, <2>3, RestA DEF PairInv, StepB
<1>3. CASE UNCHANGED vars
  <2>1. cache' = cache /\ UNCHANGED ownA /\ UNCHANGED ownB
    BY <1>3 DEF vars
  <2>2. /\ cache' \in [Builds -> A!Keymap] /\ A!AllWhole(cache')
        /\ cache' \in [Builds -> B!Keymap] /\ B!AllWhole(cache')
    BY <2>1 DEF PairInv, A!TypeOK, A!FilesInv, A!FilesWhole, A!AllWhole,
       B!TypeOK, B!FilesInv, B!FilesWhole, B!AllWhole
  <2>3. QED
    BY <2>1, <2>2, RestA, RestB DEF PairInv
<1>4. QED
  BY <1>1, <1>2, <1>3 DEF Next

LEMMA PairInvAlways == Spec => []PairInv
<1>1. Init => PairInv
  BY Assumed, A!InitTypes, A!InitFiles, B!InitTypes, B!InitFiles DEF Init, PairInv
<1>2. PairInv /\ [Next]_vars => PairInv'
  BY StepPair
<1>3. QED
  BY <1>1, <1>2, PTL DEF Spec

\* With two keyboards discovered, refreshed and fetched at once, every file still holds
\* the complete layers of the build it is named after.
THEOREM PairFilesWholeAlways == Spec => []PairFilesWhole
<1>1. PairInv => PairFilesWhole
  BY DEF PairInv, PairFilesWhole, A!FilesInv
<1>2. QED
  BY <1>1, PairInvAlways, PTL

-----------------------------------------------------------------------------
(* Both settle *)

LEMMA StepPairSync ==
  ASSUME Losable \cap {"Summary", "LayerInfo"} = {}, PairInv, PairInv', PairSync,
         [Next]_vars
  PROVE  PairSync'
<1>1. UNCHANGED ownA => A!SyncInv'
  BY DEF ownA, PairSync, A!SyncInv, A!Pending, A!Synced, A!SyncedTo, A!Flying,
     A!AskedLayersExist, A!CountKnown
<1>2. UNCHANGED ownB => B!SyncInv'
  BY DEF ownB, PairSync, B!SyncInv, B!Pending, B!Synced, B!SyncedTo, B!Flying,
     B!AskedLayersExist, B!CountKnown
<1>3. CASE StepA
  <2>1. A!SyncInv'
    BY <1>3, Assumed, A!StepSync DEF PairInv, PairSync, StepA, A!SyncKinds
  <2>2. QED
    BY <1>2, <1>3, <2>1 DEF PairSync, StepA
<1>4. CASE StepB
  <2>1. B!SyncInv'
    BY <1>4, Assumed, B!StepSync DEF PairInv, PairSync, StepB, B!SyncKinds
  <2>2. QED
    BY <1>1, <1>4, <2>1 DEF PairSync, StepB
<1>5. CASE UNCHANGED vars
  BY <1>1, <1>2, <1>5 DEF PairSync, vars
<1>6. QED
  BY <1>3, <1>4, <1>5 DEF Next

\* As long as neither link loses a summary or a layer of the discovery, each of the two
\* ends at its own keymap, although both pre-load, load, overwrite and remove files of
\* one name.
THEOREM BothSettleAlways ==
  ASSUME Losable \cap {"Summary", "LayerInfo"} = {}
  PROVE  Spec => []BothSettle
<1>1. Init => PairSync
  BY Assumed, A!InitSync, B!InitSync DEF Init, PairSync
<1>2. PairInv /\ PairInv' /\ PairSync /\ [Next]_vars => PairSync'
  BY StepPairSync
<1>3. PairSync => BothSettle
  BY Assumed, A!SyncSettles, B!SyncSettles DEF PairSync, BothSettle
<1>4. QED
  BY <1>1, <1>2, <1>3, PairInvAlways, PTL DEF Spec

-----------------------------------------------------------------------------
(* The other's file *)

\* A keyboard whose status shows its own build spares the file of the other's.
THEOREM OthersFileKeptAlways == Spec => OthersFileKept
<1> DEFINE Kept ==
      fwA # fwB =>
        /\ statusA.buildId = fwA /\ cache'[fwB] # cache[fwB] => ~StepA \/ A!ClearCache
        /\ statusB.buildId = fwB /\ cache'[fwA] # cache[fwA] => ~StepB \/ B!ClearCache
<1>1. PairInv => Kept
  <2>1. SUFFICES ASSUME PairInv, fwA # fwB PROVE Kept
    OBVIOUS
  <2>2. fwA \in Builds /\ fwB \in Builds
    BY <2>1 DEF PairInv, A!TypeOK, B!TypeOK
  <2>3. ASSUME statusA.buildId = fwA, cache'[fwB] # cache[fwB], StepA
        PROVE  A!ClearCache
    BY <2>1, <2>2, <2>3, Assumed, A!OthersKept DEF PairInv, StepA
  <2>4. ASSUME statusB.buildId = fwB, cache'[fwA] # cache[fwA], StepB
        PROVE  B!ClearCache
    BY <2>1, <2>2, <2>4, Assumed, B!OthersKept DEF PairInv, StepB
  <2>5. QED
    BY <2>3, <2>4
<1>2. PairInv /\ [Next]_vars => [Kept]_vars
  BY <1>1
<1>3. QED
  BY <1>2, PairInvAlways, PTL DEF Spec, OthersFileKept
=============================================================================
