-------------------------- MODULE CacheStore_proofs --------------------------
(***************************************************************************)
(* Proofs about CacheStore, for any set of builds and binding lists: the   *)
(* types, that only saved keymaps are loaded and that updates lose         *)
(* nothing, whatever fails; and that the cache implements KeymapStore      *)
(* until a text is written short, power is lost or the directory cannot be *)
(* read.                                                                   *)
(***************************************************************************)
EXTENDS CacheStore, TLAPS

\* The empty job and the possible files have their types.
LEMMA JobTypes ==
  /\ NoJob \in Jobs
  /\ {} \in Keymaps
  /\ NoFile \in Content /\ Torn \in Content
  /\ \A k \in Keymaps : Whole(k) \in Content
BY BuildsAssumption DEF NoJob, Jobs, Kinds, Keymaps, NoFile, Torn, Whole, Content

Results == [done : BOOLEAN, ok : BOOLEAN, found : Content]

\* A result has its type.
LEMMA ResultTypes ==
  /\ Pending \in Results
  /\ \A ok \in BOOLEAN : Done(ok) \in Results
BY JobTypes DEF Pending, Done, Results

\* Giving back success or failure.
LEMMA GiveTypes ==
  ASSUME NEW ok \in BOOLEAN, Give(Done(ok))
  PROVE  pc' = "done" /\ ret' \in Results
BY ResultTypes DEF Give, Goto

\* An operation that ends leaves its variables as it found them.
LEMMA EndedTypes ==
  ASSUME Ended
  PROVE  /\ pc' = "idle" /\ job' \in Jobs /\ buf' \in Keymaps
         /\ todo' \subseteq Builds /\ success' \in BOOLEAN
         /\ ret' \in Results
BY JobTypes, ResultTypes DEF Ended, Goto

\* An update ends at a keymap it cannot load, or takes the keymap the file holds.
LEMMA UpdateCases ==
  ASSUME Update
  PROVE  /\ pc = "update" /\ UNCHANGED <<files, tmps, unsynced, job, todo, success, intact>>
         /\ \/ Give(Done(FALSE)) /\ UNCHANGED <<buf, saved>>
            \/ /\ files[job.build].state # "torn" /\ files[job.build] # NoFile
               /\ pc' = "open" /\ ret' = ret
               /\ buf' = files[job.build].data \cup job.data
               /\ saved' = [saved EXCEPT ![job.build] = @ \cup {buf'}]
<1>1. PICK found \in Reads(job.build) :
        IF found = NoFile
        THEN Give(Done(FALSE)) /\ UNCHANGED <<buf, saved>>
        ELSE /\ Goto("open") /\ ret' = ret
             /\ buf' = found.data \cup job.data
             /\ saved' = [saved EXCEPT ![job.build] = @ \cup {buf'}]
  BY DEF Update
<1>2. found = NoFile \/ (found = files[job.build] /\ files[job.build].state # "torn")
  BY DEF Reads, Loaded
<1>3. QED
  BY <1>1, <1>2 DEF Update, At, Goto

\* A file is unlinked.
LEMMA UnlinkTypes ==
  ASSUME TypeOK, NEW b \in Builds, Unlink(b)
  PROVE  /\ files' = [files EXCEPT ![b] = NoFile] /\ unsynced' \subseteq Builds
         /\ files' \in [Builds -> Content]
         /\ \A c \in Builds : files'[c] \in {files[c], NoFile}
BY JobTypes DEF Unlink, TypeOK

LEMMA BeginTypes ==
  ASSUME TypeOK, NEW kind \in Kinds \ {"none"}, NEW b \in Builds, NEW data \in Keymaps,
         Begin(kind, b, data)
  PROVE  TypeOK'
<1>1. job' \in Jobs
  BY DEF Begin, Jobs
<1>2. pc' \in {"open", "load", "update", "remove", "clear"}
  BY DEF Begin, Goto, Kinds
<1>3. saved' \in [Builds -> SUBSET Keymaps]
  BY DEF Begin, TypeOK
<1>4. todo' \subseteq Builds /\ success' \in BOOLEAN /\ buf' \in Keymaps
  BY DEF Begin
<1>5. QED
  BY <1>1, <1>2, <1>3, <1>4 DEF Begin, TypeOK

LEMMA CallTypes ==
  ASSUME TypeOK, Calls
  PROVE  TypeOK'
<1>1. (\A l \in Lists : {l} \in Keymaps) /\ Saves \subseteq Keymaps
  BY SavesAssumption DEF Keymaps
<1>2. NoJob.build \in Builds
  BY JobTypes DEF Jobs
<1>3. QED
  BY <1>1, <1>2, BeginTypes, JobTypes DEF Calls, Kinds

LEMMA SaveTypes ==
  ASSUME TypeOK, SaveSteps
  PROVE  TypeOK'
<1>1. job.build \in Builds /\ job.data \in Keymaps
  BY DEF TypeOK, Jobs
<1>2. CASE Update
  <2>1. CASE Give(Done(FALSE)) /\ UNCHANGED <<buf, saved>>
    BY <1>2, <2>1, GiveTypes, UpdateCases DEF TypeOK, Results
  <2>2. CASE /\ pc' = "open" /\ ret' = ret
             /\ buf' = files[job.build].data \cup job.data
             /\ saved' = [saved EXCEPT ![job.build] = @ \cup {buf'}]
    <3>1. files[job.build].data \in Keymaps
      BY <1>1 DEF TypeOK, Content
    <3>2. buf' \in Keymaps
      BY <1>1, <2>2, <3>1 DEF Keymaps
    <3>3. saved' \in [Builds -> SUBSET Keymaps]
      BY <1>1, <2>2, <3>2 DEF TypeOK
    <3>4. QED
      BY <1>2, <2>2, <3>2, <3>3, UpdateCases DEF TypeOK
  <2>3. QED
    BY <1>2, <2>1, <2>2, UpdateCases
<1>3. CASE OpenTmp
  <2>1. tmps' \in [Builds -> Content]
    BY <1>1, <1>3, JobTypes DEF OpenTmp, TypeOK
  <2>2. pc' \in {"write", "done"} /\ ret' \in Results
    <3>1. CASE Give(Done(FALSE))
      BY <3>1, GiveTypes
    <3>2. CASE Goto("write") /\ ret' = ret
      BY <3>2 DEF Goto, TypeOK, Results
    <3>3. QED
      BY <1>3, <3>1, <3>2 DEF OpenTmp
  <2>3. QED
    BY <1>3, <2>1, <2>2 DEF OpenTmp, TypeOK, Results
<1>4. CASE WriteTmp
  <2>1. Whole(buf) \in Content
    BY JobTypes DEF TypeOK
  <2>2. tmps' \in [Builds -> Content]
    BY <1>1, <1>4, <2>1 DEF WriteTmp, TypeOK
  <2>3. pc' \in {"rename", "done"} /\ ret' \in Results
    <3>1. CASE Give(Done(FALSE))
      BY <3>1, GiveTypes
    <3>2. CASE Goto("rename") /\ ret' = ret
      BY <3>2 DEF Goto, TypeOK, Results
    <3>3. QED
      BY <1>4, <3>1, <3>2 DEF WriteTmp
  <2>4. QED
    BY <1>4, <2>2, <2>3 DEF WriteTmp, TypeOK, Results
<1>5. CASE Rename
  <2>1. tmps' \in [Builds -> Content] /\ files' \in [Builds -> Content]
    BY <1>1, <1>5, JobTypes DEF Rename, TypeOK
  <2>2. unsynced' \subseteq Builds
    BY <1>1, <1>5 DEF Rename, TypeOK
  <2>3. pc' = "done" /\ ret' \in Results
    BY <1>5, GiveTypes DEF Rename
  <2>4. QED
    BY <1>5, <2>1, <2>2, <2>3 DEF Rename, TypeOK, Results
<1>6. QED
  BY <1>2, <1>3, <1>4, <1>5 DEF SaveSteps

LEMMA LoadTypes ==
  ASSUME TypeOK, Load
  PROVE  TypeOK'
<1>1. Reads(job.build) \subseteq Content
  BY JobTypes DEF TypeOK, Jobs, Loaded, Reads
<1>2. ret' \in Results
  BY <1>1 DEF Load, Give, Results
<1>3. QED
  BY <1>2 DEF Load, TypeOK, Give, Goto, Results

-----------------------------------------------------------------------------
\* Every step, call and fault keeps the types: what update and save write is a keymap.
THEOREM TypeCorrect == Spec => []TypeOK
<1>1. Init => TypeOK
  BY JobTypes, ResultTypes DEF Init, TypeOK, Results
<1>2. ASSUME TypeOK, [Next]_vars PROVE TypeOK'
  <2>1. CASE UNCHANGED vars
    BY <1>2, <2>1 DEF TypeOK, vars
  <2>2. CASE Calls
    BY <1>2, <2>2, CallTypes
  <2>3. CASE Return
    BY <1>2, <2>3, EndedTypes DEF Return, TypeOK, Results
  <2>4. CASE Load
    BY <1>2, <2>4, LoadTypes
  <2>5. CASE SaveSteps
    BY <1>2, <2>5, SaveTypes
  <2>6. CASE Remove
    <3>1. job.build \in Builds
      BY <1>2 DEF TypeOK, Jobs
    <3>2. files' \in [Builds -> Content] /\ unsynced' \subseteq Builds
      BY <1>2, <2>6, <3>1, UnlinkTypes DEF Remove, TypeOK
    <3>3. pc' = "done" /\ ret' \in Results
      BY <2>6, GiveTypes DEF Remove
    <3>4. QED
      BY <1>2, <2>6, <3>2, <3>3 DEF Remove, TypeOK, Results
  <2>7. ASSUME NEW b \in Builds, ClearOne(b) PROVE TypeOK'
    BY <1>2, <2>7, UnlinkTypes DEF ClearOne, TypeOK
  <2>8. CASE ClearDone \/ ClearUnread
    <3>1. success \in BOOLEAN
      BY <1>2 DEF TypeOK
    <3>2. pc' = "done" /\ ret' \in Results
      BY <2>8, <3>1, GiveTypes DEF ClearDone, ClearUnread
    <3>3. QED
      BY <1>2, <2>8, <3>2 DEF ClearDone, ClearUnread, TypeOK, Results
  <2>9. CASE Crash
    BY <1>2, <2>9, EndedTypes DEF Crash, TypeOK, Results
  <2>10. CASE PowerLoss
    <3>1. \A b \in Builds : Survives(b) \subseteq Content
      BY <1>2, JobTypes DEF Survives, Older, TypeOK
    <3>2. files' \in [Builds -> Content]
      BY <2>10, <3>1 DEF PowerLoss
    <3>3. QED
      BY <1>2, <2>10, <3>2, EndedTypes DEF PowerLoss, TypeOK, Results
  <2>11. QED
    BY <1>2, <2>1, <2>2, <2>3, <2>4, <2>5, <2>6, <2>7, <2>8, <2>9, <2>10
    DEF Next, ClearSteps
<1>3. QED
  BY <1>1, <1>2, PTL DEF Spec

-----------------------------------------------------------------------------
(* Only what was saved for a build is loaded for it *)

\* A file with a saved keymap, or with nothing to load.
FromSaved(file, keymaps) == file \in {NoFile, Torn} \cup {Whole(k) : k \in keymaps}

\* So are the files and the temporary files of each build, and so is the text an
\* operation is about to write.
SavedInv ==
  /\ TypeOK
  /\ \A b \in Builds : FromSaved(files[b], saved[b]) /\ FromSaved(tmps[b], saved[b])
  /\ pc \in {"open", "write", "rename"} => buf \in saved[job.build]

\* Saving more keeps it so.
LEMMA FromSavedGrows ==
  ASSUME NEW file, NEW old, NEW new, old \subseteq new, FromSaved(file, old)
  PROVE  FromSaved(file, new)
BY DEF FromSaved

LEMMA NothingIsSaved ==
  ASSUME NEW keymaps
  PROVE  FromSaved(NoFile, keymaps) /\ FromSaved(Torn, keymaps)
BY DEF FromSaved

LEMMA BeginSaved ==
  ASSUME SavedInv, TypeOK', NEW kind \in Kinds \ {"none"}, NEW b \in Builds,
         NEW data \in Keymaps, Begin(kind, b, data)
  PROVE  SavedInv'
<1>1. \A c \in Builds : saved[c] \subseteq saved'[c]
  BY DEF Begin, SavedInv, TypeOK
<1>2. \A c \in Builds : FromSaved(files'[c], saved'[c]) /\ FromSaved(tmps'[c], saved'[c])
  BY <1>1, FromSavedGrows DEF SavedInv, Begin
<1>3. pc' \in {"open", "write", "rename"} => buf' \in saved'[job'.build]
  BY DEF Begin, Goto, SavedInv, TypeOK, Kinds
<1>4. QED
  BY <1>2, <1>3 DEF SavedInv

LEMMA SaveSaved ==
  ASSUME SavedInv, TypeOK', SaveSteps
  PROVE  SavedInv'
<1>1. job.build \in Builds /\ job' = job
  BY DEF SavedInv, TypeOK, Jobs, SaveSteps, Update, OpenTmp, WriteTmp, Rename
<1>2. CASE Update
  <2>1. \A c \in Builds : saved[c] \subseteq saved'[c]
    <3>1. saved' = saved \/ saved' = [saved EXCEPT ![job.build] = @ \cup {buf'}]
      BY <1>2, UpdateCases
    <3>2. saved \in [Builds -> SUBSET Keymaps]
      BY DEF SavedInv, TypeOK
    <3>3. QED
      BY <1>1, <3>1, <3>2
  <2>2. \A c \in Builds : FromSaved(files'[c], saved'[c]) /\ FromSaved(tmps'[c], saved'[c])
    BY <1>2, <2>1, FromSavedGrows, UpdateCases DEF SavedInv
  <2>3. pc' = "open" => buf' \in saved'[job'.build]
    BY <1>1, <1>2, UpdateCases DEF Give, Goto, SavedInv, TypeOK
  <2>4. pc' \in {"open", "done"}
    BY <1>2, UpdateCases DEF Give, Goto
  <2>5. QED
    BY <2>2, <2>3, <2>4 DEF SavedInv
<1>3. CASE OpenTmp
  <2>1. \A c \in Builds : FromSaved(tmps'[c], saved[c])
    <3>1. tmps' \in {tmps, [tmps EXCEPT ![job.build] = Torn]}
      BY <1>3 DEF OpenTmp
    <3>2. \A c \in Builds : tmps'[c] \in {tmps[c], Torn}
      BY <1>1, <3>1 DEF SavedInv, TypeOK
    <3>3. QED
      BY <3>2, NothingIsSaved DEF SavedInv
  <2>2. buf' \in saved'[job'.build]
    BY <1>3 DEF OpenTmp, At, SavedInv
  <2>3. QED
    BY <1>3, <2>1, <2>2 DEF OpenTmp, SavedInv
<1>4. CASE WriteTmp
  <2>1. FromSaved(Whole(buf), saved[job.build])
    BY <1>4 DEF WriteTmp, At, SavedInv, FromSaved
  <2>2. \A c \in Builds : FromSaved(tmps'[c], saved[c])
    BY <1>1, <1>4, <2>1 DEF WriteTmp, SavedInv, TypeOK
  <2>3. buf' \in saved'[job'.build]
    BY <1>4 DEF WriteTmp, At, SavedInv
  <2>4. QED
    BY <1>4, <2>2, <2>3 DEF WriteTmp, SavedInv
<1>5. CASE Rename
  <2>1. \A c \in Builds : FromSaved(files'[c], saved[c]) /\ FromSaved(tmps'[c], saved[c])
    BY <1>1, <1>5, NothingIsSaved DEF Rename, SavedInv, TypeOK
  <2>2. pc' = "done"
    BY <1>5 DEF Rename, Give, Goto
  <2>3. QED
    BY <1>5, <2>1, <2>2 DEF Rename, SavedInv
<1>6. QED
  BY <1>2, <1>3, <1>4, <1>5 DEF SaveSteps

\* Every step keeps it: a failed call or a crash leaves a file as it was, a loss of
\* power brings back an older one or makes it one that load does not take.
LEMMA SavedStep ==
  ASSUME SavedInv, TypeOK', [Next]_vars
  PROVE  SavedInv'
<1>1. CASE UNCHANGED vars
  BY <1>1 DEF SavedInv, vars
<1>2. CASE Calls
  <2>1. (\A l \in Lists : {l} \in Keymaps) /\ Saves \subseteq Keymaps
    BY SavesAssumption DEF Keymaps
  <2>2. NoJob.build \in Builds
    BY JobTypes DEF Jobs
  <2>3. QED
    BY <1>2, <2>1, <2>2, BeginSaved, JobTypes DEF Calls, Kinds
<1>3. CASE Return
  BY <1>3, EndedTypes DEF Return, SavedInv
<1>4. CASE Load
  BY <1>4 DEF Load, SavedInv, Give, Goto
<1>5. CASE SaveSteps
  BY <1>5, SaveSaved
<1>6. CASE Remove
  <2>1. \A c \in Builds : FromSaved(files'[c], saved[c])
    <3>1. job.build \in Builds
      BY DEF SavedInv, TypeOK, Jobs
    <3>2. \A c \in Builds : files'[c] \in {files[c], NoFile}
      BY <1>6, <3>1, UnlinkTypes DEF Remove, SavedInv
    <3>3. QED
      BY <3>2, NothingIsSaved DEF SavedInv
  <2>2. QED
    BY <1>6, <2>1 DEF Remove, SavedInv, Give, Goto
<1>7. ASSUME NEW b \in Builds, ClearOne(b) PROVE SavedInv'
  <2>1. \A c \in Builds : FromSaved(files'[c], saved[c])
    <3>1. \A c \in Builds : files'[c] \in {files[c], NoFile}
      BY <1>7, UnlinkTypes DEF ClearOne, SavedInv
    <3>2. QED
      BY <3>1, NothingIsSaved DEF SavedInv
  <2>2. QED
    BY <1>7, <2>1 DEF ClearOne, SavedInv
<1>8. CASE ClearDone \/ ClearUnread
  BY <1>8 DEF ClearDone, ClearUnread, SavedInv, Give, Goto
<1>9. CASE Crash
  BY <1>9, EndedTypes DEF Crash, SavedInv
<1>10. CASE PowerLoss
  <2>1. \A c \in Builds : FromSaved(files'[c], saved[c])
    <3>1. \A c \in Builds : files'[c] = files[c] \/ files'[c] \in Older(c)
      BY <1>10 DEF PowerLoss, Survives
    <3>2. QED
      BY <3>1 DEF Older, FromSaved, SavedInv
  <2>2. QED
    BY <1>10, <2>1, EndedTypes DEF PowerLoss, SavedInv
<1>11. QED
  BY <1>1, <1>2, <1>3, <1>4, <1>5, <1>6, <1>7, <1>8, <1>9, <1>10 DEF Next, ClearSteps

\* Whatever fails and whenever the daemon or the machine stops, what load takes for
\* a build is a keymap that was given to save for it.
THEOREM OnlySavedAlways == Spec => []OnlySavedIsLoaded
<1>1. Init => SavedInv
  BY NothingIsSaved, JobTypes, ResultTypes DEF Init, SavedInv, TypeOK, Results
<1>2. SavedInv /\ TypeOK' /\ [Next]_vars => SavedInv'
  BY SavedStep
<1>3. SavedInv => OnlySavedIsLoaded
  BY DEF SavedInv, OnlySavedIsLoaded, FromSaved, Loaded, NoFile, Torn, Whole
<1>4. QED
  BY TypeCorrect, <1>1, <1>2, <1>3, PTL DEF Spec

-----------------------------------------------------------------------------
(* An update keeps the lists the file had, whatever fails *)

Saving == {"open", "write", "rename"}

\* A step that removes files is not an update's; an update's text holds what the
\* file holds, and the temporary file is torn or has that text.
UpdateInv ==
  /\ pc \in {"remove", "clear"} => job.kind = pc
  /\ pc \in Saving /\ job.kind = "update" => files[job.build].data \subseteq buf
  /\ pc = "write" => tmps[job.build] = Torn
  /\ pc = "rename" => tmps[job.build] \in {Torn, Whole(buf)}

LEMMA BeginUpdates ==
  ASSUME TypeOK, NEW kind \in Kinds \ {"none"}, NEW b \in Builds, NEW data \in Keymaps,
         Begin(kind, b, data)
  PROVE  UpdateInv'
<1>1. job'.kind = kind /\ pc' = IF kind = "save" THEN "open" ELSE kind
  BY DEF Begin, Goto
<1>2. QED
  BY <1>1 DEF UpdateInv, Saving, Kinds

\* A finished operation promises nothing more.
LEMMA DoneUpdates ==
  ASSUME pc' \in {"done", "idle", "load", "update"}
  PROVE  UpdateInv'
BY DEF UpdateInv, Saving

LEMMA SaveUpdates ==
  ASSUME TypeOK, UpdateInv, SaveSteps
  PROVE  UpdateInv'
<1>1. job.build \in Builds /\ job' = job
  BY DEF TypeOK, Jobs, SaveSteps, Update, OpenTmp, WriteTmp, Rename
<1>2. ASSUME NEW r, Give(r) PROVE UpdateInv'
  BY <1>2, DoneUpdates DEF Give, Goto
<1>3. CASE Update
  <2>1. CASE Give(Done(FALSE))
    BY <1>2, <2>1
  <2>2. CASE pc' = "open" /\ buf' = files[job.build].data \cup job.data
    <3>1. files' = files /\ files[job.build].data \subseteq buf'
      BY <1>3, <2>2, UpdateCases
    <3>2. QED
      BY <1>1, <2>2, <3>1 DEF UpdateInv, Saving
  <2>3. QED
    BY <1>3, <2>1, <2>2, UpdateCases
<1>4. CASE OpenTmp
  <2>1. pc = "open" /\ files' = files /\ buf' = buf
    BY <1>4 DEF OpenTmp, At
  <2>2. CASE tmps' = [tmps EXCEPT ![job.build] = Torn] /\ Goto("write")
    <3>1. tmps'[job.build] = Torn
      BY <1>1, <2>2 DEF TypeOK
    <3>2. QED
      BY <1>1, <2>1, <2>2, <3>1 DEF Goto, UpdateInv, Saving
  <2>3. QED
    BY <1>2, <1>4, <2>2 DEF OpenTmp
<1>5. CASE WriteTmp
  <2>1. pc = "write" /\ files' = files /\ buf' = buf /\ tmps[job.build] = Torn
    BY <1>5 DEF WriteTmp, At, UpdateInv
  <2>2. CASE Goto("rename") /\ tmps' \in {tmps, [tmps EXCEPT ![job.build] = Whole(buf)]}
    <3>1. tmps'[job.build] \in {Torn, Whole(buf)}
      BY <1>1, <2>1, <2>2 DEF TypeOK
    <3>2. QED
      BY <1>1, <2>1, <2>2, <3>1 DEF Goto, UpdateInv, Saving
  <2>3. QED
    BY <1>2, <1>5, <2>2 DEF WriteTmp
<1>6. CASE Rename
  BY <1>2, <1>6 DEF Rename
<1>7. QED
  BY <1>3, <1>4, <1>5, <1>6 DEF SaveSteps

LEMMA UpdateStep ==
  ASSUME TypeOK, UpdateInv, [Next]_vars
  PROVE  UpdateInv'
<1>1. CASE UNCHANGED vars
  BY <1>1 DEF UpdateInv, vars
<1>2. CASE Calls
  <2>1. (\A l \in Lists : {l} \in Keymaps) /\ Saves \subseteq Keymaps
    BY SavesAssumption DEF Keymaps
  <2>2. NoJob.build \in Builds
    BY JobTypes DEF Jobs
  <2>3. QED
    BY <1>2, <2>1, <2>2, BeginUpdates, JobTypes DEF Calls, Kinds
<1>3. CASE Return \/ Crash \/ PowerLoss
  BY <1>3, EndedTypes, DoneUpdates DEF Return, Crash, PowerLoss
<1>4. CASE Load \/ Remove \/ ClearDone \/ ClearUnread
  BY <1>4, DoneUpdates DEF Load, Remove, ClearDone, ClearUnread, Give, Goto
<1>5. CASE SaveSteps
  BY <1>5, SaveUpdates
<1>6. ASSUME NEW b \in Builds, ClearOne(b) PROVE UpdateInv'
  BY <1>6 DEF ClearOne, At, UpdateInv, Saving
<1>7. QED
  BY <1>1, <1>2, <1>3, <1>4, <1>5, <1>6 DEF Next, ClearSteps

\* The lists of each file are kept by each step of an update.
KeepsLists ==
  \A b \in Builds :
    job.kind = "update" /\ job' = job /\ Loaded(b) # NoFile /\ files'[b].state # "torn"
    => files[b].data \subseteq files'[b].data

LEMMA RenameKeeps ==
  ASSUME TypeOK, UpdateInv, Rename
  PROVE  KeepsLists
<1>1. tmps[job.build] \in {Torn, Whole(buf)} /\ job.build \in Builds /\ pc = "rename"
  BY DEF Rename, At, UpdateInv, TypeOK, Jobs
<1>2. files' \in {files, [files EXCEPT ![job.build] = tmps[job.build]]}
  BY DEF Rename
<1>3. \A b \in Builds : files'[b] = files[b] \/ (b = job.build /\ files'[b] = tmps[job.build])
  BY <1>2 DEF TypeOK
<1>4. Torn.state = "torn" /\ Whole(buf).data = buf
  BY DEF Torn, Whole
<1>5. QED
  BY <1>1, <1>3, <1>4 DEF KeepsLists, UpdateInv, Saving

LEMMA StepKeeps ==
  ASSUME TypeOK, UpdateInv, [Next]_vars
  PROVE  KeepsLists
<1>1. CASE files' = files
  BY <1>1 DEF KeepsLists
<1>2. CASE Rename
  BY <1>2, RenameKeeps
<1>3. CASE Remove \/ \E b \in Builds : ClearOne(b)
  BY <1>3 DEF Remove, ClearOne, At, UpdateInv, KeepsLists
<1>4. CASE PowerLoss
  <2>1. job' = NoJob /\ NoJob.kind = "none"
    BY <1>4 DEF PowerLoss, Ended, NoJob
  <2>2. QED
    BY <2>1 DEF KeepsLists
<1>5. QED
  BY <1>1, <1>2, <1>3, <1>4
  DEF Next, vars, Calls, Begin, Return, Load, SaveSteps, Update, OpenTmp, WriteTmp,
      ClearSteps, ClearDone, ClearUnread, Crash

\* update_bindings never makes a build's keymap poorer: whatever fails, with the
\* file whole afterwards, each list it had is still in it.
THEOREM UpdatesKeepAlways == Spec => UpdatesKeepLists
<1>1. Init => UpdateInv
  BY DEF Init, UpdateInv, Saving
<1>2. TypeOK /\ UpdateInv /\ [Next]_vars => UpdateInv'
  BY UpdateStep
<1>3. TypeOK /\ UpdateInv /\ [Next]_vars => [KeepsLists]_vars
  BY StepKeeps
<1>4. QED
  BY TypeCorrect, <1>1, <1>2, <1>3, PTL DEF Spec, UpdatesKeepLists, KeepsLists

-----------------------------------------------------------------------------
(* What the refinement needs *)

\* Where each operation may be, and what it has to give back.
JobMatches ==
  /\ pc = "idle" => job = NoJob
  /\ pc # "idle" => job.kind # "none"
  /\ pc # "done" => ret = Pending
  /\ pc = "done" => ret.done
  /\ pc \in {"load", "update", "remove", "clear"} => job.kind = pc
  /\ pc \in Saving => job.kind \in {"save", "update"}

\* No torn file carries a build's name.
FilesWhole == \A b \in Builds : files[b] \in {NoFile} \cup {Whole(k) : k \in Keymaps}

\* The text on its way into the file is the one the operation stands for.
TextMatches ==
  /\ pc = "rename" => tmps[job.build] = Whole(buf)
  /\ pc \in Saving /\ job.kind = "save" => buf = job.data
  /\ pc \in Saving /\ job.kind = "update" =>
       files[job.build] # NoFile /\ buf = files[job.build].data \cup job.data

\* While clear has met no failure, the files behind it are gone.
ClearedBehind ==
  pc = "clear" /\ success => \A b \in Builds \ todo : files[b] = NoFile

StoreInv == JobMatches /\ FilesWhole /\ TextMatches /\ ClearedBehind

\* What was lost once is never taken for whole again.
LEMMA IntactFalls ==
  ASSUME [Next]_vars, intact'
  PROVE  intact
BY DEF Next, vars, Calls, Begin, Return, Load, SaveSteps, Update, OpenTmp, WriteTmp, Rename,
       Remove, ClearSteps, ClearDone, ClearUnread, ClearOne, Crash, PowerLoss

LEMMA OneBuildOfJob ==
  ASSUME TypeOK
  PROVE  job.build \in Builds /\ job.data \in Keymaps /\ job.kind \in Kinds
BY DEF TypeOK, Jobs

LEMMA BeginStore ==
  ASSUME TypeOK, TypeOK', StoreInv, NEW kind \in Kinds \ {"none"}, NEW b \in Builds,
         NEW data \in Keymaps, Begin(kind, b, data)
  PROVE  StoreInv'
<1>1. job'.kind = kind /\ job'.data = data /\ buf' = data /\ ret' = Pending
  BY DEF Begin, At, StoreInv, JobMatches
<1>2. pc' = IF kind = "save" THEN "open" ELSE kind
  BY DEF Begin, Goto
<1>3. JobMatches'
  BY <1>1, <1>2 DEF JobMatches, Kinds, Saving
<1>4. FilesWhole'
  BY DEF StoreInv, FilesWhole, Begin
<1>5. TextMatches'
  BY <1>1, <1>2 DEF TextMatches, Saving, Kinds
<1>6. ClearedBehind'
  <2>1. kind = "clear" => todo' = {c \in Builds : files[c] # NoFile} /\ files' = files
    BY DEF Begin
  <2>2. QED
    BY <1>2, <2>1 DEF ClearedBehind, Kinds
<1>7. QED
  BY <1>3, <1>4, <1>5, <1>6 DEF StoreInv

LEMMA SaveStore ==
  ASSUME intact', TypeOK, TypeOK', StoreInv, SaveSteps
  PROVE  StoreInv'
<1>1. job.build \in Builds /\ job' = job
  BY OneBuildOfJob DEF SaveSteps, Update, OpenTmp, WriteTmp, Rename
<1>2. CASE Update
  <2>1. job.kind = "update" /\ files' = files
    BY <1>2 DEF Update, At, StoreInv, JobMatches
  <2>2. CASE Give(Done(FALSE)) /\ UNCHANGED <<buf, saved>>
    BY <1>1, <1>2, <2>1, <2>2, UpdateCases
    DEF Give, Goto, Done, StoreInv, JobMatches, FilesWhole, TextMatches, ClearedBehind, Saving
  <2>3. CASE /\ files[job.build] # NoFile /\ pc' = "open" /\ ret' = ret
             /\ buf' = files[job.build].data \cup job.data
    <3>1. ret' = Pending /\ tmps' = tmps /\ todo' = todo /\ success' = success
      BY <1>2, <2>3, UpdateCases DEF Update, At, StoreInv, JobMatches
    <3>2. QED
      BY <1>1, <2>1, <2>3, <3>1
      DEF StoreInv, JobMatches, FilesWhole, TextMatches, ClearedBehind, Saving
  <2>4. QED
    BY <1>2, <2>2, <2>3, UpdateCases
<1>3. CASE OpenTmp
  <2>1. pc = "open" /\ files' = files /\ buf' = buf
    BY <1>3 DEF OpenTmp, At
  <2>2. CASE Give(Done(FALSE))
    BY <1>1, <2>1, <2>2
    DEF Give, Goto, Done, StoreInv, JobMatches, FilesWhole, TextMatches, ClearedBehind, Saving
  <2>3. CASE Goto("write") /\ ret' = ret
    BY <1>1, <2>1, <2>3
    DEF Goto, StoreInv, JobMatches, FilesWhole, TextMatches, ClearedBehind, Saving
  <2>4. QED
    BY <1>3, <2>2, <2>3 DEF OpenTmp
<1>4. CASE WriteTmp
  <2>1. pc = "write" /\ files' = files /\ buf' = buf
    BY <1>4 DEF WriteTmp, At
  <2>2. CASE Give(Done(FALSE))
    BY <1>1, <2>1, <2>2
    DEF Give, Goto, Done, StoreInv, JobMatches, FilesWhole, TextMatches, ClearedBehind, Saving
  <2>3. CASE tmps' = [tmps EXCEPT ![job.build] = Whole(buf)] /\ Goto("rename") /\ ret' = ret
    <3>1. tmps'[job.build] = Whole(buf)
      BY <1>1, <2>3 DEF TypeOK
    <3>2. QED
      BY <1>1, <2>1, <2>3, <3>1
      DEF Goto, StoreInv, JobMatches, FilesWhole, TextMatches, ClearedBehind, Saving
  <2>4. QED
    BY <1>4, <2>2, <2>3 DEF WriteTmp
<1>5. CASE Rename
  <2>1. pc = "rename" /\ pc' = "done" /\ ret'.done
    BY <1>5 DEF Rename, At, Give, Goto, Done
  <2>2. FilesWhole'
    <3>1. tmps[job.build] = Whole(buf) /\ buf \in Keymaps
      BY <2>1 DEF StoreInv, TextMatches, TypeOK
    <3>2. files' \in {files, [files EXCEPT ![job.build] = Whole(buf)]}
      BY <1>5, <3>1 DEF Rename
    <3>3. \A c \in Builds : files'[c] \in {files[c], Whole(buf)}
      BY <3>2 DEF TypeOK
    <3>4. QED
      BY <3>1, <3>3 DEF StoreInv, FilesWhole
  <2>3. JobMatches'
    BY <1>1, <2>1 DEF StoreInv, JobMatches, Saving
  <2>4. QED
    BY <2>1, <2>2, <2>3 DEF StoreInv, TextMatches, ClearedBehind, Saving
<1>6. QED
  BY <1>2, <1>3, <1>4, <1>5 DEF SaveSteps

\* An operation that ends leaves nothing to say about it.
LEMMA EndedStore ==
  ASSUME StoreInv, Ended, files' = files
  PROVE  StoreInv'
BY DEF Ended, Goto, StoreInv, JobMatches, FilesWhole, TextMatches, ClearedBehind, Saving, NoJob

\* So does one that has its result.
LEMMA GivenStore ==
  ASSUME StoreInv, NEW result, result.done, Give(result), job' = job, pc # "idle", FilesWhole'
  PROVE  StoreInv'
BY DEF Give, Goto, StoreInv, JobMatches, TextMatches, ClearedBehind, Saving

LEMMA ClearStore ==
  ASSUME TypeOK, StoreInv, NEW b \in Builds, ClearOne(b)
  PROVE  StoreInv'
<1>2. \A c \in Builds : files'[c] \in {files[c], NoFile}
  BY UnlinkTypes DEF ClearOne
<1>3. pc = "clear" /\ pc' = pc /\ job' = job /\ ret' = ret
  BY DEF ClearOne, At
<1>4. JobMatches' /\ TextMatches'
  BY <1>3 DEF StoreInv, JobMatches, TextMatches, Saving
<1>5. FilesWhole'
  BY <1>2 DEF StoreInv, FilesWhole
<1>6. ClearedBehind'
  <2>1. SUFFICES ASSUME success', NEW c \in Builds \ todo' PROVE files'[c] = NoFile
    BY <1>3 DEF ClearedBehind
  <2>2. success /\ files' = [files EXCEPT ![b] = NoFile] /\ todo' = todo \ {b}
    BY <1>3, <2>1, UnlinkTypes DEF ClearOne, StoreInv
  <2>3. QED
    BY <1>3, <2>1, <2>2 DEF StoreInv, ClearedBehind, TypeOK
<1>7. QED
  BY <1>4, <1>5, <1>6 DEF StoreInv

LEMMA StoreStep ==
  ASSUME intact', TypeOK, TypeOK', StoreInv, [Next]_vars
  PROVE  StoreInv'
<1>1. CASE UNCHANGED vars
  BY <1>1 DEF StoreInv, JobMatches, FilesWhole, TextMatches, ClearedBehind, Saving, vars
<1>2. CASE Calls
  <2>1. (\A l \in Lists : {l} \in Keymaps) /\ Saves \subseteq Keymaps
    BY SavesAssumption DEF Keymaps
  <2>2. NoJob.build \in Builds
    BY JobTypes DEF Jobs
  <2>3. QED
    BY <1>2, <2>1, <2>2, BeginStore, JobTypes DEF Calls, Kinds
<1>3. CASE Return \/ Crash
  BY <1>3, EndedStore DEF Return, Crash
<1>4. CASE Load
  <2>1. FilesWhole' /\ job' = job /\ pc # "idle"
    BY <1>4 DEF Load, At, StoreInv, FilesWhole
  <2>2. QED
    BY <1>4, <2>1, GivenStore DEF Load
<1>5. CASE SaveSteps
  BY <1>5, SaveStore
<1>6. CASE Remove
  <2>1. job.build \in Builds
    BY OneBuildOfJob
  <2>2. \A c \in Builds : files'[c] \in {files[c], NoFile}
    BY <1>6, <2>1, UnlinkTypes DEF Remove
  <2>3. FilesWhole' /\ job' = job /\ pc # "idle"
    BY <1>6, <2>2 DEF Remove, At, StoreInv, FilesWhole
  <2>4. \A ok \in BOOLEAN : Done(ok).done
    BY DEF Done
  <2>5. QED
    BY <1>6, <2>3, <2>4, GivenStore DEF Remove
<1>7. ASSUME NEW b \in Builds, ClearOne(b) PROVE StoreInv'
  BY <1>7, ClearStore
<1>8. CASE ClearDone
  <2>1. FilesWhole' /\ job' = job /\ pc # "idle"
    BY <1>8 DEF ClearDone, At, StoreInv, FilesWhole
  <2>2. Done(success).done
    BY DEF Done
  <2>3. QED
    BY <1>8, <2>1, <2>2, GivenStore DEF ClearDone
<1>9. ~ClearUnread /\ ~PowerLoss
  BY DEF ClearUnread, PowerLoss
<1>10. QED
  BY <1>1, <1>2, <1>3, <1>4, <1>5, <1>6, <1>7, <1>8, <1>9 DEF Next, ClearSteps

-----------------------------------------------------------------------------
(* Each step of the cache is one of the store, or none *)

\* As long as no file is torn, the store is the files.
LEMMA StoredIsFiles ==
  ASSUME TypeOK, TypeOK', FilesWhole, FilesWhole'
  PROVE  Stored = files /\ Stored' = files'
<1>1. \A b \in Builds : Loaded(b) = files[b]
  BY DEF FilesWhole, Loaded, NoFile, Whole
<1>2. \A b \in Builds : Loaded(b)' = files'[b]
  BY DEF FilesWhole, Loaded, NoFile, Whole
<1>3. QED
  BY <1>1, <1>2 DEF Stored, TypeOK

StoreStutters == UNCHANGED <<Stored, job, ret>>

LEMMA CallsRefine ==
  ASSUME TypeOK, TypeOK', StoreInv, Calls, Stored = files, Stored' = files'
  PROVE  Store!Request
<1>1. files' = files /\ ret' = ret /\ job' \in Jobs /\ pc = "idle"
  BY DEF Calls, Begin, At, TypeOK
<1>2. job.kind = "none"
  BY <1>1 DEF StoreInv, JobMatches, NoJob
<1>3. QED
  BY <1>1, <1>2
  DEF Store!Request, Store!Ops, Store!Kinds, Store!Keymaps, Jobs, Kinds, Keymaps, Stored

LEMMA LoadRefines ==
  ASSUME TypeOK, StoreInv, Load, Stored = files, Stored' = files'
  PROVE  Store!Load \/ Store!Refuse
<1>1. job.kind = "load" /\ ret = Pending /\ job' = job /\ files' = files
  BY DEF Load, At, StoreInv, JobMatches
<1>2. PICK found \in Reads(job.build) : ret' = Store!Found(found)
  BY DEF Load, Give, Store!Found, NoFile, Store!NoFile
<1>3. CASE found = Loaded(job.build)
  BY <1>1, <1>2, <1>3, OneBuildOfJob DEF Store!Load, Store!Doing, Stored, Pending
<1>4. CASE Fault("read") /\ found = NoFile
  <2>1. ret' = Store!Done(FALSE)
    BY <1>2, <1>4 DEF Store!Found, Store!Done, NoFile, Store!NoFile
  <2>2. QED
    BY <1>1, <1>4, <2>1 DEF Store!Refuse, Stored, Pending
<1>5. QED
  BY <1>3, <1>4 DEF Reads

\* A rename that succeeds is the whole save or update; everything before it is hidden.
LEMMA SaveRefines ==
  ASSUME intact', TypeOK, TypeOK', StoreInv, SaveSteps, Stored = files, Stored' = files'
  PROVE  Store!Save \/ Store!Update \/ Store!Refuse \/ StoreStutters
<1>1. job' = job /\ job.build \in Builds /\ job.kind \in {"save", "update"} /\ ~ret.done
  <2>1. pc \in {"update"} \cup Saving /\ job' = job
    BY DEF SaveSteps, Update, OpenTmp, WriteTmp, Rename, At, Saving
  <2>2. job.kind \in {"save", "update"} /\ ret = Pending
    BY <2>1 DEF StoreInv, JobMatches, Saving
  <2>3. QED
    BY <2>1, <2>2, OneBuildOfJob DEF Pending
<1>2. ASSUME files' = files, Give(Done(FALSE)) PROVE Store!Refuse
  BY <1>1, <1>2 DEF Give, Store!Refuse, Done, Store!Done, NoFile, Store!NoFile, Stored
<1>3. ASSUME files' = files, ret' = ret PROVE StoreStutters
  BY <1>1, <1>3 DEF StoreStutters
<1>4. CASE Update \/ OpenTmp \/ WriteTmp
  BY <1>2, <1>3, <1>4, UpdateCases DEF OpenTmp, WriteTmp
<1>5. ASSUME Rename, files' = [files EXCEPT ![job.build] = tmps[job.build]], Give(Done(TRUE))
      PROVE  Store!Save \/ Store!Update
  <2>1. pc = "rename" /\ tmps[job.build] = Whole(buf)
    BY <1>5 DEF Rename, At, StoreInv, TextMatches
  <2>2. ret' = Store!Done(TRUE)
    BY <1>5 DEF Give, Done, Store!Done, NoFile, Store!NoFile
  <2>3. CASE job.kind = "save"
    <3>1. buf = job.data
      BY <2>1, <2>3 DEF StoreInv, TextMatches, Saving
    <3>2. Stored' = [Stored EXCEPT ![job.build] = Store!Whole(job.data)]
      BY <1>5, <2>1, <3>1 DEF Whole, Store!Whole
    <3>3. QED
      BY <1>1, <2>2, <2>3, <3>2 DEF Store!Save, Store!Doing, Stored
  <2>4. CASE job.kind = "update"
    <3>1. files[job.build] # NoFile /\ buf = files[job.build].data \cup job.data
      BY <2>1, <2>4 DEF StoreInv, TextMatches, Saving
    <3>2. Stored' = [Stored EXCEPT ![job.build] = Store!Whole(@.data \cup job.data)]
      BY <1>1, <1>5, <2>1, <3>1 DEF Whole, Store!Whole, TypeOK
    <3>3. Stored[job.build] # Store!NoFile
      BY <3>1 DEF NoFile, Store!NoFile
    <3>4. QED
      BY <1>1, <2>2, <2>4, <3>2, <3>3 DEF Store!Update, Store!Doing, Stored
  <2>5. QED
    BY <1>1, <2>3, <2>4
<1>6. CASE Rename
  BY <1>2, <1>5, <1>6 DEF Rename
<1>7. QED
  BY <1>4, <1>6 DEF SaveSteps

LEMMA RemoveRefines ==
  ASSUME TypeOK, StoreInv, Remove, Stored = files, Stored' = files'
  PROVE  Store!Remove \/ Store!Refuse
<1>1. job' = job /\ job.kind = "remove" /\ ~ret.done
  BY DEF Remove, At, StoreInv, JobMatches, Pending
<1>2. \A ok \in BOOLEAN : Done(ok) = Store!Done(ok)
  BY DEF Done, Store!Done, NoFile, Store!NoFile
<1>3. CASE files' = [files EXCEPT ![job.build] = NoFile] /\ Give(Done(TRUE))
  BY <1>1, <1>2, <1>3 DEF Give, Store!Remove, Store!Doing, Stored, NoFile, Store!NoFile
<1>4. CASE files' = files /\ Give(Done(FALSE))
  BY <1>1, <1>2, <1>4 DEF Give, Store!Refuse, Stored
<1>5. QED
  BY <1>1, <1>3, <1>4, OneBuildOfJob, UnlinkTypes DEF Remove

LEMMA ClearRefines ==
  ASSUME TypeOK, StoreInv, Stored = files, Stored' = files',
         ClearDone \/ \E b \in Builds : ClearOne(b)
  PROVE  Store!Cleared \/ Store!Refuse \/ (\E b \in Builds : Store!ClearOne(b)) \/ StoreStutters
<1>1. job' = job /\ job.kind = "clear" /\ ~ret.done /\ pc = "clear"
  BY DEF ClearDone, ClearOne, At, StoreInv, JobMatches, Pending
<1>2. ASSUME NEW b \in Builds, ClearOne(b) PROVE Store!ClearOne(b) \/ StoreStutters
  BY <1>1, <1>2, UnlinkTypes
  DEF ClearOne, Store!ClearOne, Store!Doing, StoreStutters, Stored, NoFile, Store!NoFile
<1>3. CASE ClearDone
  <2>1. ret' = Store!Done(success) /\ files' = files /\ success \in BOOLEAN
    BY <1>3 DEF ClearDone, Give, Done, Store!Done, NoFile, Store!NoFile, TypeOK
  <2>2. CASE success
    <3>1. \A b \in Builds : Stored[b] = Store!NoFile
      BY <1>1, <1>3, <2>2 DEF ClearDone, StoreInv, ClearedBehind, NoFile, Store!NoFile
    <3>2. ret' = Store!Done(TRUE)
      BY <2>1, <2>2
    <3>3. QED
      BY <1>1, <2>1, <3>1, <3>2 DEF Store!Cleared, Store!Doing, Stored
  <2>3. CASE success = FALSE
    <3>1. ret' = Store!Done(FALSE)
      BY <2>1, <2>3
    <3>2. QED
      BY <1>1, <2>1, <3>1 DEF Store!Refuse, Stored
  <2>4. QED
    BY <2>1, <2>2, <2>3
<1>4. QED
  BY <1>2, <1>3

\* The caller has its answer, or the daemon ended under it.
LEMMA EndRefines ==
  ASSUME StoreInv, Return \/ Crash, Stored = files, Stored' = files'
  PROVE  Store!Return
<1>1. pc # "idle" /\ Ended /\ files' = files
  BY DEF Return, Crash, At
<1>2. job.kind # "none"
  BY <1>1 DEF StoreInv, JobMatches
<1>3. QED
  BY <1>1, <1>2
  DEF Ended, Store!Return, Store!NoOp, NoJob, Pending, Store!Pending, NoFile, Store!NoFile, Stored

LEMMA StepRefines ==
  ASSUME intact', TypeOK, TypeOK', StoreInv, StoreInv', [Next]_vars
  PROVE  Store!Next \/ StoreStutters
<1>1. Stored = files /\ Stored' = files'
  BY StoredIsFiles DEF StoreInv
<1>2. CASE UNCHANGED vars
  BY <1>1, <1>2 DEF vars, StoreStutters
<1>3. CASE Calls
  BY <1>1, <1>3, CallsRefine DEF Store!Next
<1>4. CASE Return \/ Crash
  BY <1>1, <1>4, EndRefines DEF Store!Next
<1>5. CASE Load
  BY <1>1, <1>5, LoadRefines DEF Store!Next
<1>6. CASE SaveSteps
  BY <1>1, <1>6, SaveRefines DEF Store!Next
<1>7. CASE Remove
  BY <1>1, <1>7, RemoveRefines DEF Store!Next
<1>8. CASE ClearDone \/ \E b \in Builds : ClearOne(b)
  BY <1>1, <1>8, ClearRefines DEF Store!Next
<1>9. ~ClearUnread /\ ~PowerLoss
  BY DEF ClearUnread, PowerLoss
<1>10. QED
  BY <1>2, <1>3, <1>4, <1>5, <1>6, <1>7, <1>8, <1>9 DEF Next, ClearSteps

\* Until a text is written short, power is lost or the directory cannot be read, the
\* cache is a store whose operations happen at once or not at all: calls may fail, a
\* load's opening of its file among them (the load then gives nothing), and the daemon
\* may end between any two steps of a save or a clear.
THEOREM Implements == Spec => ImplementsStore
<1> DEFINE IntactInv == intact => StoreInv
<1>1. Init => IntactInv
  BY DEF Init, StoreInv, JobMatches, FilesWhole, TextMatches, ClearedBehind, Saving
<1>2. Init => Store!Init
  <2>1. Init => \A b \in Builds : Loaded(b) = Store!NoFile
    BY DEF Init, Loaded, NoFile, Torn, Store!NoFile
  <2>2. QED
    BY <2>1
    DEF Init, Stored, Store!Init, NoJob, Store!NoOp, Pending, Store!Pending, NoFile,
        Store!NoFile
<1>3. TypeOK /\ TypeOK' /\ IntactInv /\ [Next]_vars => IntactInv'
  BY StoreStep, IntactFalls
<1>4. TypeOK /\ TypeOK' /\ IntactInv /\ [Next]_vars
      => [intact' => Store!Next]_<<Stored, job, ret>>
  BY StoreStep, StepRefines, IntactFalls DEF StoreStutters
<1>5. QED
  BY TypeCorrect, <1>1, <1>2, <1>3, <1>4, PTL DEF Spec, ImplementsStore
=============================================================================
