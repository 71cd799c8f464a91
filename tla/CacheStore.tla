----------------------------- MODULE CacheStore -----------------------------
(***************************************************************************)
(* KeymapCache step by step: the temporary file that save opens, writes    *)
(* and renames, the loop of clear, and what may go wrong between: calls    *)
(* that fail, a full disk, a crash of the daemon, a loss of power.         *)
(*                                                                         *)
(* A keymap is the set of binding lists it holds. A file that is no whole  *)
(* JSON text is Torn.                                                      *)
(***************************************************************************)
EXTENDS Integers, FiniteSets

CONSTANTS
  Builds,   \* builds of one device name, each with its file
  Lists,    \* binding lists of a keymap
  Saves,    \* keymaps that are saved as a whole
  Faults    \* what may go wrong

FaultKinds == {"read", "open", "dump", "full", "rename", "remove", "dir", "crash", "power"}

ASSUME BuildsAssumption == Builds # {}
ASSUME SavesAssumption == Saves \subseteq SUBSET Lists
ASSUME FaultsAssumption == Faults \subseteq FaultKinds

VARIABLES
  files,    \* the .json file of each build
  tmps,     \* the .json.tmp file of each build
  unsynced, \* builds whose last renaming or removal may not be on the disk yet
  pc,       \* the next step of the operation under way
  job,      \* that operation
  buf,      \* the keymap it saves
  todo,     \* files clear has not visited yet
  success,  \* clear's result so far
  ret,      \* what the operation gives back
  saved,    \* keymaps that were ever given to save, for each build (history)
  intact    \* nothing was written short, lost or left unread so far (history)

vars == <<files, tmps, unsynced, pc, job, buf, todo, success, ret, saved, intact>>

-----------------------------------------------------------------------------
Keymaps == SUBSET Lists

\* What a file holds, or what load makes of it.
Content == [state : {"none", "torn", "whole"}, data : Keymaps]
NoFile == [state |-> "none", data |-> {}]
Torn == [state |-> "torn", data |-> {}]
Whole(k) == [state |-> "whole", data |-> k]

Kinds == {"none", "load", "save", "update", "remove", "clear"}
Jobs == [kind : Kinds, build : Builds, data : Keymaps]
NoJob == [kind |-> "none", build |-> CHOOSE b \in Builds : TRUE, data |-> {}]

\* The keymap a build's file holds: none when it does not parse.
Loaded(b) == IF files[b].state = "torn" THEN NoFile ELSE files[b]

Pending == [done |-> FALSE, ok |-> FALSE, found |-> NoFile]
Done(ok) == [done |-> TRUE, ok |-> ok, found |-> NoFile]

Fault(kind) == kind \in Faults

\* What load may make of a build's file: a file that is there but cannot be opened
\* for reading gives nothing, like one that is not there.
Reads(b) == {Loaded(b)} \cup (IF Fault("read") THEN {NoFile} ELSE {})

At(step) == pc = step
Goto(step) == pc' = step
Give(result) == ret' = result /\ Goto("done")

-----------------------------------------------------------------------------
(* Calls *)

Begin(kind, b, data) ==
  /\ At("idle")
  /\ job' = [kind |-> kind, build |-> b, data |-> data]
  /\ Goto(IF kind = "save" THEN "open" ELSE kind)
  /\ buf' = data
  /\ todo' = IF kind = "clear" THEN {c \in Builds : files[c] # NoFile} ELSE {}
  /\ success' = TRUE
  /\ saved' = IF kind = "save" THEN [saved EXCEPT ![b] = @ \cup {data}] ELSE saved
  /\ UNCHANGED <<files, tmps, unsynced, ret, intact>>

Ended ==
  /\ Goto("idle")
  /\ job' = NoJob /\ buf' = {} /\ ret' = Pending
  /\ todo' = {} /\ success' = TRUE

Return ==
  /\ At("done")
  /\ Ended
  /\ UNCHANGED <<files, tmps, unsynced, saved, intact>>

Load ==
  /\ At("load")
  /\ \E found \in Reads(job.build) : Give([done |-> TRUE, ok |-> found # NoFile, found |-> found])
  /\ UNCHANGED <<files, tmps, unsynced, job, buf, todo, success, saved, intact>>

\* Mutants of Update: what the file holds is saved as one list of the keymap, the
\* list is saved without what the file holds.
UpdateNests ==
  /\ At("update")
  /\ \E found \in Reads(job.build) :
       IF found = NoFile
       THEN Give(Done(FALSE)) /\ UNCHANGED <<buf, saved>>
       ELSE /\ Goto("open") /\ ret' = ret
            /\ buf' = {found.data} \cup job.data
            /\ saved' = [saved EXCEPT ![job.build] = @ \cup {buf'}]
  /\ UNCHANGED <<files, tmps, unsynced, job, todo, success, intact>>

UpdateAlone ==
  /\ At("update")
  /\ \E found \in Reads(job.build) :
       IF found = NoFile
       THEN Give(Done(FALSE)) /\ UNCHANGED <<buf, saved>>
       ELSE /\ Goto("open") /\ ret' = ret
            /\ buf' = job.data
            /\ saved' = [saved EXCEPT ![job.build] = @ \cup {buf'}]
  /\ UNCHANGED <<files, tmps, unsynced, job, todo, success, intact>>

\* update_bindings: load, set one list, save; nothing is saved when load gives nothing.
Update ==
  /\ At("update")
  /\ \E found \in Reads(job.build) :
       IF found = NoFile
       THEN Give(Done(FALSE)) /\ UNCHANGED <<buf, saved>>
       ELSE /\ Goto("open") /\ ret' = ret
            /\ buf' = found.data \cup job.data
            /\ saved' = [saved EXCEPT ![job.build] = @ \cup {buf'}]
  /\ UNCHANGED <<files, tmps, unsynced, job, todo, success, intact>>

-----------------------------------------------------------------------------
(* save *)

\* Mutant of OpenTmp: the target itself is opened and truncated.
OpenTarget ==
  /\ At("open")
  /\ tmps' = [tmps EXCEPT ![job.build] = Torn]
  /\ files' = [files EXCEPT ![job.build] = Torn]
  /\ Goto("write")
  /\ UNCHANGED <<unsynced, job, buf, todo, success, ret, saved, intact>>

\* The stream truncates what an earlier save may have left.
OpenTmp ==
  /\ At("open")
  /\ \/ /\ tmps' = [tmps EXCEPT ![job.build] = Torn]
        /\ Goto("write") /\ ret' = ret
     \/ /\ Fault("open")
        /\ Give(Done(FALSE)) /\ tmps' = tmps
  /\ UNCHANGED <<files, unsynced, job, buf, todo, success, saved, intact>>

\* The text is written; or cannot be made (dump throws, the temporary file stays);
\* or does not fit, which nobody looks at.
WriteTmp ==
  /\ At("write")
  /\ \/ /\ tmps' = [tmps EXCEPT ![job.build] = Whole(buf)]
        /\ Goto("rename") /\ UNCHANGED <<ret, intact>>
     \/ /\ Fault("dump")
        /\ Give(Done(FALSE)) /\ UNCHANGED <<tmps, intact>>
     \/ /\ Fault("full")
        /\ Goto("rename") /\ intact' = FALSE /\ UNCHANGED <<tmps, ret>>
  /\ UNCHANGED <<files, unsynced, job, buf, todo, success, saved>>

\* Mutant of Rename: the file goes to another build's name.
RenameAnywhere ==
  /\ At("rename")
  /\ \E b \in Builds : files' = [files EXCEPT ![b] = tmps[job.build]]
  /\ tmps' = [tmps EXCEPT ![job.build] = NoFile]
  /\ Give(Done(TRUE))
  /\ UNCHANGED <<unsynced, job, buf, todo, success, saved, intact>>

Rename ==
  /\ At("rename")
  /\ tmps' = [tmps EXCEPT ![job.build] = NoFile]
  /\ \/ /\ files' = [files EXCEPT ![job.build] = tmps[job.build]]
        /\ unsynced' = unsynced \cup {job.build}
        /\ Give(Done(TRUE))
     \/ /\ Fault("rename")
        /\ Give(Done(FALSE)) /\ UNCHANGED <<files, unsynced>>
  /\ UNCHANGED <<job, buf, todo, success, saved, intact>>

-----------------------------------------------------------------------------
(* remove and clear *)

Unlink(b) ==
  /\ files' = [files EXCEPT ![b] = NoFile]
  /\ unsynced' = unsynced \cup ({b} \ {c \in Builds : files[c] = NoFile})

Remove ==
  /\ At("remove")
  /\ \/ /\ Unlink(job.build)
        /\ Give(Done(TRUE))
     \/ /\ files[job.build] # NoFile /\ Fault("remove")
        /\ Give(Done(FALSE)) /\ UNCHANGED <<files, unsynced>>
  /\ UNCHANGED <<tmps, job, buf, todo, success, saved, intact>>

\* A file that cannot be removed makes the result false, and the loop goes on.
ClearOne(b) ==
  /\ At("clear") /\ b \in todo
  /\ todo' = todo \ {b}
  /\ \/ Unlink(b) /\ success' = success
     \/ /\ Fault("remove")
        /\ success' = FALSE /\ UNCHANGED <<files, unsynced>>
  /\ UNCHANGED <<tmps, pc, job, buf, ret, saved, intact>>

ClearDone ==
  /\ At("clear") /\ todo = {}
  /\ Give(Done(success))
  /\ UNCHANGED <<files, tmps, unsynced, job, buf, todo, success, saved, intact>>

\* The directory cannot be read: the loop has no turn.
ClearUnread ==
  /\ At("clear") /\ Fault("dir")
  /\ Give(Done(TRUE))
  /\ intact' = FALSE
  /\ UNCHANGED <<files, tmps, unsynced, job, buf, todo, success, saved>>

-----------------------------------------------------------------------------
(* The system around it (external) *)

\* The daemon may end at any point; the files stay as they are.
Crash ==
  /\ Fault("crash") /\ ~At("idle")
  /\ Ended
  /\ UNCHANGED <<files, tmps, unsynced, saved, intact>>

\* What save renamed or remove unlinked is not on the disk for sure, for nothing is
\* synchronised: the file may come back torn, or as one of the older ones, which the
\* keymaps ever given to save stand for, or not at all.
Older(b) == {NoFile, Torn} \cup {Whole(k) : k \in saved[b]}
Survives(b) == {files[b]} \cup (IF b \in unsynced THEN Older(b) ELSE {})

PowerLoss ==
  /\ Fault("power")
  /\ files' \in {f \in [Builds -> UNION {Survives(b) : b \in Builds}] :
                 \A b \in Builds : f[b] \in Survives(b)}
  /\ unsynced' = {}
  /\ Ended
  /\ intact' = FALSE
  /\ UNCHANGED <<tmps, saved>>

-----------------------------------------------------------------------------
Init ==
  /\ files = [b \in Builds |-> NoFile]
  /\ tmps = [b \in Builds |-> NoFile]
  /\ unsynced = {}
  /\ pc = "idle"
  /\ job = NoJob
  /\ buf = {}
  /\ todo = {} /\ success = TRUE
  /\ ret = Pending
  /\ saved = [b \in Builds |-> {}]
  /\ intact = TRUE

\* The daemon saves whole keymaps and updates one list of them.
Calls ==
  \/ \E b \in Builds : Begin("load", b, {}) \/ Begin("remove", b, {})
  \/ \E b \in Builds, data \in Saves : Begin("save", b, data)
  \/ \E b \in Builds, l \in Lists : Begin("update", b, {l})
  \/ Begin("clear", NoJob.build, {})

SaveSteps == Update \/ OpenTmp \/ WriteTmp \/ Rename

ClearSteps == ClearDone \/ ClearUnread \/ \E b \in Builds : ClearOne(b)

Next ==
  \/ Calls \/ Return
  \/ Load \/ SaveSteps \/ Remove \/ ClearSteps
  \/ Crash \/ PowerLoss

Spec == Init /\ [][Next]_vars

-----------------------------------------------------------------------------
(* Properties *)

\* The variables keep their types: among them, that what update saves is again a
\* keymap (update_bindings).
TypeOK ==
  /\ files \in [Builds -> Content]
  /\ tmps \in [Builds -> Content]
  /\ unsynced \subseteq Builds
  /\ pc \in {"idle", "load", "update", "open", "write", "rename", "remove", "clear", "done"}
  /\ job \in Jobs
  /\ buf \in Keymaps
  /\ todo \subseteq Builds /\ success \in BOOLEAN
  /\ ret \in [done : BOOLEAN, ok : BOOLEAN, found : Content]
  /\ saved \in [Builds -> SUBSET Keymaps]
  /\ intact \in BOOLEAN

\* Whatever fails and whenever the daemon or the machine stops, a build's file is a
\* keymap that was given to save for that build, or none that load would take: no
\* mixture, no other build's, nothing from a temporary file left behind.
OnlySavedIsLoaded == \A b \in Builds : Loaded(b) # NoFile => Loaded(b).data \in saved[b]

\* An update never makes a keymap poorer: with nothing torn, each list the file had
\* is in it after each step of the update (a loss of power is none).
UpdatesKeepLists ==
  [][\A b \in Builds :
       job.kind = "update" /\ job' = job /\ Loaded(b) # NoFile /\ files'[b].state # "torn"
       => files[b].data \subseteq files'[b].data]_vars

\* Until a text is written short, power is lost or the directory cannot be read, the
\* cache is a store whose operations happen at once or not at all, and say which: also
\* when calls fail, and when the daemon ends between any two of them. What it does not
\* say is whether a load that gives nothing found nothing or could not open the file.
Stored == [b \in Builds |-> Loaded(b)]
Store == INSTANCE KeymapStore WITH
           store <- Stored, op <- job, result <- ret, ReadsFail <- Fault("read")

ImplementsStore == Store!Init /\ [][intact' => Store!Next]_<<Stored, job, ret>>
=============================================================================
