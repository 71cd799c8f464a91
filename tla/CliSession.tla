----------------------------- MODULE CliSession -----------------------------
(***************************************************************************)
(* strata-cli beside the daemon of DeviceRegistry. A command is one to     *)
(* three D-Bus calls: which keyboard is meant, then the call on its        *)
(* object. Between two calls of a command keyboards come and go, and a     *)
(* call may fail for lack of time while the daemon's thread is busy.       *)
(*                                                                         *)
(* What GetLayers, GetKeymap and ClearCache do to keymaps is the subject   *)
(* of KeymapSync; here they are calls on an object that is there or not.   *)
(***************************************************************************)
EXTENDS DeviceRegistry

CONSTANTS
  Commands,    \* how many commands the user gives
  Timeouts     \* how many calls get no answer in time

ASSUME CliBoundsAssumption == Commands \in Nat /\ Timeouts \in Nat

VARIABLES
  cli,         \* the command under way: its next call, its keyboard
  out,         \* what the last command has printed
  seen,        \* what has happened to the daemon during the command (history)
  commands, timeouts

cliVars == <<cli, out, seen, commands, timeouts>>
registryVars == <<world, daemon, phase, toScan, glitches>>

-----------------------------------------------------------------------------
ObjectCommands == {"status", "layers", "keymap", "clear"}

\* The path .../devices/none stands for NoId.
Cli == [pc : {"idle", "active", "first", "list", "call"},
        cmd : ObjectCommands \cup {"devices"},
        arg : Ids \cup {NoId}, target : Ids \cup {NoId}]

Output == [kind : {"none", "list", "answer", "error"}, ids : SUBSET Ids,
           node : Nodes \cup {NoNode}, connected : BOOLEAN]
NoOutput == [kind |-> "none", ids |-> {}, node |-> NoNode, connected |-> FALSE]
Error == [NoOutput EXCEPT !.kind = "error"]
Answer(id, node, connected) ==
  [kind |-> "answer", ids |-> {id}, node |-> node, connected |-> connected]

\* steady: one keyboard was active and exported all the time; late: a call got no
\* answer in time; actives: the keyboards that were active.
Steady == active \in slots
Now == [steady |-> Steady, late |-> FALSE, actives |-> {active} \ {NoId}]

-----------------------------------------------------------------------------
(* The command line *)

Begin(cmd, arg) ==
  /\ cli.pc = "idle"
  /\ commands > 0 /\ commands' = commands - 1
  /\ cli' = [pc |-> IF cmd = "devices" THEN "list" ELSE IF arg = NoId THEN "active" ELSE "call",
             cmd |-> cmd, arg |-> arg, target |-> arg]
  /\ out' = NoOutput
  /\ seen' = Now
  /\ emitted' = <<>>
  /\ UNCHANGED <<registryVars, timeouts>>

\* The daemon takes calls from its loop, so none is answered before the scan is over.
Calling(call) == phase = "run" /\ cli.pc = call

Goto(pc) == cli' = [cli EXCEPT !.pc = pc]

Prints(output) == out' = output /\ Goto("idle")

ReadOnly == emitted' = <<>> /\ UNCHANGED <<registryVars, seen, commands, timeouts>>

\* Mutants of GetActiveDevice: the first keyboard is asked for in any case, the
\* question is put until there is an active one.
GetActiveSkipped ==
  /\ Calling("active")
  /\ Goto("first")
  /\ out' = out
  /\ ReadOnly

GetActiveAgain ==
  /\ Calling("active")
  /\ active # NoId
  /\ cli' = [cli EXCEPT !.pc = "call", !.target = active]
  /\ out' = out
  /\ ReadOnly

GetActiveDevice ==
  /\ Calling("active")
  /\ IF active = NoId THEN Goto("first")
     ELSE cli' = [cli EXCEPT !.pc = "call", !.target = active]
  /\ out' = out
  /\ ReadOnly

\* Mutant of GetFirstDevice: the array is taken for its first entry.
GetFirstWhole ==
  /\ Calling("first")
  /\ cli' = [cli EXCEPT !.pc = "call", !.target = IF Listed = {} THEN NoId ELSE Listed]
  /\ out' = out
  /\ ReadOnly

\* Without an active keyboard, the first of the list; its order is the hash map's.
GetFirstDevice ==
  /\ Calling("first")
  /\ \E id \in IF Listed = {} THEN {NoId} ELSE Listed :
       cli' = [cli EXCEPT !.pc = "call", !.target = id]
  /\ out' = out
  /\ ReadOnly

GetDevices ==
  /\ Calling("list")
  /\ Prints([NoOutput EXCEPT !.kind = "list", !.ids = Listed])
  /\ ReadOnly

\* get_status_for: the daemon's entry, or else what the manager's device says.
StatusOf(id) ==
  IF statuses[id] # NoNode THEN Answer(id, statuses[id], TRUE)
  ELSE Answer(id, devices[id].node, devices[id].fd # "closed")

\* A call on the object, which sd-bus refuses when none is exported there.
GetStatus ==
  /\ Calling("call") /\ cli.cmd = "status"
  /\ Prints(IF cli.target \in slots THEN StatusOf(cli.target) ELSE Error)
  /\ ReadOnly

KeymapMethod ==
  /\ Calling("call") /\ cli.cmd \in ObjectCommands \ {"status"}
  /\ Prints(IF cli.target \in slots
            THEN Answer(cli.target, devices[cli.target].node, TRUE) ELSE Error)
  /\ ReadOnly

\* resolve_target takes a failed call for an empty answer; the other calls end the
\* command.
TimesOut ==
  /\ cli.pc # "idle"
  /\ timeouts > 0 /\ timeouts' = timeouts - 1
  /\ \/ cli.pc = "active" /\ Goto("first") /\ out' = out
     \/ cli.pc = "first" /\ Goto("call") /\ out' = out
     \/ cli.pc \in {"list", "call"} /\ Prints(Error)
  /\ seen' = [seen EXCEPT !.late = TRUE]
  /\ emitted' = <<>>
  /\ UNCHANGED <<registryVars, commands>>

-----------------------------------------------------------------------------
CliInit ==
  /\ Init
  /\ cli = [pc |-> "idle", cmd |-> "devices", arg |-> NoId, target |-> NoId]
  /\ out = NoOutput
  /\ seen = Now
  /\ commands = Commands /\ timeouts = Timeouts

\* A step of the daemon or of the world, as a command sees it.
Registry ==
  /\ Next
  /\ seen' = IF cli.pc = "idle" THEN seen ELSE
               [seen EXCEPT !.steady = @ /\ Steady' /\ active' = active,
                            !.actives = @ \cup ({active'} \ {NoId})]
  /\ UNCHANGED <<cli, out, commands, timeouts>>

Resolve == GetActiveDevice \/ GetFirstDevice
Call == GetDevices \/ GetStatus \/ KeymapMethod

CliNext ==
  \/ Registry \/ TimesOut
  \/ \E id \in Ids \cup {NoId}, cmd \in ObjectCommands : Begin(cmd, id)
  \/ Begin("devices", NoId)
  \/ Resolve \/ Call

CliSpec == CliInit /\ [][CliNext]_<<vars, cliVars>>

\* The loop drains D-Bus each time round, after the scan.
CliFairness ==
  /\ WF_<<vars, cliVars>>(Scan /\ Registry)
  /\ WF_<<vars, cliVars>>(Resolve) /\ WF_<<vars, cliVars>>(Call)

CliFairSpec == CliSpec /\ CliFairness

-----------------------------------------------------------------------------
(* Properties *)

\* The variables keep their types; the keyboard that a command resolves is one
\* keyboard or none.
CliTypeOK ==
  /\ cli \in Cli
  /\ out \in Output
  /\ seen \in [steady : BOOLEAN, late : BOOLEAN, actives : SUBSET Ids]
  /\ commands \in Nat /\ timeouts \in Nat

\* "--device <id> (default: active device)": a command without it succeeds, and its
\* answer is the active keyboard's, when one keyboard was active and exported all the
\* while, however others came and went, unless a call got no answer in time
\* (resolve_target against the registry).
SteadyTargetAnswers ==
  cli.arg = NoId /\ seen.steady /\ ~seen.late =>
    out.kind # "error" /\ (out.kind = "answer" => out.ids = seen.actives)

\* An answer is about a keyboard that is not closed: a status says connected and names
\* the node on which the keyboard is listed at that moment. What is gone is an error,
\* never a stale status (get_status_for, Forget).
StatusIsLive ==
  [][out.kind = "none" /\ out'.kind = "answer" =>
       \A id \in out'.ids :
         out'.connected /\ out'.node = devices[id].node /\ devices[id].fd # "closed"]_<<vars, cliVars>>

\* Every command ends: also when no keyboard is there, when one goes between the calls,
\* and when it is given during the scan.
CommandEnds == cli.pc # "idle" ~> cli.pc = "idle"
=============================================================================
