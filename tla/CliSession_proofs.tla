-------------------------- MODULE CliSession_proofs --------------------------
(***************************************************************************)
(* Proofs about CliSession, for any sets of ids and nodes, any number of   *)
(* moves, glitches, commands and timeouts: the types, that an answer is    *)
(* about a keyboard that is not closed, that a command without --device    *)
(* reaches a keyboard that stays active, and that the signals tell the     *)
(* exported objects.                                                       *)
(***************************************************************************)
EXTENDS CliSession, DeviceRegistry_proofs

cliAll == <<vars, cliVars>>

\* The registry keeps its invariants while the command line asks it things.
RegistryInv == TypeOK /\ Consistent

LEMMA RegistryStep ==
  ASSUME RegistryInv, [CliNext]_cliAll
  PROVE  RegistryInv'
<1>1. CASE Next
  BY <1>1, TypeStep, StepConsistent DEF RegistryInv
<1>2. CASE UNCHANGED registryVars
  BY <1>2
  DEF RegistryInv, registryVars, world, daemon, TypeOK, Consistent, MapsAgree, ActiveIsListed, Listed
<1>3. CASE UNCHANGED cliAll
  BY <1>2, <1>3 DEF cliAll, vars, registryVars, world, daemon
<1>4. QED
  BY <1>1, <1>2, <1>3
  DEF CliNext, Registry, TimesOut, Begin, Resolve, Call, GetActiveDevice, GetFirstDevice,
      GetDevices, GetStatus, KeymapMethod, ReadOnly

LEMMA RegistryAlways == CliSpec => []RegistryInv
<1>1. CliInit => RegistryInv
  BY NamesAssumption, BoundsAssumption
  DEF CliInit, Init, RegistryInv, TypeOK, Consistent, MapsAgree, ActiveIsListed, Listed, Absent, Device
<1>2. RegistryInv /\ [CliNext]_cliAll => RegistryInv'
  BY RegistryStep
<1>3. QED
  BY <1>1, <1>2, PTL DEF CliSpec, cliAll

-----------------------------------------------------------------------------
LEMMA OutputTypes ==
  /\ NoOutput \in Output /\ Error \in Output
  /\ \A ids \in SUBSET Ids : [NoOutput EXCEPT !.kind = "list", !.ids = ids] \in Output
  /\ \A id \in Ids, node \in Nodes \cup {NoNode}, connected \in BOOLEAN :
       Answer(id, node, connected) \in Output
BY DEF NoOutput, Error, Answer, Output

LEMMA AnswerTypes ==
  ASSUME TypeOK, cli \in Cli
  PROVE  /\ (IF cli.target \in slots THEN StatusOf(cli.target) ELSE Error) \in Output
         /\ (IF cli.target \in slots
             THEN Answer(cli.target, devices[cli.target].node, TRUE) ELSE Error) \in Output
<1>1. CASE cli.target \in slots
  <2>1. cli.target \in Ids
    BY <1>1 DEF TypeOK
  <2>2. devices[cli.target].node \in Nodes \cup {NoNode}
        /\ statuses[cli.target] \in Nodes \cup {NoNode}
    BY <2>1 DEF TypeOK, Device
  <2>3. QED
    BY <1>1, <2>1, <2>2, OutputTypes DEF StatusOf
<1>2. CASE cli.target \notin slots
  BY <1>2, OutputTypes
<1>3. QED
  BY <1>1, <1>2

LEMMA GotoTypes ==
  ASSUME cli \in Cli, NEW pc \in {"idle", "active", "first", "list", "call"}, Goto(pc)
  PROVE  cli' \in Cli
BY DEF Goto, Cli

LEMMA SeenTypes ==
  ASSUME TypeOK
  PROVE  Now \in [steady : BOOLEAN, late : BOOLEAN, actives : SUBSET Ids]
BY DEF TypeOK, Now, Steady

LEMMA CliTypeStep ==
  ASSUME TypeOK, TypeOK', CliTypeOK, [CliNext]_cliAll
  PROVE  CliTypeOK'
<1>1. CASE UNCHANGED cliAll
  BY <1>1 DEF cliAll, cliVars, CliTypeOK
<1>2. CASE Registry
  <2>1. active' \in Ids \cup {NoId}
    BY DEF TypeOK
  <2>2. seen' \in [steady : BOOLEAN, late : BOOLEAN, actives : SUBSET Ids]
    BY <1>2, <2>1 DEF Registry, CliTypeOK, Steady
  <2>3. QED
    BY <1>2, <2>2 DEF Registry, CliTypeOK
<1>3. CASE TimesOut
  <2>1. cli' \in Cli
    <3>1. Goto("first") \/ Goto("call") \/ Goto("idle")
      BY <1>3 DEF TimesOut, Prints
    <3>2. QED
      BY <3>1, GotoTypes DEF CliTypeOK
  <2>2. out' \in Output
    BY <1>3, OutputTypes DEF TimesOut, Prints, CliTypeOK
  <2>3. timeouts' \in Nat /\ seen' \in [steady : BOOLEAN, late : BOOLEAN, actives : SUBSET Ids]
    <3>1. timeouts' \in Nat
      BY <1>3 DEF TimesOut, CliTypeOK
    <3>2. seen' = [seen EXCEPT !.late = TRUE]
          /\ seen \in [steady : BOOLEAN, late : BOOLEAN, actives : SUBSET Ids]
      BY <1>3 DEF TimesOut, CliTypeOK
    <3>3. QED
      BY <3>1, <3>2
  <2>4. QED
    BY <1>3, <2>1, <2>2, <2>3 DEF TimesOut, CliTypeOK
<1>4. ASSUME NEW id \in Ids \cup {NoId}, NEW cmd \in ObjectCommands \cup {"devices"}, Begin(cmd, id)
      PROVE  CliTypeOK'
  <2>1. cli' \in Cli
    BY <1>4 DEF Begin, Cli
  <2>2. commands' \in Nat
    BY <1>4 DEF Begin, CliTypeOK
  <2>3. QED
    BY <1>4, <2>1, <2>2, OutputTypes, SeenTypes DEF Begin, CliTypeOK
<1>5. CASE Resolve
  <2>1. active \in Ids \cup {NoId} /\ Listed \subseteq Ids
    BY DEF TypeOK, Listed
  <2>2. cli' \in Cli
    BY <1>5, <2>1, GotoTypes DEF Resolve, GetActiveDevice, GetFirstDevice, CliTypeOK, Cli
  <2>3. QED
    BY <1>5, <2>2 DEF Resolve, GetActiveDevice, GetFirstDevice, ReadOnly, CliTypeOK
<1>6. CASE Call
  <2>1. Listed \in SUBSET Ids
    BY DEF Listed
  <2>2. out' \in Output
    BY <1>6, <2>1, OutputTypes, AnswerTypes
    DEF Call, GetDevices, GetStatus, KeymapMethod, Prints, CliTypeOK
  <2>3. cli' \in Cli
    BY <1>6, GotoTypes DEF Call, GetDevices, GetStatus, KeymapMethod, Prints, CliTypeOK
  <2>4. QED
    BY <1>6, <2>2, <2>3 DEF Call, GetDevices, GetStatus, KeymapMethod, ReadOnly, CliTypeOK
<1>7. QED
  BY <1>1, <1>2, <1>3, <1>4, <1>5, <1>6 DEF CliNext

\* The variables of the command line keep their types: a resolved target is one
\* keyboard or none.
THEOREM CliTypeCorrect == CliSpec => []CliTypeOK
<1>1. CliInit => CliTypeOK
  <2>1. ASSUME CliInit PROVE seen \in [steady : BOOLEAN, late : BOOLEAN, actives : SUBSET Ids]
    <3>1. active = NoId /\ slots = {} /\ seen = Now
      BY <2>1 DEF CliInit, Init
    <3>2. {active} \ {NoId} \in SUBSET Ids /\ (active \in slots) \in BOOLEAN
      BY <3>1
    <3>3. QED
      BY <3>1, <3>2 DEF Now, Steady
  <2>2. ASSUME CliInit PROVE cli \in Cli /\ out \in Output
    BY <2>2, OutputTypes DEF CliInit, Cli
  <2>3. ASSUME CliInit PROVE commands \in Nat /\ timeouts \in Nat
    BY <2>3, CliBoundsAssumption DEF CliInit
  <2>4. QED
    BY <2>1, <2>2, <2>3 DEF CliTypeOK
<1>2. RegistryInv /\ RegistryInv' /\ CliTypeOK /\ [CliNext]_cliAll => CliTypeOK'
  BY CliTypeStep DEF RegistryInv
<1>3. QED
  BY RegistryAlways, <1>1, <1>2, PTL DEF CliSpec, cliAll

-----------------------------------------------------------------------------
(* Answers are about keyboards that are there *)

AnswerIsLive ==
  out.kind = "none" /\ out'.kind = "answer" =>
    \A id \in out'.ids :
      out'.connected /\ out'.node = devices[id].node /\ devices[id].fd # "closed"

\* An exported keyboard is not closed, and its status names its node.
LEMMA ExportedIsOpen ==
  ASSUME RegistryInv, NEW id \in slots
  PROVE  /\ id \in Ids
         /\ devices[id].fd # "closed"
         /\ StatusOf(id) = Answer(id, devices[id].node, TRUE)
<1>1. id \in Ids /\ devices[id].fd # "closed"
  BY DEF RegistryInv, Consistent, MapsAgree
<1>2. statuses[id] = devices[id].node
  BY <1>1 DEF RegistryInv, Consistent, MapsAgree
<1>3. QED
  BY <1>1, <1>2 DEF StatusOf

LEMMA LiveStep ==
  ASSUME RegistryInv, [CliNext]_cliAll
  PROVE  AnswerIsLive
<1>1. CASE GetStatus \/ KeymapMethod
  <2>1. CASE cli.target \in slots
    <3>1. out' = Answer(cli.target, devices[cli.target].node, TRUE)
      BY <1>1, <2>1, ExportedIsOpen DEF GetStatus, KeymapMethod, Prints
    <3>2. QED
      BY <2>1, <3>1, ExportedIsOpen DEF AnswerIsLive, Answer
  <2>2. CASE cli.target \notin slots
    BY <1>1, <2>2 DEF GetStatus, KeymapMethod, Prints, Error, NoOutput, AnswerIsLive
  <2>3. QED
    BY <2>1, <2>2
<1>2. CASE out' = out
  BY <1>2 DEF AnswerIsLive
<1>3. CASE GetDevices
  BY <1>3 DEF GetDevices, Prints, NoOutput, AnswerIsLive
<1>4. ASSUME NEW id, NEW cmd, Begin(cmd, id) PROVE AnswerIsLive
  BY <1>4 DEF Begin, NoOutput, AnswerIsLive
<1>5. CASE TimesOut
  <2>1. CASE out' = Error
    BY <2>1 DEF Error, NoOutput, AnswerIsLive
  <2>2. QED
    BY <1>2, <1>5, <2>1 DEF TimesOut, Prints
<1>6. QED
  BY <1>1, <1>2, <1>3, <1>4, <1>5
  DEF CliNext, Registry, Resolve, Call, GetActiveDevice, GetFirstDevice, cliAll, cliVars

\* What the command line prints of a keyboard is true of it at that moment: it is
\* connected, on that node. A keyboard that is gone is an error.
THEOREM StatusIsLiveAlways == CliSpec => StatusIsLive
<1>1. RegistryInv /\ [CliNext]_cliAll => [AnswerIsLive]_cliAll
  BY LiveStep
<1>2. QED
  BY RegistryAlways, <1>1, PTL DEF CliSpec, StatusIsLive, AnswerIsLive, cliAll

-----------------------------------------------------------------------------
(* A keyboard that stays active is reached *)

\* While one keyboard has been active and exported since the command began, the
\* command is about it, unless a call was late.
SteadyInv ==
  /\ cli.pc # "idle" => out.kind = "none"
  /\ cli.pc # "idle" /\ seen.steady => active \in slots /\ seen.actives = {active}
  /\ cli.pc = "first" /\ seen.steady => seen.late
  /\ cli.pc = "call" /\ cli.arg = NoId /\ seen.steady /\ ~seen.late => cli.target = active
  /\ SteadyTargetAnswers

LEMMA SteadyStep ==
  ASSUME RegistryInv, RegistryInv', CliTypeOK, CliTypeOK', SteadyInv, [CliNext]_cliAll
  PROVE  SteadyInv'
<1> USE NamesAssumption
<1>1. slots \subseteq Ids
  BY DEF RegistryInv, TypeOK
<1>2. CASE UNCHANGED cliAll
  BY <1>2 DEF cliAll, cliVars, vars, SteadyInv, SteadyTargetAnswers
<1>3. CASE Registry
  <2>1. CASE cli.pc = "idle"
    BY <1>3, <2>1 DEF Registry, SteadyInv, SteadyTargetAnswers
  <2>2. CASE cli.pc # "idle"
    <3>1. seen'.late = seen.late
          /\ (seen'.steady => seen.steady /\ active' \in slots' /\ active' = active)
          /\ seen'.actives = seen.actives \cup ({active'} \ {NoId})
      BY <1>3, <2>2 DEF Registry, CliTypeOK, Steady
    <3>2. cli' = cli /\ out' = out
      BY <1>3 DEF Registry
    <3>3. seen'.steady => seen'.actives = {active'}
      BY <2>2, <3>1 DEF SteadyInv
    <3>4. QED
      BY <2>2, <3>1, <3>2, <3>3 DEF SteadyInv, SteadyTargetAnswers
  <2>3. QED
    BY <2>1, <2>2
<1>4. CASE TimesOut
  <2>1. seen'.late /\ seen'.steady = seen.steady /\ seen'.actives = seen.actives
        /\ slots' = slots /\ active' = active
    BY <1>4 DEF TimesOut, CliTypeOK, registryVars, daemon
  <2>2. cli'.pc # "idle" => cli.pc # "idle" /\ out' = out
    BY <1>4 DEF TimesOut, Prints, Goto, CliTypeOK, Cli
  <2>3. QED
    BY <2>1, <2>2 DEF SteadyInv, SteadyTargetAnswers
<1>5. ASSUME NEW id \in Ids \cup {NoId}, NEW cmd \in ObjectCommands \cup {"devices"}, Begin(cmd, id)
      PROVE  SteadyInv'
  <2>1. out'.kind = "none" /\ cli'.pc # "first" /\ (cli'.pc = "call" => cli'.arg # NoId)
    BY <1>5 DEF Begin, NoOutput
  <2>2. seen'.steady => active' \in slots' /\ seen'.actives = {active'}
    BY <1>1, <1>5 DEF Begin, Now, Steady, registryVars, daemon
  <2>3. QED
    BY <2>1, <2>2 DEF SteadyInv, SteadyTargetAnswers
<1>6. CASE Resolve
  <2>1. seen' = seen /\ out' = out /\ slots' = slots /\ active' = active
    BY <1>6 DEF Resolve, GetActiveDevice, GetFirstDevice, ReadOnly, registryVars, daemon
  <2>2. CASE GetActiveDevice
    <3>1. CASE active = NoId
      BY <1>1, <2>1, <2>2, <3>1
      DEF GetActiveDevice, Calling, Goto, SteadyInv, SteadyTargetAnswers, CliTypeOK, Cli
    <3>2. CASE active # NoId
      BY <2>1, <2>2, <3>2
      DEF GetActiveDevice, Calling, SteadyInv, SteadyTargetAnswers, CliTypeOK, Cli
    <3>3. QED
      BY <3>1, <3>2
  <2>3. CASE GetFirstDevice
    <3>1. PICK id \in IF Listed = {} THEN {NoId} ELSE Listed :
            cli' = [cli EXCEPT !.pc = "call", !.target = id]
      BY <2>3 DEF GetFirstDevice
    <3>2. cli.pc = "first" /\ cli'.pc = "call" /\ cli'.arg = cli.arg
      BY <2>3, <3>1 DEF GetFirstDevice, Calling, CliTypeOK, Cli
    <3>3. QED
      BY <2>1, <3>2 DEF SteadyInv, SteadyTargetAnswers
  <2>4. QED
    BY <1>6, <2>2, <2>3 DEF Resolve
<1>7. CASE Call
  <2>1. seen' = seen /\ cli'.pc = "idle" /\ cli'.arg = cli.arg
    BY <1>7 DEF Call, GetDevices, GetStatus, KeymapMethod, Prints, Goto, ReadOnly, CliTypeOK, Cli
  <2>2. /\ out'.kind = "error" => cli.pc = "call" /\ cli.target \notin slots
        /\ out'.kind = "answer" => cli.pc = "call" /\ out'.ids = {cli.target}
    <3>1. CASE GetDevices
      BY <3>1 DEF GetDevices, Prints, NoOutput
    <3>2. CASE GetStatus \/ KeymapMethod
      <4>1. \A a \in {StatusOf(cli.target), Answer(cli.target, devices[cli.target].node, TRUE)} :
              a.kind = "answer" /\ a.ids = {cli.target}
        BY DEF StatusOf, Answer
      <4>2. QED
        BY <3>2, <4>1 DEF GetStatus, KeymapMethod, Calling, Prints, Error, NoOutput
    <3>3. QED
      BY <1>7, <3>1, <3>2 DEF Call
  <2>3. QED
    BY <2>1, <2>2 DEF SteadyInv, SteadyTargetAnswers
<1>8. QED
  BY <1>2, <1>3, <1>4, <1>5, <1>6, <1>7 DEF CliNext

\* A command without --device succeeds, and answers for the active keyboard, when one
\* was active and exported all the while, whatever the others did.
THEOREM SteadyTargetAlways == CliSpec => []SteadyTargetAnswers
<1>1. CliInit => SteadyInv
  BY DEF CliInit, SteadyInv, SteadyTargetAnswers, NoOutput
<1>2. RegistryInv /\ RegistryInv' /\ CliTypeOK /\ CliTypeOK' /\ SteadyInv /\ [CliNext]_cliAll
        => SteadyInv'
  BY SteadyStep
<1>3. SteadyInv => SteadyTargetAnswers
  BY DEF SteadyInv
<1>4. QED
  BY RegistryAlways, CliTypeCorrect, <1>1, <1>2, <1>3, PTL DEF CliSpec, cliAll

-----------------------------------------------------------------------------
(* Signals *)

\* No command changes the exported objects or has them announced: a client that
\* follows the signals knows them also while others call (registerDevice,
\* unregisterDevice, and the methods of DBusServer, which only read).
THEOREM CliSignalsTellAlways == CliSpec => SignalsTellObjects
<1>1. [CliNext]_cliAll => [Followed(slots, emitted') = slots']_vars
  <2>1. SUFFICES ASSUME CliNext PROVE Followed(slots, emitted') = slots'
    BY DEF cliAll
  <2>2. CASE Registry
    BY <2>2, NextTells DEF Registry
  <2>3. CASE emitted' = <<>> /\ slots' = slots
    <3>1. Followed(slots, <<>>) = slots
      BY FollowedNone
    <3>2. QED
      BY <2>3, <3>1
  <2>4. QED
    BY <2>1, <2>2, <2>3
    DEF CliNext, TimesOut, Begin, Resolve, Call, GetActiveDevice, GetFirstDevice,
        GetDevices, GetStatus, KeymapMethod, ReadOnly, registryVars, daemon
<1>2. QED
  BY <1>1, PTL DEF CliSpec, SignalsTellObjects, cliAll
=============================================================================
