--------------------------- MODULE KeymapRestart ---------------------------
(***************************************************************************)
(* KeymapSync with a daemon that stops and starts again (SIGTERM, or a     *)
(* crash and systemd's restart), or that opens its keyboard a second time  *)
(* (found by the scan and announced by udev), while the keyboard stays     *)
(* plugged in: queries of the old process or device are still on their way *)
(* to the keyboard, and the answers reach the new one.                     *)
(***************************************************************************)
EXTENDS KeymapSync

\* The process ends: its maps and its unread reports are gone, the files and the
\* queries already written stay.
Stop ==
  /\ linked
  /\ linked' = FALSE
  /\ probe' = 0
  /\ status' = NewStatus
  /\ km' = NoKeymap
  /\ toHost' = <<>>
  /\ Quiet
  /\ UNCHANGED <<fw, cache, toKbd, left>>

\* Mutant of Reconnect: the keyboard, known as it is, is not asked.
ReconnectAsksNothing ==
  /\ linked
  /\ Spend({"plug"})
  /\ \E r \in AnyCached(cache, NewStatus, km) :
       /\ km' = r.km
       /\ status' = r.st
       /\ signal' = Announced(r)
  /\ toHost' = <<>>
  /\ UNCHANGED <<fw, linked, probe, cache, toKbd>>

\* The keyboard is opened again under its id: onConnect resets status and probe and
\* keeps the keymap it finds in memory, if no file replaces it. Reports the old
\* device has not read are lost with its descriptor.
Reconnect ==
  /\ linked
  /\ Spend({"plug"})
  /\ \E r \in AnyCached(cache, NewStatus, km) :
       /\ km' = r.km
       /\ status' = r.st
       /\ signal' = Announced(r)
  /\ Send(AskCurrentAndSummary)
  /\ probe' = MaxRetries
  /\ toHost' = <<>>
  /\ UNCHANGED <<fw, linked, cache>>

RestartNext == Next \/ Stop \/ Reconnect

RestartSpec == Init /\ [][RestartNext]_vars

-----------------------------------------------------------------------------
(* Properties, for a keyboard that keeps its build *)

\* The file of the build that the keyboard runs holds that build's complete layer
\* list, although late answers of an earlier process or device may reach the keymap
\* of another build and be saved with it (onLayerInfo, save).
OwnFileWhole == cache[fw].present => Whole(cache[fw], fw)
=============================================================================
