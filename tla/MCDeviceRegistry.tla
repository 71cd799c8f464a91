-------------------------- MODULE MCDeviceRegistry --------------------------
(* Instances of DeviceRegistry for TLC. *)
EXTENDS DeviceRegistry, TLC

CONSTANTS k1, k2, n1, n2

TwoIds == {k1, k2}
TwoNodes == {n1, n2}
=============================================================================
