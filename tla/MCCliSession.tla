---------------------------- MODULE MCCliSession ----------------------------
(* Instances of CliSession for TLC. *)
EXTENDS CliSession, TLC

CONSTANTS k1, k2, n1, n2

TwoIds == {k1, k2}
TwoNodes == {n1, n2}
=============================================================================
