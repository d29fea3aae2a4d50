--------------------------- MODULE MCChallengeFlow --------------------------
(***************************************************************************)
(* Values for the constants of ChallengeFlow.                              *)
(***************************************************************************)
EXTENDS ChallengeFlow

CONSTANTS n1, n2

Offsets == {-2, 0, 1}
=============================================================================
