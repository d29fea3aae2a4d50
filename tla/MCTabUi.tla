------------------------------ MODULE MCTabUi -------------------------------
(***************************************************************************)
(* Values for the constants of TabUi.                                      *)
(***************************************************************************)
EXTENDS TabUi

CONSTANTS t1, o1, v1, v2, k1
=============================================================================
