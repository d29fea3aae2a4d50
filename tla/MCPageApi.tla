----------------------------- MODULE MCPageApi ------------------------------
(***************************************************************************)
(* Values for the constants of PageApi.                                    *)
(***************************************************************************)
EXTENDS PageApi

CONSTANTS a1, a2, g1, g2
=============================================================================
