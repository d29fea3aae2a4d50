----------------------------- MODULE MCQrLogin ------------------------------
(***************************************************************************)
(* Values for the constants of QrLogin.                                    *)
(***************************************************************************)
EXTENDS QrLogin

CONSTANTS p1, p2, a1, a2, key1, key2
=============================================================================
