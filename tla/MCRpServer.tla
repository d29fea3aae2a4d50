----------------------------- MODULE MCRpServer -----------------------------
(***************************************************************************)
(* Values for the constants of RpServer.                                   *)
(***************************************************************************)
EXTENDS RpServer

CONSTANTS c1, c2, c3, c4, c5, c6, q1, q2, q3

\* What was signed: c1, and c4 of another cert_id that expires later;
\* c6 was given to another site.
Signed == [c \in Cert |->
    [SuiteFields EXCEPT !["cert_id"] = IF c = c4 THEN 2 ELSE 1,
                        !["rp_id"] = IF c = c6 THEN "other.com" ELSE @,
                        !["expiry_ms"] = IF c = c4 THEN 2 ELSE 1]]

\* c5 is signed by somebody else.
Keys == [c \in Cert |-> IF c = c5 THEN "wrong key" ELSE ServerKey]

\* c2 is c1 with an unsigned field changed, c3 is c1 with its expiry changed.
Bodies == [c \in Cert |->
    [Sign(Signed[c], Keys[c]) EXCEPT
        !["extra_field"] = IF c = c2 THEN "ignored" ELSE @,
        !["expiry_ms"]   = IF c = c3 THEN 2 ELSE @]]
=============================================================================
