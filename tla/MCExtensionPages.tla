-------------------------- MODULE MCExtensionPages --------------------------
(***************************************************************************)
(* Values for the constants of ExtensionPages.                             *)
(***************************************************************************)
EXTENDS ExtensionPages

CONSTANTS dev, k1, k2, i1, i2
=============================================================================
