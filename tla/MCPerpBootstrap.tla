-------------------------- MODULE MCPerpBootstrap --------------------------
(***************************************************************************)
(* Values of the constants of PerpBootstrap for TLC.                       *)
(***************************************************************************)
EXTENDS PerpBootstrap

CONSTANTS k1, k2, m1, m2, m3, m4, m5, m6
=============================================================================
