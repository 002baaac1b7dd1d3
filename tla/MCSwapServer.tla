---------------------------- MODULE MCSwapServer ----------------------------
(***************************************************************************)
(* Values of the constants of SwapServer for TLC.                          *)
(***************************************************************************)
EXTENDS SwapServer, TLC

CONSTANTS A, B, a1, k1, h1, r1, r2

TheRoute == <<A, B>>
OnePool == {TheRoute}
Minimums == {MinOut(quote) : quote \in 0 .. Supply}
OneKey == a1 :> k1
=============================================================================
