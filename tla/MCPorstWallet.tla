--------------------------- MODULE MCPorstWallet ---------------------------
(***************************************************************************)
(* Values of the constants of PorstWallet for TLC.                         *)
(***************************************************************************)
EXTENDS PorstWallet, TLC

CONSTANTS o1, o2, k1, k2, x1, b1, b2

OneKeyEach == (o1 :> k1) @@ (o2 :> k2)
OneKey == o1 :> k1
=============================================================================
