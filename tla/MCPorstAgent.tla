---------------------------- MODULE MCPorstAgent ----------------------------
(***************************************************************************)
(* Values of the constants of PorstAgent for TLC: the two pools that       *)
(* anybody can create over the same pair of tokens.                        *)
(***************************************************************************)
EXTENDS PorstAgent, TLC

CONSTANTS A, B, a1, k1, h1, b1

TwoPools == {<<A, B>>, <<B, A>>}
OneKey == a1 :> k1
=============================================================================
