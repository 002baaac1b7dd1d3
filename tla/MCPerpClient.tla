---------------------------- MODULE MCPerpClient ----------------------------
(***************************************************************************)
(* Values of the constants of PerpClient for TLC.                          *)
(***************************************************************************)
EXTENDS PerpClient

CONSTANTS p1, p2

Number(v, x) == [value |-> v, x |-> x]

(* "short 200 USDT at 5x".                                                 *)
TypedTexts ==
  {[decide |-> FALSE, words |-> {"short"},
    numbers |-> << Number(200, FALSE), Number(5, TRUE) >>]}

DefaultLimits ==
  [maxLeverage |-> 20, maxCollateral |-> 5000, minCollateral |-> 1,
   maxNotional |-> 50000, requireSlAboveLeverage |-> 10,
   maxOpenPositions |-> 5]
=============================================================================
