---------------------------- MODULE MCPorstPerp ----------------------------
(***************************************************************************)
(* Values of the constants of PorstPerp for TLC.                           *)
(***************************************************************************)
EXTENDS PorstPerp, TLC

CONSTANTS t1, t2, m1, m2, k1, k2

Terms(m, side, collateral, leverage, limit, sl, tp) ==
  [market |-> m, side |-> side, collateral |-> collateral,
   leverage |-> leverage, max_entry_price |-> limit, sl_price |-> sl,
   tp_price |-> tp]

Params(maintenance, leverage, fee, borrow) ==
  [maintenance_bps |-> maintenance, max_leverage |-> leverage,
   open_fee_bps |-> fee, borrow_fee_bps_per_hour |-> borrow]

OneKeyEach == (t1 :> k1) @@ (t2 :> k2)

(* A long with a stop-loss, a short with a take-profit, and a  *)
(* leverage the market must refuse.                                        *)
AccountingTerms ==
  {Terms(m1, SIDE_LONG, 10, 3, 7, 6, 0),
   Terms(m1, SIDE_SHORT, 10, 2, 6, 0, 6),
   Terms(m1, SIDE_LONG, 5, 8, 9, 0, 0)}

AccountingMarket == {Params(1000, 3, 500, 10000)}
=============================================================================
