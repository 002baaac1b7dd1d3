--------------------------- MODULE MCPerpServer ---------------------------
(***************************************************************************)
(* Values of the constants of PerpServer for TLC.  The constants of        *)
(* PorstPerp that describe what its environment may do are derived from    *)
(* those of the backend, so that EngineSteps compares the two.             *)
(***************************************************************************)
EXTENDS PerpServer, TLC

CONSTANTS t1, m1, k1, r1, r2, r3

OneKey == t1 :> k1

AllTerms ==
  {TermsOf(x, price) : x \in Plans, price \in FeedPrices} \cap TermsSet

RequestExpiries ==
  {d + RequestTTL : d \in {e \in 0 .. MaxTime : e % TickSeconds = 0}}

Times == 0 .. MaxTime

Plan(side, collateral, leverage, sl, tp) ==
  [side |-> side, collateral |-> collateral, leverage |-> leverage,
   slPct |-> sl, tpPct |-> tp]

LongAndShort ==
  {Plan(SIDE_LONG, 100, 2, 2, 0), Plan(SIDE_SHORT, 200, 2, 0, 3)}

(* A stop-loss more than a hundred percent away, above the leverage that   *)
(* needs one.                                                              *)
DeepStop == Plan(SIDE_LONG, 100, 3, 103, 0)

(* Two good ones, and: leverage or notional over the limit, no stop above  *)
(* the leverage that needs one or one without effect, a negative amount.   *)
MixedPlans ==
  {Plan(SIDE_LONG, 100, 3, 2, 0), Plan(SIDE_SHORT, 200, 2, 0, 3),
   Plan(SIDE_LONG, 100, 5, 2, 0), Plan(SIDE_LONG, 200, 3, 2, 0),
   Plan(SIDE_LONG, 100, 3, 0, 0), Plan(SIDE_SHORT, -100, 2, 0, 0), DeepStop}

(* The maintenance margin is high, for the moves of the feed that one run  *)
(* can hold to liquidate a position of leverage 2.                         *)
OneMarket ==
  {[maintenance_bps |-> 4800, max_leverage |-> 4, open_fee_bps |-> 10,
    borrow_fee_bps_per_hour |-> 1]}

PolicyLimits ==
  [maxLeverage |-> 4, minCollateral |-> 1, maxCollateral |-> 500,
   maxNotional |-> 450, requireSlAboveLeverage |-> 2, maxOpenPositions |-> 1,
   maxExpirySeconds |-> 300]
=============================================================================
