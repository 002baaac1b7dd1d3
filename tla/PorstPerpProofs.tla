-------------------------- MODULE PorstPerpProofs --------------------------
(***************************************************************************)
(* What holds of PorstPerp for every set of traders and markets, every     *)
(* capacity and number of epochs, every price, term and amount.            *)
(***************************************************************************)
EXTENDS PorstPerp, FiniteSumsProofs, SequenceTheorems

-----------------------------------------------------------------------------
(* The settlement arithmetic, for all amounts, prices and rates.           *)

(* Rust's signed division by a positive number gives an integer.           *)
LEMMA TruncDivType ==
  ASSUME NEW a \in Int, NEW b \in Nat, b > 0
  PROVE  TruncDiv(a, b) \in Int
  BY DEF TruncDiv

(* The profit of a position opened at a positive price is an integer.      *)
LEMMA PnlType ==
  ASSUME NEW side, NEW n \in Nat, NEW entry \in Nat, NEW exit \in Nat,
         entry > 0
  PROVE  Pnl(side, n, entry, exit) \in Int
  <1> DEFINE raw == TruncDiv(n * (exit - entry), entry)
  <1>1. n * (exit - entry) \in Int
    OBVIOUS
  <1>2. raw \in Int
    BY <1>1, TruncDivType
  <1> HIDE DEF raw
  <1>3. Pnl(side, n, entry, exit) = IF side = SIDE_LONG THEN raw ELSE -raw
    BY DEF Pnl, raw
  <1> QED
    BY <1>2, <1>3

(* Fees and the maintenance margin are natural numbers (math::open_fee,    *)
(* math::maintenance and math::borrow_fee).                                *)
LEMMA BpsType ==
  ASSUME NEW n \in Nat, NEW bps \in Nat
  PROVE  /\ OpenFee(n, bps) \in Nat
         /\ Maintenance(n, bps) \in Nat
  <1>1. n * bps \in Nat
    OBVIOUS
  <1> QED
    BY <1>1 DEF OpenFee, Maintenance, BpsDenominator

LEMMA BorrowFeeType ==
  ASSUME NEW n \in Nat, NEW bps \in Nat, NEW elapsed \in Int
  PROVE  BorrowFee(n, bps, elapsed) \in Nat
  <1> DEFINE e == IF elapsed < 0 THEN 0 ELSE elapsed
  <1>1. e \in Nat
    OBVIOUS
  <1> HIDE DEF e
  <1>2. n * bps * e \in Nat
    BY <1>1
  <1>3. (n * bps * e) \div (10000 * 3600) \in Nat
    BY <1>2
  <1> QED
    BY <1>3 DEF BorrowFee, BpsDenominator, SecondsPerHour, e

(* A settlement never pays more than the vault holds, and never a negative *)
(* amount (the clamp of math::settle).                                     *)
LEMMA PayoutRange ==
  ASSUME NEW eq \in Int, NEW v \in Nat
  PROVE  Payout(eq, v) \in 0 .. v
  BY DEF Payout

(* A price that has not moved gives no profit, and no time no carry.       *)
LEMMA NothingAtOpening ==
  ASSUME NEW side, NEW n \in Nat, NEW entry \in Nat, entry > 0,
         NEW rate \in Nat
  PROVE  Pnl(side, n, entry, entry) = 0 /\ BorrowFee(n, rate, 0) = 0
  <1>1. n * (entry - entry) = 0
    OBVIOUS
  <1>2. TruncDiv(0, entry) = 0
    <2>1. 0 \div entry = 0
      OBVIOUS
    <2> QED
      BY <2>1 DEF TruncDiv
  <1>3. Pnl(side, n, entry, entry) = 0
    BY <1>1, <1>2 DEF Pnl
  <1>4. n * rate * 0 = 0
    OBVIOUS
  <1>5. BorrowFee(n, rate, 0) = 0
    BY <1>4 DEF BorrowFee, BpsDenominator, SecondsPerHour
  <1> QED
    BY <1>3, <1>5

(* Where the highest leverage times maintenance and opening fee leaves     *)
(* room, the collateral covers both.                                       *)
LEMMA MarginLeft ==
  ASSUME NEW c \in Nat, c > 0, NEW lev \in Nat, NEW n \in Nat,
         n <= c * lev, NEW mm \in Nat, NEW fee \in Nat,
         lev * (mm + fee) < BpsDenominator
  PROVE  c - OpenFee(n, fee) > Maintenance(n, mm)
  <1> DEFINE w == lev * (mm + fee)
             a == n * fee
             b == n * mm
  <1>1. w \in Nat /\ w + 1 <= 10000 /\ a \in Nat /\ b \in Nat
    BY DEF BpsDenominator
  <1>2. a + b = n * (mm + fee)
    OBVIOUS
  <1>3. n * (mm + fee) <= (c * lev) * (mm + fee)
    <2>1. /\ c * lev \in Nat /\ mm + fee \in Nat
      OBVIOUS
    <2>2. \A x, y, z \in Nat : x <= y => x * z <= y * z
      OBVIOUS
    <2> QED
      BY <2>1, <2>2
  <1>4. (c * lev) * (mm + fee) = c * w
    OBVIOUS
  <1> HIDE DEF w, a, b
  <1>5. c * w + c <= c * 10000
    <2>1. c * (w + 1) <= c * 10000
      <3>1. \A x, y, z \in Nat : x <= y => z * x <= z * y
        OBVIOUS
      <3> QED
        BY <1>1, <3>1
    <2> QED
      BY <1>1, <2>1
  <1>6. a + b < c * 10000
    BY <1>1, <1>2, <1>3, <1>4, <1>5
  <1>7. a \div 10000 + b \div 10000 < c
    BY <1>1, <1>6
  <1>8. OpenFee(n, fee) = a \div 10000 /\ Maintenance(n, mm) = b \div 10000
    BY DEF OpenFee, Maintenance, BpsDenominator, a, b
  <1>9. a \div 10000 \in Nat /\ b \div 10000 \in Nat
    BY <1>1
  <1> QED
    BY <1>7, <1>8, <1>9

-----------------------------------------------------------------------------
(* Type correctness.                                                       *)

(* The invariant behind the types: a settlement subtracts from the vault a *)
(* payout that is defined because entry prices are positive, and a price   *)
(* is never reset because an oracle without one has not been created.      *)
OracleUnset == ~oracle.live => oracle.price = 0

TypeInv == TypeOK /\ SettlementDefined /\ OracleUnset

(* The equity of a live position is an integer at every price and time.    *)
LEMMA EquityAtType ==
  ASSUME TypeOK, NEW p \in PositionState, p.entry_price > 0,
         NEW price \in Nat, NEW time \in Nat
  PROVE  EquityAt(p, price, time) \in Int
  <1> DEFINE mk == market[p.market]
             pnl == Pnl(p.side, p.notional, p.entry_price, price)
             open == OpenFee(p.notional, mk.open_fee_bps)
             borrow == BorrowFee(p.notional, mk.borrow_fee_bps_per_hour,
                                 time - p.open_time)
  <1>1. /\ p.collateral \in Nat /\ p.notional \in Nat
        /\ p.entry_price \in Nat /\ p.open_time \in Nat
        /\ mk.open_fee_bps \in Nat /\ mk.borrow_fee_bps_per_hour \in Nat
    BY DEF TypeOK, PositionState, MarketState
  <1>2. pnl \in Int
    BY <1>1, PnlType
  <1>3. open \in Nat
    BY <1>1, BpsType
  <1>4. borrow \in Nat
    <2>1. time - p.open_time \in Int
      BY <1>1
    <2> QED
      BY <1>1, <2>1, BorrowFeeType
  <1>5. EquityAt(p, price, time) = p.collateral + pnl - (open + borrow)
    BY DEF EquityAt, Equity
  <1> HIDE DEF pnl, open, borrow
  <1> QED
    BY <1>1, <1>2, <1>3, <1>4, <1>5

(* A settlement pays between nothing and the whole vault.                  *)
LEMMA PayoutAtRange ==
  ASSUME TypeInv, NEW p \in positions
  PROVE  PayoutAt(p, oracle.price, now) \in 0 .. vault[p.market]
  <1>1. p \in PositionState /\ p.entry_price > 0
    BY DEF TypeInv, TypeOK, SettlementDefined
  <1>2. oracle.price \in Nat /\ now \in Nat /\ vault[p.market] \in Nat
    BY <1>1 DEF TypeInv, TypeOK, OracleState, PositionState
  <1>3. EquityAt(p, oracle.price, now) \in Int
    BY <1>1, <1>2, EquityAtType DEF TypeInv
  <1> QED
    BY <1>2, <1>3, PayoutRange DEF PayoutAt

(* The helpers keep the accounts in their types.                           *)
LEMMA AddInterestType ==
  ASSUME NEW mk \in MarketState, NEW side, NEW n \in Nat
  PROVE  /\ AddInterest(mk, side, n) \in MarketState
         /\ AddInterest(mk, side, n).live = mk.live
  <1>1. /\ mk.total_long_notional + n \in Nat
        /\ mk.total_short_notional + n \in Nat
        /\ mk.open_positions + 1 \in Nat
    BY DEF MarketState
  <1>2. CASE side = SIDE_LONG
    BY <1>1, <1>2 DEF AddInterest, MarketState
  <1>3. CASE side # SIDE_LONG
    BY <1>1, <1>3 DEF AddInterest, MarketState
  <1> QED
    BY <1>2, <1>3

LEMMA ReleaseInterestType ==
  ASSUME NEW mk \in MarketState, NEW p \in PositionState
  PROVE  /\ ReleaseInterest(mk, p) \in MarketState
         /\ ReleaseInterest(mk, p).live = mk.live
  <1>1. \A a \in Nat, b \in Nat : SaturatingSub(a, b) \in Nat
    BY DEF SaturatingSub
  <1>2. p.notional \in Nat
    BY DEF PositionState
  <1>3. CASE p.side = SIDE_LONG
    BY <1>1, <1>2, <1>3 DEF ReleaseInterest, MarketState
  <1>4. CASE p.side # SIDE_LONG
    BY <1>1, <1>2, <1>4 DEF ReleaseInterest, MarketState
  <1> QED
    BY <1>3, <1>4

LEMMA AdvanceSigningType ==
  ASSUME NEW tr \in TraderState
  PROVE  AdvanceSigning(tr) \in TraderState
  <1>1. tr.nonce + 1 \in Nat /\ tr.used + 1 \in Nat /\ tr.epoch + 1 \in Nat
    BY DEF TraderState
  <1>2. CASE tr.used + 1 >= SigningCapacity
    BY <1>1, <1>2 DEF AdvanceSigning, TraderState
  <1>3. CASE ~(tr.used + 1 >= SigningCapacity)
    BY <1>1, <1>3 DEF AdvanceSigning, TraderState
  <1> QED
    BY <1>2, <1>3

(* What settling a position does to the accounts it touches.               *)
LEMMA SettleTypes ==
  ASSUME TypeInv, NEW p \in positions, SettleAndClose(p)
  PROVE  /\ vault' \in [Markets -> Nat]
         /\ usdt' \in [Traders -> [Markets -> Nat]]
         /\ market' \in [Markets -> MarketState]
         /\ \A m \in Markets : market'[m].live = market[m].live
         /\ positions' \subseteq positions
  <1> DEFINE pay == PayoutAt(p, oracle.price, now)
  <1>1. pay \in 0 .. vault[p.market]
    BY PayoutAtRange
  <1>2. /\ vault' = [vault EXCEPT ![p.market] = @ - pay]
        /\ usdt' = [usdt EXCEPT ![p.trader][p.market] = @ + pay]
        /\ market' = [market EXCEPT ![p.market] = ReleaseInterest(@, p)]
        /\ positions' = positions \ {p}
    BY DEF SettleAndClose
  <1>3. /\ p \in PositionState /\ p.market \in Markets /\ p.trader \in Traders
        /\ vault \in [Markets -> Nat]
        /\ usdt \in [Traders -> [Markets -> Nat]]
        /\ market \in [Markets -> MarketState]
    BY DEF TypeInv, TypeOK, PositionState
  <1> HIDE DEF pay
  <1>4. vault' \in [Markets -> Nat]
    BY <1>1, <1>2, <1>3
  <1>5. usdt' \in [Traders -> [Markets -> Nat]]
    BY <1>1, <1>2, <1>3
  <1>6. market' \in [Markets -> MarketState]
    BY <1>2, <1>3, ReleaseInterestType
  <1>7. ReleaseInterest(market[p.market], p).live = market[p.market].live
    BY <1>3, ReleaseInterestType
  <1>8. \A m \in Markets : market'[m].live = market[m].live
    BY <1>2, <1>3, <1>7
  <1> QED
    BY <1>2, <1>4, <1>5, <1>6, <1>8

(* The position an accepted intent creates.                                *)
LEMMA OpenTypes ==
  ASSUME TypeInv, NEW t \in Traders, NEW i \in signed, OpenPosition(t, i)
  PROVE  /\ i \in OpenIntents
         /\ i.terms \in OpenTerms
         /\ i.terms.market \in Markets
         /\ i.terms.collateral \in Nat /\ i.terms.leverage \in Nat
         /\ Notional(i.terms.collateral, i.terms.leverage) \in Nat
         /\ NewPosition(t, i.terms) \in PositionState
  <1>1. i \in OpenIntents
    BY DEF OpenPosition, TypeInv, TypeOK, Intents, CloseIntents
  <1>2. i.terms \in OpenTerms /\ i.terms \in TermsSet
    BY <1>1, SigningAssumption DEF OpenIntents
  <1>3. /\ i.terms.market \in Markets /\ i.terms.side \in Nat
        /\ i.terms.collateral \in Nat /\ i.terms.leverage \in Nat
        /\ i.terms.sl_price \in Nat /\ i.terms.tp_price \in Nat
    BY <1>2 DEF TermsSet
  <1>4. Notional(i.terms.collateral, i.terms.leverage) \in Nat
    BY <1>3 DEF Notional
  <1>5. i.terms.side \in Sides
    BY DEF OpenPosition
  <1>6. /\ trader[t].position_count \in Nat /\ oracle.price \in Nat
        /\ now \in Nat
    BY DEF TypeInv, TypeOK, TraderState, OracleState
  <1>7. NewPosition(t, i.terms) \in PositionState
    BY <1>3, <1>4, <1>5, <1>6 DEF NewPosition, PositionState
  <1> QED
    BY <1>1, <1>2, <1>3, <1>4, <1>7

(* The slots a client may hold are slots.                                  *)
LEMMA SlotTypes ==
  ASSUME TypeOK, NEW t \in Traders, NEW slot \in SlotsRead(t)
  PROVE  slot.epoch \in Nat /\ slot.nonce \in Nat
  <1>1. CASE slot = Slot(trader[t])
    BY <1>1 DEF Slot, TypeOK, TraderState
  <1>2. CASE slot # Slot(trader[t])
    <2>1. PICK s \in spent : slot = Slot(s.intent)
      BY <1>2 DEF SlotsRead
    <2>2. s.intent \in Intents
      BY DEF TypeOK
    <2> QED
      BY <2>1, <2>2 DEF Slot, Intents, OpenIntents, CloseIntents
  <1> QED
    BY <1>1, <1>2

LEMMA TypeInvInit == Init => TypeInv
  <1> SUFFICES ASSUME Init PROVE TypeInv
    OBVIOUS
  <1> USE DEF Init
  <1>1. oracle \in OracleState
    BY DEF OracleState
  <1>2. market \in [Markets -> MarketState]
    BY DEF MarketState
  <1>3. trader \in [Traders -> TraderState]
    BY SigningAssumption DEF TraderState
  <1>4. usdt \in [Traders -> [Markets -> Nat]]
    OBVIOUS
  <1> QED
    BY <1>1, <1>2, <1>3, <1>4 DEF TypeInv, TypeOK, SettlementDefined, OracleUnset

LEMMA TypeInvNext == TypeInv /\ [Next]_vars => TypeInv'
  <1> SUFFICES ASSUME TypeInv, [Next]_vars PROVE TypeInv'
    OBVIOUS
  <1> USE DEF TypeInv, OracleUnset
  <1>1. CASE InitOracle
    BY <1>1 DEF InitOracle, TypeOK, SettlementDefined, OracleState
  <1>2. ASSUME NEW m \in Markets, NEW q \in MarketParams, InitMarket(m, q)
        PROVE  TypeInv'
    <2>1. q \in MarketParamSet
      BY ChainAssumption
    <2>2. market' \in [Markets -> MarketState]
      BY <1>2, <2>1 DEF InitMarket, TypeOK, MarketState, MarketParamSet
    <2>3. \A k \in Markets : market[k].live => market'[k].live
      BY <1>2 DEF InitMarket, TypeOK
    <2>4. TypeOK'
      BY <1>2, <2>2 DEF InitMarket, TypeOK
    <2>5. SettlementDefined'
      BY <1>2, <2>3 DEF InitMarket, TypeOK, SettlementDefined, PositionState
    <2> QED
      BY <1>2, <2>4, <2>5 DEF InitMarket
  <1>3. ASSUME NEW t \in Traders, CreateTrader(t)
        PROVE  TypeInv'
    <2>1. KeyOf[t] \in Roots
      BY SigningAssumption
    <2>2. trader' \in [Traders -> TraderState]
      BY <1>3, <2>1 DEF CreateTrader, TypeOK, TraderState
    <2> QED
      BY <1>3, <2>2 DEF CreateTrader, TypeOK, SettlementDefined
  <1>4. ASSUME NEW t \in Traders, NEW m \in Markets, NEW a \in Deposits,
               FundTrader(t, m, a)
        PROVE  TypeInv'
    <2>1. a \in Nat
      BY ChainAssumption
    <2>2. usdt' \in [Traders -> [Markets -> Nat]]
      BY <1>4, <2>1 DEF FundTrader, TypeOK
    <2>3. minted' \in [Markets -> Nat]
      BY <1>4, <2>1 DEF FundTrader, TypeOK
    <2> QED
      BY <1>4, <2>2, <2>3 DEF FundTrader, TypeOK, SettlementDefined
  <1>5. ASSUME NEW m \in Markets, NEW a \in Deposits, FundVault(m, a)
        PROVE  TypeInv'
    <2>1. a \in Nat
      BY ChainAssumption
    <2>2. vault' \in [Markets -> Nat] /\ minted' \in [Markets -> Nat]
      BY <1>5, <2>1 DEF FundVault, TypeOK
    <2> QED
      BY <1>5, <2>2 DEF FundVault, TypeOK, SettlementDefined
  <1>6. ASSUME NEW price \in Prices, NEW time \in FeedTimes,
               UpdateOracle(price, time)
        PROVE  TypeInv'
    <2>1. price \in Nat /\ time \in Nat
      BY ChainAssumption
    <2> QED
      BY <1>6, <2>1
      DEF UpdateOracle, TypeOK, SettlementDefined, OracleState
  <1>7. ASSUME NEW t \in Traders, NEW expiry \in Expiries,
               NEW slot \in SlotsRead(t), NEW x \in OpenTerms,
               SignOpen(t, slot, x, expiry)
        PROVE  TypeInv'
    <2>1. expiry \in Nat
      BY SigningAssumption
    <2>2. slot.epoch \in Nat /\ slot.nonce \in Nat
      BY SlotTypes
    <2>3. signed' \subseteq Intents
      BY <1>7, <2>1, <2>2
      DEF SignOpen, TypeOK, Intents, OpenIntents, TraderState
    <2> QED
      BY <1>7, <2>3 DEF SignOpen, chain, TypeOK, SettlementDefined
  <1>8. ASSUME NEW t \in Traders, NEW expiry \in Expiries,
               NEW slot \in SlotsRead(t), NEW seq \in CloseSeqs,
               SignClose(t, slot, seq, expiry)
        PROVE  TypeInv'
    <2>1. expiry \in Nat /\ seq \in Nat
      BY SigningAssumption
    <2>2. slot.epoch \in Nat /\ slot.nonce \in Nat
      BY SlotTypes
    <2>3. signed' \subseteq Intents
      BY <1>8, <2>1, <2>2
      DEF SignClose, TypeOK, Intents, CloseIntents, TraderState
    <2> QED
      BY <1>8, <2>3 DEF SignClose, chain, TypeOK, SettlementDefined
  <1>9. ASSUME NEW t \in Traders, NEW i \in signed, OpenPosition(t, i)
        PROVE  TypeInv'
    <2> DEFINE x == i.terms
               n == Notional(x.collateral, x.leverage)
               new == NewPosition(t, x)
    <2>2. /\ x.market \in Markets /\ x.collateral \in Nat /\ n \in Nat
          /\ new \in PositionState
          /\ new.entry_price = oracle.price /\ new.market = x.market
      BY <1>9, OpenTypes DEF NewPosition
    <2>4. /\ x.side \in Sides /\ x.collateral <= usdt[t][x.market]
          /\ usdt' = [usdt EXCEPT ![t][x.market] = @ - x.collateral]
          /\ vault' = [vault EXCEPT ![x.market] = @ + x.collateral]
          /\ positions' = positions \cup {new}
          /\ market' = [market EXCEPT ![x.market] = AddInterest(@, x.side, n)]
          /\ trader' = [trader EXCEPT ![t] =
                          AdvanceSigning([trader[t] EXCEPT !.position_count = @ + 1])]
          /\ spent' = spent \cup {[trader |-> t, intent |-> i]}
          /\ UNCHANGED <<now, oracle, minted, signed>>
          /\ oracle.price > 0 /\ market[x.market].live
      BY <1>9 DEF OpenPosition, FreshPrice, CanCover
    <2> HIDE DEF new, n
    <2>5. usdt' \in [Traders -> [Markets -> Nat]]
      BY <2>2, <2>4 DEF TypeOK
    <2>6. vault' \in [Markets -> Nat]
      BY <2>2, <2>4 DEF TypeOK
    <2>8. market' \in [Markets -> MarketState]
      BY <2>2, <2>4, AddInterestType DEF TypeOK
    <2>9. trader' \in [Traders -> TraderState]
      <3>1. [trader[t] EXCEPT !.position_count = @ + 1] \in TraderState
        BY DEF TypeOK, TraderState
      <3>2. AdvanceSigning([trader[t] EXCEPT !.position_count = @ + 1])
              \in TraderState
        BY <3>1, AdvanceSigningType
      <3>3. trader \in [Traders -> TraderState]
        BY DEF TypeOK
      <3>4. trader' = [trader EXCEPT ![t] =
              AdvanceSigning([trader[t] EXCEPT !.position_count = @ + 1])]
        BY <2>4
      <3> QED
        BY <3>2, <3>3, <3>4
    <2>10. spent' \subseteq [trader : Traders, intent : Intents]
      BY <2>4, <1>9 DEF TypeOK
    <2>11. \A m \in Markets : market'[m].live = market[m].live
      <3>1. AddInterest(market[x.market], x.side, n).live
              = market[x.market].live
        BY <2>2, AddInterestType DEF TypeOK
      <3> QED
        BY <2>2, <2>4, <3>1 DEF TypeOK
    <2> HIDE DEF x
    <2>13. TypeOK'
      BY <2>2, <2>4, <2>5, <2>6, <2>8, <2>9, <2>10 DEF TypeOK
    <2>14. SettlementDefined'
      BY <2>2, <2>4, <2>11 DEF SettlementDefined, TypeOK, PositionState
    <2> QED
      BY <2>4, <2>13, <2>14
  <1>10. ASSUME NEW p \in positions, NEW i \in signed, ClosePosition(p, i)
         PROVE  TypeInv'
    <2>1. SettleAndClose(p)
      BY <1>10 DEF ClosePosition
    <2>2. p.trader \in Traders
      BY DEF TypeOK, PositionState
    <2>3. trader' \in [Traders -> TraderState]
      BY <1>10, <2>2, AdvanceSigningType DEF ClosePosition, TypeOK
    <2>4. spent' \subseteq [trader : Traders, intent : Intents]
      BY <1>10, <2>2 DEF ClosePosition, TypeOK
    <2>5. TypeOK'
      BY <1>10, <2>1, <2>3, <2>4, SettleTypes DEF ClosePosition, TypeOK
    <2>6. SettlementDefined'
      BY <1>10, <2>1, SettleTypes
      DEF ClosePosition, SettlementDefined, TypeOK, PositionState
    <2> QED
      BY <1>10, <2>5, <2>6 DEF ClosePosition
  <1>11. ASSUME NEW p \in positions, Liquidate(p) \/ Trigger(p)
         PROVE  TypeInv'
    <2>1. SettleAndClose(p)
      BY <1>11 DEF Liquidate, Trigger
    <2>2. UNCHANGED <<now, oracle, trader, minted, signed, spent>>
      BY <1>11 DEF Liquidate, Trigger
    <2>3. TypeOK'
      BY <2>1, <2>2, SettleTypes DEF TypeOK
    <2>4. SettlementDefined'
      BY <2>1, <2>2, SettleTypes DEF SettlementDefined, TypeOK, PositionState
    <2> QED
      BY <2>2, <2>3, <2>4
  <1>12. CASE Tick
    BY <1>12, ChainAssumption DEF Tick, chain, TypeOK, SettlementDefined
  <1>13. CASE UNCHANGED vars
    BY <1>13 DEF vars, TypeOK, SettlementDefined
  <1> QED
    BY <1>1, <1>2, <1>3, <1>4, <1>5, <1>6, <1>7, <1>8, <1>9, <1>10, <1>11,
       <1>12, <1>13
    DEF Next, Setup, Feed, Sign, Submit, Maintain

(* Every state of the engine is well typed: balances never go negative,    *)
(* and the payout of a settlement is always defined.                       *)
THEOREM TypeCorrect == Spec => []TypeOK
  <1>1. TypeInv => TypeOK
    BY DEF TypeInv
  <1> QED
    BY <1>1, TypeInvInit, TypeInvNext, PTL DEF Spec

(* The price and every entry price are positive wherever a settlement can  *)
(* happen, although close_position does not check the price.               *)
THEOREM SettlementAlwaysDefined == Spec => []SettlementDefined
  <1>1. TypeInv => SettlementDefined
    BY DEF TypeInv
  <1> QED
    BY <1>1, TypeInvInit, TypeInvNext, PTL DEF Spec
-----------------------------------------------------------------------------
(* The signing state.                                                      *)

NoSigningYet(tr) ==
  tr.epoch = 0 /\ tr.used = 0 /\ tr.nonce = 0 /\ tr.position_count = 0

LedgerOf(t) ==
  /\ trader[t].nonce = trader[t].epoch * SigningCapacity + trader[t].used
  /\ trader[t].used < SigningCapacity
  /\ trader[t].epoch <= NumEpochs
  /\ trader[t].epoch = NumEpochs => trader[t].used = 0
  /\ trader[t].nonce = Cardinality({s \in spent : s.trader = t})
  /\ trader[t].xmss_root = KeyOf[t]
  /\ ~trader[t].live => NoSigningYet(trader[t])

(* What was executed lies in the past of the trader's nonce, in the epoch  *)
(* its nonce belongs to, and under the trader's own key.                   *)
PastSlot(s) ==
  /\ s.intent.nonce < trader[s.trader].nonce
  /\ s.intent.epoch * SigningCapacity <= s.intent.nonce
  /\ s.intent.nonce < s.intent.epoch * SigningCapacity + SigningCapacity
  /\ s.intent.root = KeyOf[s.trader]

(* The inductive invariant: that no slot is used twice follows from every  *)
(* used slot lying below the present nonce.                                *)
SigningInv ==
  /\ IsFiniteSet(spent)
  /\ \A t \in Traders : LedgerOf(t)
  /\ \A s \in spent : PastSlot(s)
  /\ OneIntentPerSlot

LEMMA IntentType ==
  ASSUME NEW i \in Intents
  PROVE  i.nonce \in Nat /\ i.epoch \in Nat /\ i.root \in Roots
  BY DEF Intents, OpenIntents, CloseIntents

(* Advancing the signing state of an account in which a slot is left.      *)
LEMMA AdvanceLedger ==
  ASSUME NEW tr \in TraderState,
         tr.nonce = tr.epoch * SigningCapacity + tr.used,
         tr.used < SigningCapacity, tr.epoch < NumEpochs
  PROVE  LET new == AdvanceSigning(tr)
         IN  /\ new.nonce = tr.nonce + 1
             /\ new.nonce = new.epoch * SigningCapacity + new.used
             /\ new.used < SigningCapacity
             /\ new.epoch <= NumEpochs
             /\ new.epoch = NumEpochs => new.used = 0
             /\ new.xmss_root = tr.xmss_root
             /\ new.live = tr.live
             /\ new.position_count = tr.position_count
  <1>1. /\ tr.nonce \in Nat /\ tr.epoch \in Nat /\ tr.used \in Nat
        /\ NumEpochs \in Nat /\ SigningCapacity \in Nat \ {0}
    BY SigningAssumption DEF TraderState
  <1>2. CASE tr.used + 1 >= SigningCapacity
    <2>1. tr.used + 1 = SigningCapacity
      BY <1>1, <1>2
    <2>2. (tr.epoch + 1) * SigningCapacity
            = tr.epoch * SigningCapacity + SigningCapacity
      BY <1>1
    <2>3. AdvanceSigning(tr)
            = [tr EXCEPT !.nonce = tr.nonce + 1, !.used = 0,
                         !.epoch = tr.epoch + 1]
      BY <1>2 DEF AdvanceSigning
    <2> QED
      BY <1>1, <2>1, <2>2, <2>3 DEF TraderState
  <1>3. CASE ~(tr.used + 1 >= SigningCapacity)
    <2>1. AdvanceSigning(tr)
            = [tr EXCEPT !.nonce = tr.nonce + 1, !.used = tr.used + 1]
      BY <1>3 DEF AdvanceSigning
    <2> QED
      BY <1>1, <1>3, <2>1 DEF TraderState
  <1> QED
    BY <1>2, <1>3

(* Executing an authorised intent keeps the invariant, whatever else the   *)
(* instruction does to the account.                                        *)
LEMMA ExecuteKeepsSigning ==
  ASSUME TypeInv, TypeInv', SigningInv,
         NEW t \in Traders, NEW i \in signed, Authorises(i, t),
         NEW tr \in TraderState,
         /\ tr.nonce = trader[t].nonce /\ tr.used = trader[t].used
         /\ tr.epoch = trader[t].epoch /\ tr.live = trader[t].live
         /\ tr.xmss_root = trader[t].xmss_root,
         trader' = [trader EXCEPT ![t] = AdvanceSigning(tr)],
         spent' = spent \cup {[trader |-> t, intent |-> i]}
  PROVE  SigningInv'
  <1> DEFINE s0 == [trader |-> t, intent |-> i]
             new == AdvanceSigning(tr)
             Of(u) == {s \in spent : s.trader = u}
  <1>1. /\ i.nonce = trader[t].nonce /\ i.epoch = trader[t].epoch
        /\ i.root = trader[t].xmss_root /\ trader[t].epoch < NumEpochs
    BY DEF Authorises
  <1>2. /\ trader \in [Traders -> TraderState]
        /\ i \in Intents
        /\ spent \subseteq [trader : Traders, intent : Intents]
    BY DEF TypeInv, TypeOK
  <1>3. /\ trader[t].nonce \in Nat /\ trader[t].epoch \in Nat
        /\ trader[t].used \in Nat /\ SigningCapacity \in Nat \ {0}
        /\ NumEpochs \in Nat
    BY <1>2, SigningAssumption DEF TraderState
  <1>4. LedgerOf(t) /\ trader[t].live
    BY DEF SigningInv, Authorises
  <1>5. /\ new.nonce = trader[t].nonce + 1
        /\ new.nonce = new.epoch * SigningCapacity + new.used
        /\ new.used < SigningCapacity
        /\ new.epoch <= NumEpochs
        /\ new.epoch = NumEpochs => new.used = 0
        /\ new.xmss_root = trader[t].xmss_root
        /\ new.live = trader[t].live
    BY <1>1, <1>4, AdvanceLedger DEF LedgerOf
  <1>6. trader'[t] = new /\ \A u \in Traders \ {t} : trader'[u] = trader[u]
    BY <1>2
  <1> HIDE DEF new
  <1>7. s0 \notin spent
    BY <1>1, <1>3 DEF SigningInv, PastSlot
  <1>8. IsFiniteSet(spent')
    BY FS_AddElement DEF SigningInv
  <1>9. \A u \in Traders : LedgerOf(u)'
    <2>1. IsFiniteSet(Of(t)) /\ s0 \notin Of(t)
      BY <1>7, FS_Subset DEF SigningInv
    <2>2. Cardinality(Of(t) \cup {s0}) = Cardinality(Of(t)) + 1
      BY <2>1, FS_AddElement
    <2>3. {s \in spent' : s.trader = t} = Of(t) \cup {s0}
      OBVIOUS
    <2>4. Cardinality({s \in spent' : s.trader = t}) = trader[t].nonce + 1
      BY <1>4, <2>2, <2>3 DEF LedgerOf
    <2>5. LedgerOf(t)'
      BY <1>4, <1>5, <1>6, <2>4 DEF LedgerOf
    <2>6. ASSUME NEW u \in Traders \ {t} PROVE LedgerOf(u)'
      <3>1. {s \in spent' : s.trader = u} = Of(u)
        OBVIOUS
      <3>2. LedgerOf(u)
        BY DEF SigningInv
      <3> QED
        BY <1>6, <3>1, <3>2 DEF LedgerOf
    <2> QED
      BY <2>5, <2>6
  <1>10. \A s \in spent' : PastSlot(s)'
    <2>1. PastSlot(s0)'
      BY <1>1, <1>3, <1>4, <1>5, <1>6 DEF PastSlot, LedgerOf
    <2>2. ASSUME NEW s \in spent PROVE PastSlot(s)'
      <3>1. PastSlot(s) /\ s.trader \in Traders
        BY <1>2 DEF SigningInv
      <3>2. s.intent.nonce \in Nat
        BY <1>2, IntentType
      <3>3. s.intent.nonce < trader'[s.trader].nonce
        BY <1>3, <1>5, <1>6, <3>1, <3>2 DEF PastSlot
      <3> QED
        BY <3>1, <3>3 DEF PastSlot
    <2> QED
      BY <2>1, <2>2
  <1>11. OneIntentPerSlot'
    <2>1. \A s \in spent : s.trader = t => s.intent.nonce < i.nonce
      BY <1>1 DEF SigningInv, PastSlot
    <2>2. \A s \in spent : s.trader = t => s.intent.nonce # i.nonce
      <3>1. \A s \in spent : s.intent.nonce \in Nat
        BY <1>2, IntentType
      <3>2. i.nonce \in Nat
        BY <1>2, IntentType
      <3> QED
        BY <2>1, <3>1, <3>2
    <2> QED
      BY <2>2 DEF SigningInv, OneIntentPerSlot
  <1> QED
    BY <1>8, <1>9, <1>10, <1>11 DEF SigningInv

(* A step that touches neither the traders nor what was executed.          *)
LEMMA UnchangedKeepsSigning ==
  ASSUME SigningInv, trader' = trader, spent' = spent
  PROVE  SigningInv'
  BY DEF SigningInv, LedgerOf, PastSlot, OneIntentPerSlot, NoSigningYet

LEMMA SigningInvInit == Init => SigningInv
  <1> SUFFICES ASSUME Init PROVE SigningInv
    OBVIOUS
  <1>1. spent = {} /\ IsFiniteSet(spent)
    BY FS_EmptySet DEF Init
  <1>2. ASSUME NEW t \in Traders PROVE LedgerOf(t)
    <2>1. Cardinality({s \in spent : s.trader = t}) = 0
      <3>1. {s \in spent : s.trader = t} = {}
        BY <1>1
      <3> QED
        BY <3>1, FS_EmptySet
    <2> QED
      BY <2>1, SigningAssumption DEF Init, LedgerOf, NoSigningYet
  <1> QED
    BY <1>1, <1>2 DEF SigningInv, OneIntentPerSlot

LEMMA SigningInvNext ==
  TypeInv /\ TypeInv' /\ SigningInv /\ [Next]_vars => SigningInv'
  <1> SUFFICES ASSUME TypeInv, TypeInv', SigningInv, [Next]_vars
               PROVE  SigningInv'
    OBVIOUS
  <1>1. ASSUME NEW t \in Traders, CreateTrader(t)
        PROVE  SigningInv'
    <2>1. LedgerOf(t) /\ ~trader[t].live
      BY <1>1 DEF SigningInv, CreateTrader
    <2>2. /\ trader'[t].epoch = trader[t].epoch
          /\ trader'[t].used = trader[t].used
          /\ trader'[t].nonce = trader[t].nonce
          /\ trader'[t].xmss_root = trader[t].xmss_root
          /\ trader'[t].live
      BY <1>1, <2>1
      DEF CreateTrader, LedgerOf, NoSigningYet, TypeInv, TypeOK
    <2>3. \A u \in Traders : u # t => trader'[u] = trader[u]
      BY <1>1 DEF CreateTrader, TypeInv, TypeOK
    <2>4. spent' = spent
      BY <1>1 DEF CreateTrader
    <2>5. ASSUME NEW u \in Traders PROVE LedgerOf(u)'
      <3>1. LedgerOf(u)
        BY DEF SigningInv
      <3>2. CASE u = t
        BY <2>2, <2>4, <3>1, <3>2 DEF LedgerOf
      <3>3. CASE u # t
        BY <2>3, <2>4, <3>1, <3>3 DEF LedgerOf, NoSigningYet
      <3> QED
        BY <3>2, <3>3
    <2>6. \A s \in spent' : PastSlot(s)'
      BY <2>2, <2>3, <2>4 DEF SigningInv, PastSlot, TypeInv, TypeOK
    <2> QED
      BY <2>4, <2>5, <2>6 DEF SigningInv, OneIntentPerSlot
  <1>2. ASSUME NEW t \in Traders, NEW i \in signed, OpenPosition(t, i)
        PROVE  SigningInv'
    <2> DEFINE tr == [trader[t] EXCEPT !.position_count = @ + 1]
    <2>1. /\ tr \in TraderState
          /\ tr.nonce = trader[t].nonce /\ tr.used = trader[t].used
          /\ tr.epoch = trader[t].epoch /\ tr.live = trader[t].live
          /\ tr.xmss_root = trader[t].xmss_root
      <3>1. trader[t] \in TraderState
        BY DEF TypeInv, TypeOK
      <3>2. trader[t].position_count + 1 \in Nat
        BY <3>1 DEF TraderState
      <3> QED
        BY <3>1, <3>2 DEF TraderState
    <2>2. /\ Authorises(i, t)
          /\ trader' = [trader EXCEPT ![t] = AdvanceSigning(tr)]
          /\ spent' = spent \cup {[trader |-> t, intent |-> i]}
      BY <1>2 DEF OpenPosition
    <2> HIDE DEF tr
    <2> QED
      BY <2>1, <2>2, ExecuteKeepsSigning
  <1>3. ASSUME NEW p \in positions, NEW i \in signed, ClosePosition(p, i)
        PROVE  SigningInv'
    <2>1. p.trader \in Traders
      BY DEF TypeInv, TypeOK, PositionState
    <2>2. trader[p.trader] \in TraderState
      BY <2>1 DEF TypeInv, TypeOK
    <2>3. /\ Authorises(i, p.trader)
          /\ trader' = [trader EXCEPT ![p.trader] =
                          AdvanceSigning(trader[p.trader])]
          /\ spent' = spent \cup {[trader |-> p.trader, intent |-> i]}
      BY <1>3 DEF ClosePosition
    <2> QED
      BY <2>1, <2>2, <2>3, ExecuteKeepsSigning
  <1>4. CASE trader' = trader /\ spent' = spent
    BY <1>4, UnchangedKeepsSigning
  <1>5. CASE InitOracle \/ Tick \/ UNCHANGED vars
    BY <1>4, <1>5 DEF InitOracle, Tick, chain, vars
  <1>6. ASSUME NEW m \in Markets, NEW q \in MarketParams, InitMarket(m, q)
        PROVE  SigningInv'
    BY <1>4, <1>6 DEF InitMarket
  <1>7. ASSUME NEW m \in Markets, NEW a \in Deposits, FundVault(m, a)
        PROVE  SigningInv'
    BY <1>4, <1>7 DEF FundVault
  <1>8. ASSUME NEW t \in Traders, NEW m \in Markets, NEW a \in Deposits,
               FundTrader(t, m, a)
        PROVE  SigningInv'
    BY <1>4, <1>8 DEF FundTrader
  <1>9. ASSUME NEW price \in Prices, NEW time \in FeedTimes,
               UpdateOracle(price, time)
        PROVE  SigningInv'
    BY <1>4, <1>9 DEF UpdateOracle
  <1>10. CASE Sign
    BY <1>4, <1>10 DEF Sign, SignOpen, SignClose, chain
  <1>11. CASE Maintain
    BY <1>4, <1>11 DEF Maintain, Liquidate, Trigger
  <1> QED
    BY <1>1, <1>2, <1>3, <1>5, <1>6, <1>7, <1>8, <1>9, <1>10, <1>11
    DEF Next, Setup, Feed, Submit

LEMMA SigningCorrect == Spec => [](TypeInv /\ SigningInv)
  BY TypeInvInit, TypeInvNext, SigningInvInit, SigningInvNext, PTL DEF Spec

(* The signing state counts what was authorised: for any capacity and any  *)
(* number of epochs the nonce is the number of intents executed, and no    *)
(* account executes more than NumEpochs * SigningCapacity.                 *)
THEOREM SigningLedgerHolds == Spec => []SigningLedger
  <1>1. SigningInv => SigningLedger
    BY DEF SigningInv, LedgerOf, SigningLedger
  <1> QED
    BY <1>1, SigningCorrect, PTL

(* No slot of a trader's key executes two intents and no intent executes   *)
(* twice for a trader, in whatever order and however often the signed      *)
(* intents are submitted.                                                  *)
THEOREM ReplayProtected == Spec => []OneIntentPerSlot
  <1>1. SigningInv => OneIntentPerSlot
    BY DEF SigningInv
  <1> QED
    BY <1>1, SigningCorrect, PTL
(* The executed intents of one epoch of a key have distinct nonces in an   *)
(* interval of SigningCapacity numbers, so there are no more of them.      *)
LEMMA SigningInvCapacity ==
  ASSUME TypeInv, SigningInv
  PROVE  EpochCapacity
  <1> SUFFICES ASSUME DistinctKeys, NEW r \in Roots, NEW e \in 0 .. NumEpochs
               PROVE  Cardinality({s \in spent : s.intent.root = r
                                                 /\ s.intent.epoch = e})
                        <= SigningCapacity
    BY DEF EpochCapacity
  <1> DEFINE S == {s \in spent : s.intent.root = r /\ s.intent.epoch = e}
             lo == e * SigningCapacity
             T == lo .. (lo + SigningCapacity - 1)
             f == [s \in S |-> s.intent.nonce]
  <1>1. e \in Nat /\ SigningCapacity \in Nat /\ lo \in Nat
    BY SigningAssumption
  <1>2. IsFiniteSet(T) /\ Cardinality(T) = SigningCapacity
    <2>1. lo > lo + SigningCapacity - 1 => SigningCapacity = 0
      BY <1>1
    <2> QED
      BY <1>1, <2>1, FS_Interval
  <1>3. ASSUME NEW s \in S PROVE f[s] \in T
    <2>1. s.intent \in Intents
      BY DEF TypeInv, TypeOK
    <2>2. s.intent.nonce \in Nat
      BY <2>1, IntentType
    <2>3. lo <= s.intent.nonce /\ s.intent.nonce < lo + SigningCapacity
      BY DEF SigningInv, PastSlot
    <2> QED
      BY <1>1, <2>2, <2>3
  <1>4. ASSUME NEW s1 \in S, NEW s2 \in S, f[s1] = f[s2] PROVE s1 = s2
    <2>1. s1.trader \in Traders /\ s2.trader \in Traders
      BY DEF TypeInv, TypeOK
    <2>2. KeyOf[s1.trader] = r /\ KeyOf[s2.trader] = r
      BY DEF SigningInv, PastSlot
    <2>3. s1.trader = s2.trader
      BY <2>1, <2>2 DEF DistinctKeys
    <2>4. s1.intent.nonce = s2.intent.nonce
      BY <1>4
    <2> QED
      BY <2>3, <2>4 DEF SigningInv, OneIntentPerSlot
  <1>5. f \in Injection(S, T)
    BY <1>3, <1>4 DEF Injection, IsInjective
  <1> HIDE DEF S, T, f
  <1>6. Cardinality(S) <= SigningCapacity
    BY <1>2, <1>5, FS_Injection
  <1> QED
    BY <1>6 DEF S

(* However signed intents are delivered, no epoch of a key that one        *)
(* account holds authorises more than SigningCapacity operations.          *)
THEOREM CapacityRespected == Spec => []EpochCapacity
  <1>1. TypeInv /\ SigningInv => EpochCapacity
    BY SigningInvCapacity
  <1> QED
    BY <1>1, SigningCorrect, PTL
-----------------------------------------------------------------------------
(* Positions and open interest.                                            *)

PositionInv ==
  /\ IsFiniteSet(positions)
  /\ PositionAddresses
  /\ OpenInterest

(* What the positions of one side of a market amount to.                   *)
Carried(m, side) == NotionalOf(PositionsOn(m, side))

LEMMA CarriedAdd ==
  ASSUME TypeInv, IsFiniteSet(positions), NEW p \in PositionState,
         p \notin positions, positions' = positions \cup {p},
         NEW m \in Markets, NEW side \in Sides
  PROVE  /\ p.market = m /\ p.side = side
              => Carried(m, side)' = Carried(m, side) + p.notional
         /\ ~(p.market = m /\ p.side = side)
              => Carried(m, side)' = Carried(m, side)
  <1> DEFINE S == PositionsOn(m, side)
             f == [q \in S |-> q.notional]
             g == [q \in S \cup {p} |-> q.notional]
  <1>1. IsFiniteSet(S) /\ p \notin S
    BY FS_Subset DEF PositionsOn
  <1>2. /\ \A q \in S : f[q] \in Nat
        /\ \A q \in S : g[q] = f[q]
        /\ g[p] \in Nat
    BY DEF PositionsOn, TypeInv, TypeOK, PositionState
  <1>5. g[p] = p.notional
    OBVIOUS
  <1>3. CASE p.market = m /\ p.side = side
    <2>1. PositionsOn(m, side)' = S \cup {p}
      BY <1>3 DEF PositionsOn
    <2>2. Carried(m, side)' = SumOver(g, S \cup {p})
      BY <2>1 DEF Carried, NotionalOf
    <2>3. Carried(m, side) = SumOver(f, S)
      BY DEF Carried, NotionalOf
    <2> HIDE DEF S, f, g
    <2>4. SumOver(g, S \cup {p}) = SumOver(f, S) + g[p]
      BY <1>1, <1>2, SumAdd
    <2> QED
      BY <1>5, <1>3, <2>2, <2>3, <2>4
  <1>4. CASE ~(p.market = m /\ p.side = side)
    <2>1. PositionsOn(m, side)' = S
      BY <1>4 DEF PositionsOn
    <2> QED
      BY <1>4, <2>1 DEF Carried, NotionalOf
  <1> QED
    BY <1>3, <1>4

LEMMA CarriedRemove ==
  ASSUME TypeInv, IsFiniteSet(positions), NEW p \in positions,
         positions' = positions \ {p},
         NEW m \in Markets, NEW side \in Sides
  PROVE  /\ p.market = m /\ p.side = side
              => /\ p.notional <= Carried(m, side)
                 /\ Carried(m, side)' = Carried(m, side) - p.notional
         /\ ~(p.market = m /\ p.side = side)
              => Carried(m, side)' = Carried(m, side)
  <1> DEFINE S == PositionsOn(m, side)
             f == [q \in S |-> q.notional]
             g == [q \in S \ {p} |-> q.notional]
  <1>1. IsFiniteSet(S)
    BY FS_Subset DEF PositionsOn
  <1>2. /\ \A q \in S : f[q] \in Nat
        /\ \A q \in S \ {p} : g[q] = f[q]
    BY DEF PositionsOn, TypeInv, TypeOK, PositionState
  <1>3. CASE p.market = m /\ p.side = side
    <2>1. PositionsOn(m, side)' = S \ {p}
      BY <1>3 DEF PositionsOn
    <2>2. p \in S /\ f[p] = p.notional
      BY <1>3 DEF PositionsOn
    <2>3. Carried(m, side)' = SumOver(g, S \ {p})
      BY <2>1 DEF Carried, NotionalOf
    <2>4. Carried(m, side) = SumOver(f, S)
      BY DEF Carried, NotionalOf
    <2> HIDE DEF S, f, g
    <2>5. /\ f[p] <= SumOver(f, S)
          /\ SumOver(g, S \ {p}) = SumOver(f, S) - f[p]
      BY <1>1, <1>2, <2>2, SumRemove
    <2> QED
      BY <1>3, <2>2, <2>3, <2>4, <2>5
  <1>4. CASE ~(p.market = m /\ p.side = side)
    <2>1. PositionsOn(m, side)' = S
      BY <1>4 DEF PositionsOn
    <2> QED
      BY <1>4, <2>1 DEF Carried, NotionalOf
  <1> QED
    BY <1>3, <1>4

OpenOn(m) == {p \in positions : p.market = m}

(* An open adds its notional and one to the totals and the count.          *)
LEMMA OpenAddsInterest ==
  ASSUME TypeInv, IsFiniteSet(positions), OpenInterest,
         NEW p \in PositionState, p \notin positions,
         positions' = positions \cup {p},
         market' = [market EXCEPT ![p.market] =
                      AddInterest(@, p.side, p.notional)],
         FitsU64((IF p.side = SIDE_LONG
                  THEN market[p.market].total_long_notional
                  ELSE market[p.market].total_short_notional) + p.notional)
  PROVE  OpenInterest'
  <1> SUFFICES ASSUME NEW m \in Markets
               PROVE  /\ FitsU64(market'[m].total_long_notional)
                      /\ FitsU64(market'[m].total_short_notional)
                      /\ market'[m].total_long_notional
                           = Carried(m, SIDE_LONG)'
                      /\ market'[m].total_short_notional
                           = Carried(m, SIDE_SHORT)'
                      /\ market'[m].open_positions = Cardinality(OpenOn(m))'
    BY DEF OpenInterest, Carried, OpenOn
  <1>1. /\ FitsU64(market[m].total_long_notional)
        /\ FitsU64(market[m].total_short_notional)
        /\ market[m].total_long_notional = Carried(m, SIDE_LONG)
        /\ market[m].total_short_notional = Carried(m, SIDE_SHORT)
        /\ market[m].open_positions = Cardinality(OpenOn(m))
    BY DEF OpenInterest, Carried, OpenOn
  <1>2. /\ p.market \in Markets /\ p.side \in Sides
        /\ SIDE_LONG \in Sides /\ SIDE_SHORT \in Sides
        /\ SIDE_LONG # SIDE_SHORT
    BY DEF PositionState, Sides, SIDE_LONG, SIDE_SHORT
  <1>3. market \in [Markets -> MarketState] /\ market[m] \in MarketState
    BY DEF TypeInv, TypeOK
  <1>4. \A s \in Sides :
          /\ p.market = m /\ p.side = s
               => Carried(m, s)' = Carried(m, s) + p.notional
          /\ ~(p.market = m /\ p.side = s) => Carried(m, s)' = Carried(m, s)
    BY CarriedAdd
  <1>5. CASE p.market = m
    <2>1. OpenOn(m)' = OpenOn(m) \cup {p} /\ p \notin OpenOn(m)
      BY <1>5 DEF OpenOn
    <2>2. IsFiniteSet(OpenOn(m))
      BY FS_Subset DEF OpenOn
    <2>3. Cardinality(OpenOn(m))' = Cardinality(OpenOn(m)) + 1
      BY <2>1, <2>2, FS_AddElement
    <2>4. market'[m] = AddInterest(market[m], p.side, p.notional)
      BY <1>3, <1>5
    <2>5. CASE p.side = SIDE_LONG
      BY <1>1, <1>2, <1>3, <1>4, <1>5, <2>3, <2>4, <2>5
      DEF AddInterest, MarketState
    <2>6. CASE p.side = SIDE_SHORT
      BY <1>1, <1>2, <1>3, <1>4, <1>5, <2>3, <2>4, <2>6
      DEF AddInterest, MarketState
    <2> QED
      BY <1>2, <2>5, <2>6 DEF Sides
  <1>6. CASE p.market # m
    <2>1. OpenOn(m)' = OpenOn(m)
      BY <1>6 DEF OpenOn
    <2>2. market'[m] = market[m]
      BY <1>3, <1>6
    <2> QED
      BY <1>1, <1>2, <1>4, <1>6, <2>1, <2>2
  <1> QED
    BY <1>5, <1>6

(* A settlement takes away what the open added: nothing saturates.         *)
LEMMA SettleReleasesInterest ==
  ASSUME TypeInv, IsFiniteSet(positions), OpenInterest,
         NEW p \in positions, positions' = positions \ {p},
         market' = [market EXCEPT ![p.market] = ReleaseInterest(@, p)]
  PROVE  OpenInterest'
  <1> SUFFICES ASSUME NEW m \in Markets
               PROVE  /\ FitsU64(market'[m].total_long_notional)
                      /\ FitsU64(market'[m].total_short_notional)
                      /\ market'[m].total_long_notional
                           = Carried(m, SIDE_LONG)'
                      /\ market'[m].total_short_notional
                           = Carried(m, SIDE_SHORT)'
                      /\ market'[m].open_positions = Cardinality(OpenOn(m))'
    BY DEF OpenInterest, Carried, OpenOn
  <1>1. /\ FitsU64(market[m].total_long_notional)
        /\ FitsU64(market[m].total_short_notional)
        /\ market[m].total_long_notional = Carried(m, SIDE_LONG)
        /\ market[m].total_short_notional = Carried(m, SIDE_SHORT)
        /\ market[m].open_positions = Cardinality(OpenOn(m))
    BY DEF OpenInterest, Carried, OpenOn
  <1>2. p \in PositionState
    BY DEF TypeInv, TypeOK
  <1>3. /\ p.market \in Markets /\ p.side \in Sides /\ p.notional \in Nat
        /\ SIDE_LONG \in Sides /\ SIDE_SHORT \in Sides
        /\ SIDE_LONG # SIDE_SHORT
    BY <1>2 DEF PositionState, Sides, SIDE_LONG, SIDE_SHORT
  <1>4. /\ market \in [Markets -> MarketState] /\ market[m] \in MarketState
        /\ market[m].total_long_notional \in Nat
        /\ market[m].total_short_notional \in Nat
        /\ U64Max \in Nat
    BY U64MaxAssumption DEF TypeInv, TypeOK, MarketState
  <1>5. \A s \in Sides :
          /\ p.market = m /\ p.side = s
               => /\ p.notional <= Carried(m, s)
                  /\ Carried(m, s)' = Carried(m, s) - p.notional
          /\ ~(p.market = m /\ p.side = s) => Carried(m, s)' = Carried(m, s)
    BY CarriedRemove
  <1>6. CASE p.market = m
    <2>1. OpenOn(m)' = OpenOn(m) \ {p} /\ p \in OpenOn(m)
      BY <1>6 DEF OpenOn
    <2>2. IsFiniteSet(OpenOn(m))
      BY FS_Subset DEF OpenOn
    <2>3. Cardinality(OpenOn(m))' = Cardinality(OpenOn(m)) - 1
      BY <2>1, <2>2, FS_RemoveElement
    <2>4. Cardinality(OpenOn(m)) \in Nat /\ Cardinality(OpenOn(m)) >= 1
      <3>1. Cardinality(OpenOn(m)) \in Nat
        BY <2>2, FS_CardinalityType
      <3>2. Cardinality(OpenOn(m)) # 0
        BY <2>1, <2>2, FS_EmptySet
      <3> QED
        BY <3>1, <3>2
    <2>5. market'[m] = ReleaseInterest(market[m], p)
      BY <1>4, <1>6
    <2>6. SaturatingSub(market[m].open_positions, 1)
            = Cardinality(OpenOn(m))'
      BY <1>1, <2>3, <2>4 DEF SaturatingSub
    <2>7. CASE p.side = SIDE_LONG
      <3>1. SaturatingSub(market[m].total_long_notional, p.notional)
              = market[m].total_long_notional - p.notional
        BY <1>1, <1>3, <1>5, <1>6, <2>7 DEF SaturatingSub
      <3>2. /\ market'[m].total_long_notional
                 = market[m].total_long_notional - p.notional
            /\ market'[m].total_short_notional
                 = market[m].total_short_notional
            /\ market'[m].open_positions = Cardinality(OpenOn(m))'
        BY <1>4, <2>5, <2>6, <2>7, <3>1 DEF ReleaseInterest, MarketState
      <3> QED
        BY <1>1, <1>3, <1>4, <1>5, <1>6, <2>7, <3>2 DEF FitsU64
    <2>8. CASE p.side = SIDE_SHORT
      <3>1. SaturatingSub(market[m].total_short_notional, p.notional)
              = market[m].total_short_notional - p.notional
        BY <1>1, <1>3, <1>5, <1>6, <2>8 DEF SaturatingSub
      <3>2. /\ market'[m].total_short_notional
                 = market[m].total_short_notional - p.notional
            /\ market'[m].total_long_notional
                 = market[m].total_long_notional
            /\ market'[m].open_positions = Cardinality(OpenOn(m))'
        BY <1>3, <1>4, <2>5, <2>6, <2>8, <3>1
        DEF ReleaseInterest, MarketState
      <3> QED
        BY <1>1, <1>3, <1>4, <1>5, <1>6, <2>8, <3>2 DEF FitsU64
    <2> QED
      BY <1>3, <2>7, <2>8 DEF Sides
  <1>7. CASE p.market # m
    <2>1. OpenOn(m)' = OpenOn(m)
      BY <1>7 DEF OpenOn
    <2>2. market'[m] = market[m]
      BY <1>4, <1>7
    <2> QED
      BY <1>1, <1>3, <1>5, <1>7, <2>1, <2>2
  <1> QED
    BY <1>6, <1>7

(* A market that does not exist yet carries nothing, so creating it does   *)
(* not move its totals.                                                    *)
LEMMA NoInterestBeforeMarket ==
  ASSUME TypeInv, OpenInterest, NEW m \in Markets, ~market[m].live
  PROVE  /\ market[m].total_long_notional = 0
         /\ market[m].total_short_notional = 0
         /\ market[m].open_positions = 0
  <1>1. \A p \in positions : p.market # m
    BY DEF TypeInv, SettlementDefined
  <1>2. /\ PositionsOn(m, SIDE_LONG) = {} /\ PositionsOn(m, SIDE_SHORT) = {}
        /\ {p \in positions : p.market = m} = {}
    BY <1>1 DEF PositionsOn
  <1>3. NotionalOf({}) = 0
    BY SumEmpty DEF NotionalOf
  <1>4. Cardinality({}) = 0
    BY FS_EmptySet
  <1> QED
    BY <1>2, <1>3, <1>4 DEF OpenInterest

(* Steps that leave the positions and every total as they are.             *)
LEMMA SameInterest ==
  ASSUME OpenInterest, positions' = positions,
         \A m \in Markets :
           /\ market'[m].total_long_notional = market[m].total_long_notional
           /\ market'[m].total_short_notional = market[m].total_short_notional
           /\ market'[m].open_positions = market[m].open_positions
  PROVE  OpenInterest'
  BY DEF OpenInterest, NotionalOf, PositionsOn

(* A new position's sequence number is the trader's counter, above those   *)
(* of all its positions.                                                   *)
LEMMA OpenKeepsPositions ==
  ASSUME TypeInv, PositionInv, NEW t \in Traders, NEW i \in signed,
         OpenPosition(t, i)
  PROVE  PositionInv'
  <1> DEFINE x == i.terms
             p == NewPosition(t, x)
             tr == [trader[t] EXCEPT !.position_count = @ + 1]
  <1>1. /\ p \in PositionState /\ p.trader = t /\ p.market = x.market
        /\ p.side = x.side /\ p.notional = Notional(x.collateral, x.leverage)
        /\ p.seq = trader[t].position_count
    BY OpenTypes DEF NewPosition
  <1>2. /\ positions' = positions \cup {p}
        /\ market' = [market EXCEPT ![p.market] =
                        AddInterest(@, p.side, p.notional)]
        /\ FitsU64((IF p.side = SIDE_LONG
                    THEN market[p.market].total_long_notional
                    ELSE market[p.market].total_short_notional) + p.notional)
        /\ trader' = [trader EXCEPT ![t] = AdvanceSigning(tr)]
    BY <1>1 DEF OpenPosition
  <1>3. /\ tr \in TraderState
        /\ tr.position_count = trader[t].position_count + 1
        /\ trader[t].position_count \in Nat
    <2>1. trader[t] \in TraderState
      BY DEF TypeInv, TypeOK
    <2>2. trader[t].position_count \in Nat
      BY <2>1 DEF TraderState
    <2> QED
      BY <2>1, <2>2 DEF TraderState
  <1> HIDE DEF p, tr
  <1>4. AdvanceSigning(tr).position_count = tr.position_count
    BY <1>3 DEF AdvanceSigning, TraderState
  <1>5. \A u \in Traders :
          trader'[u].position_count = IF u = t
                                      THEN trader[t].position_count + 1
                                      ELSE trader[u].position_count
    BY <1>2, <1>3, <1>4 DEF TypeInv, TypeOK
  <1>6. \A q \in positions : /\ q.trader \in Traders /\ q.seq \in Nat
                             /\ q.seq < trader[q.trader].position_count
    BY DEF TypeInv, TypeOK, PositionState, PositionInv, PositionAddresses
  <1>7. p \notin positions
    BY <1>1, <1>3, <1>6
  <1>8. IsFiniteSet(positions')
    BY <1>2, FS_AddElement DEF PositionInv
  <1>9. \A q \in positions : q.seq < trader'[q.trader].position_count
    BY <1>3, <1>5, <1>6
  <1>10. p.seq < trader'[p.trader].position_count
    BY <1>1, <1>3, <1>5
  <1>11. \A q \in positions : ~(q.trader = p.trader /\ q.seq = p.seq)
    BY <1>1, <1>3, <1>6
  <1>12. PositionAddresses'
    BY <1>2, <1>9, <1>10, <1>11 DEF PositionInv, PositionAddresses
  <1>13. OpenInterest'
    BY <1>1, <1>2, <1>7, OpenAddsInterest DEF PositionInv
  <1> QED
    BY <1>8, <1>12, <1>13 DEF PositionInv

(* A settlement takes one position away and no counter back.               *)
LEMMA SettleKeepsPositions ==
  ASSUME TypeInv, PositionInv, NEW p \in positions, SettleAndClose(p),
         \A u \in Traders :
           trader'[u].position_count = trader[u].position_count
  PROVE  PositionInv'
  <1>1. positions' = positions \ {p}
    BY DEF SettleAndClose
  <1>2. IsFiniteSet(positions')
    BY <1>1, FS_RemoveElement DEF PositionInv
  <1>3. PositionAddresses'
    BY <1>1 DEF PositionInv, PositionAddresses, TypeInv, TypeOK, PositionState
  <1>4. OpenInterest'
    BY <1>1, SettleReleasesInterest DEF SettleAndClose, PositionInv
  <1> QED
    BY <1>2, <1>3, <1>4 DEF PositionInv

LEMMA UnchangedKeepsPositions ==
  ASSUME PositionInv, UNCHANGED <<positions, market, trader>>
  PROVE  PositionInv'
  BY SameInterest DEF PositionInv, PositionAddresses

LEMMA PositionInvInit == Init => PositionInv
  <1> SUFFICES ASSUME Init PROVE PositionInv
    OBVIOUS
  <1>1. positions = {} /\ IsFiniteSet({}) /\ Cardinality({}) = 0
    BY FS_EmptySet DEF Init
  <1>2. NotionalOf({}) = 0
    BY SumEmpty DEF NotionalOf
  <1>3. \A m \in Markets, s \in Sides :
          PositionsOn(m, s) = {} /\ {q \in positions : q.market = m} = {}
    BY <1>1 DEF PositionsOn
  <1>4. \A m \in Markets : /\ market[m].total_long_notional = 0
                           /\ market[m].total_short_notional = 0
                           /\ market[m].open_positions = 0
    BY DEF Init
  <1>5. OpenInterest
    BY <1>1, <1>2, <1>3, <1>4, U64MaxAssumption
    DEF OpenInterest, FitsU64, Sides, SIDE_LONG, SIDE_SHORT
  <1> QED
    BY <1>1, <1>5 DEF PositionInv, PositionAddresses

LEMMA PositionInvNext ==
  TypeInv /\ SigningInv /\ PositionInv /\ [Next]_vars => PositionInv'
  <1> SUFFICES ASSUME TypeInv, SigningInv, PositionInv, [Next]_vars
               PROVE  PositionInv'
    OBVIOUS
  <1>1. ASSUME NEW t \in Traders, NEW i \in signed, OpenPosition(t, i)
        PROVE  PositionInv'
    BY <1>1, OpenKeepsPositions
  <1>2. ASSUME NEW p \in positions, NEW i \in signed, ClosePosition(p, i)
        PROVE  PositionInv'
    <2>1. p.trader \in Traders /\ trader[p.trader] \in TraderState
      BY DEF TypeInv, TypeOK, PositionState
    <2>2. AdvanceSigning(trader[p.trader]).position_count
            = trader[p.trader].position_count
      BY <2>1 DEF AdvanceSigning, TraderState
    <2>3. trader' = [trader EXCEPT ![p.trader] = AdvanceSigning(@)]
      BY <1>2 DEF ClosePosition
    <2>4. \A u \in Traders :
            trader'[u].position_count = trader[u].position_count
      BY <2>1, <2>2, <2>3 DEF TypeInv, TypeOK
    <2>5. SettleAndClose(p)
      BY <1>2 DEF ClosePosition
    <2> QED
      BY <2>4, <2>5, SettleKeepsPositions
  <1>3. ASSUME NEW p \in positions, Liquidate(p) \/ Trigger(p)
        PROVE  PositionInv'
    BY <1>3, SettleKeepsPositions DEF Liquidate, Trigger
  <1>4. ASSUME NEW m \in Markets, NEW q \in MarketParams, InitMarket(m, q)
        PROVE  PositionInv'
    <2>1. /\ market[m].total_long_notional = 0
          /\ market[m].total_short_notional = 0
          /\ market[m].open_positions = 0
      BY <1>4, NoInterestBeforeMarket DEF InitMarket, PositionInv
    <2>2. \A k \in Markets :
            /\ market'[k].total_long_notional = market[k].total_long_notional
            /\ market'[k].total_short_notional = market[k].total_short_notional
            /\ market'[k].open_positions = market[k].open_positions
      BY <1>4, <2>1 DEF InitMarket, TypeInv, TypeOK
    <2>3. positions' = positions /\ trader' = trader
      BY <1>4 DEF InitMarket
    <2> QED
      BY <2>2, <2>3, SameInterest DEF PositionInv, PositionAddresses
  <1>5. ASSUME NEW t \in Traders, CreateTrader(t)
        PROVE  PositionInv'
    <2>1. ASSUME NEW p \in positions PROVE trader[p.trader].live
      <3>1. p.trader \in Traders /\ p.seq \in Nat
        BY DEF TypeInv, TypeOK, PositionState
      <3>2. p.seq < trader[p.trader].position_count
        BY DEF PositionInv, PositionAddresses
      <3>3. ~trader[p.trader].live => trader[p.trader].position_count = 0
        BY <3>1 DEF SigningInv, LedgerOf, NoSigningYet
      <3>4. \/ trader[p.trader].live
            \/ p.seq < 0
        BY <3>2, <3>3
      <3> QED
        BY <3>1, <3>4
    <2>2. \A p \in positions : trader'[p.trader] = trader[p.trader]
      BY <1>5, <2>1 DEF CreateTrader, TypeInv, TypeOK, PositionState
    <2>3. positions' = positions /\ market' = market
      BY <1>5 DEF CreateTrader
    <2> QED
      BY <2>2, <2>3, SameInterest DEF PositionInv, PositionAddresses
  <1>6. CASE UNCHANGED <<positions, market, trader>>
    BY <1>6, UnchangedKeepsPositions
  <1>7. CASE InitOracle \/ Tick \/ UNCHANGED vars \/ Sign
    BY <1>6, <1>7 DEF InitOracle, Tick, chain, vars, Sign, SignOpen, SignClose
  <1>8. ASSUME NEW m \in Markets, NEW a \in Deposits, FundVault(m, a)
        PROVE  PositionInv'
    BY <1>6, <1>8 DEF FundVault
  <1>9. ASSUME NEW t \in Traders, NEW m \in Markets, NEW a \in Deposits,
               FundTrader(t, m, a)
        PROVE  PositionInv'
    BY <1>6, <1>9 DEF FundTrader
  <1>10. ASSUME NEW price \in Prices, NEW time \in FeedTimes,
               UpdateOracle(price, time)
        PROVE  PositionInv'
    BY <1>6, <1>10 DEF UpdateOracle
  <1> QED
    BY <1>1, <1>2, <1>3, <1>4, <1>5, <1>7, <1>8, <1>9, <1>10
    DEF Next, Setup, Feed, Submit, Maintain

LEMMA PositionCorrect == Spec => [](TypeInv /\ SigningInv /\ PositionInv)
  BY SigningCorrect, PositionInvInit, PositionInvNext, PTL DEF Spec

(* Position addresses are never reused while they name a position.         *)
THEOREM AddressesUnique == Spec => []PositionAddresses
  <1>1. PositionInv => PositionAddresses
    BY DEF PositionInv
  <1> QED
    BY <1>1, PositionCorrect, PTL

(* For any number of markets, traders and positions, the open interest of  *)
(* a market is the sum over its positions, within a u64: no subtraction of *)
(* settle_and_close ever saturates.                                        *)
THEOREM OpenInterestExact == Spec => []OpenInterest
  <1>1. PositionInv => OpenInterest
    BY DEF PositionInv
  <1> QED
    BY <1>1, PositionCorrect, PTL
-----------------------------------------------------------------------------
(* Conservation of USDT.                                                   *)

(* What the traders hold of a market's collateral.                         *)
Held(m) == SumOver([t \in Traders |-> usdt[t][m]], Traders)

(* Moving one balance moves the sum by as much.                            *)
LEMMA BalanceMoves ==
  ASSUME usdt \in [Traders -> [Markets -> Nat]],
         usdt' \in [Traders -> [Markets -> Nat]],
         NEW t \in Traders, NEW m \in Markets, NEW d \in Int,
         usdt'[t][m] = usdt[t][m] + d,
         \A u \in Traders, k \in Markets :
           ~(u = t /\ k = m) => usdt'[u][k] = usdt[u][k]
  PROVE  /\ Held(m) \in Nat
         /\ Held(m)' = Held(m) + d
         /\ \A k \in Markets : k # m => Held(k)' = Held(k)
  <1> DEFINE f == [u \in Traders |-> usdt[u][m]]
             g == [u \in Traders |-> usdt'[u][m]]
  <1>1. IsFiniteSet(Traders)
    BY ChainAssumption
  <1>2. /\ \A u \in Traders : f[u] \in Nat
        /\ \A u \in Traders \ {t} : g[u] = f[u]
        /\ g[t] \in Nat /\ f[t] \in Nat
    OBVIOUS
  <1>3. g[t] = f[t] + d
    OBVIOUS
  <1>4. Held(m) = SumOver(f, Traders) /\ Held(m)' = SumOver(g, Traders)
    BY DEF Held
  <1>5. ASSUME NEW k \in Markets, k # m PROVE Held(k)' = Held(k)
    <2>1. [u \in Traders |-> usdt'[u][k]] = [u \in Traders |-> usdt[u][k]]
      BY <1>5
    <2> QED
      BY <2>1 DEF Held
  <1> HIDE DEF f, g
  <1>6. SumOver(f, Traders) \in Nat
    BY <1>1, <1>2, SumType
  <1>7. SumOver(g, Traders) = SumOver(f, Traders) - f[t] + g[t]
    BY <1>1, <1>2, SumUpdate
  <1>8. Held(m)' = Held(m) + d
    BY <1>2, <1>3, <1>4, <1>6, <1>7
  <1> QED
    BY <1>4, <1>5, <1>6, <1>8

(* An open moves the collateral from the trader to the vault.              *)
LEMMA OpenConserves ==
  ASSUME TypeInv, TypeOK', UsdtConserved, NEW t \in Traders,
         NEW i \in signed, OpenPosition(t, i)
  PROVE  UsdtConserved'
  <1> DEFINE c == i.terms.collateral
             m == i.terms.market
  <1>1. /\ c \in Nat /\ m \in Markets
    BY OpenTypes
  <1>2. /\ usdt \in [Traders -> [Markets -> Nat]]
        /\ usdt' \in [Traders -> [Markets -> Nat]]
        /\ vault \in [Markets -> Nat]
    BY DEF TypeInv, TypeOK
  <1>3. /\ usdt' = [usdt EXCEPT ![t][m] = @ - c]
        /\ vault' = [vault EXCEPT ![m] = @ + c]
        /\ minted' = minted
    BY DEF OpenPosition
  <1> HIDE DEF c, m
  <1>4. /\ usdt'[t][m] = usdt[t][m] + (0 - c)
        /\ \A u \in Traders, k \in Markets :
             ~(u = t /\ k = m) => usdt'[u][k] = usdt[u][k]
        /\ 0 - c \in Int
    BY <1>1, <1>2, <1>3
  <1>5. /\ Held(m) \in Nat /\ Held(m)' = Held(m) + (0 - c)
        /\ \A k \in Markets : k # m => Held(k)' = Held(k)
    BY <1>1, <1>2, <1>4, BalanceMoves
  <1>6. /\ vault[m] \in Nat /\ vault'[m] = vault[m] + c
        /\ \A k \in Markets : k # m => vault'[k] = vault[k]
    BY <1>1, <1>2, <1>3
  <1>7. \A k \in Markets : Held(k) + vault[k] = minted[k]
    BY DEF UsdtConserved, Held
  <1>8. Held(m)' + vault'[m] = minted[m]
    BY <1>1, <1>5, <1>6, <1>7
  <1>9. \A k \in Markets : Held(k)' + vault'[k] = minted'[k]
    BY <1>3, <1>5, <1>6, <1>7, <1>8
  <1> QED
    BY <1>9 DEF UsdtConserved, Held

(* A settlement moves the payout from the vault to the trader.             *)
LEMMA SettleConserves ==
  ASSUME TypeInv, TypeOK', UsdtConserved, NEW p \in positions,
         SettleAndClose(p), minted' = minted
  PROVE  UsdtConserved'
  <1> DEFINE pay == PayoutAt(p, oracle.price, now)
             t == p.trader
             m == p.market
  <1>1. pay \in 0 .. vault[m]
    BY PayoutAtRange
  <1>2. /\ usdt \in [Traders -> [Markets -> Nat]]
        /\ usdt' \in [Traders -> [Markets -> Nat]]
        /\ vault \in [Markets -> Nat]
        /\ t \in Traders /\ m \in Markets
    BY DEF TypeInv, TypeOK, PositionState
  <1>3. /\ usdt' = [usdt EXCEPT ![t][m] = @ + pay]
        /\ vault' = [vault EXCEPT ![m] = @ - pay]
    BY DEF SettleAndClose
  <1> HIDE DEF pay, t, m
  <1>4. /\ pay \in Int
        /\ usdt'[t][m] = usdt[t][m] + pay
        /\ \A u \in Traders, k \in Markets :
             ~(u = t /\ k = m) => usdt'[u][k] = usdt[u][k]
    BY <1>1, <1>2, <1>3
  <1>5. /\ Held(m) \in Nat /\ Held(m)' = Held(m) + pay
        /\ \A k \in Markets : k # m => Held(k)' = Held(k)
    BY <1>2, <1>4, BalanceMoves
  <1>6. /\ vault[m] \in Nat /\ vault'[m] = vault[m] - pay
        /\ \A k \in Markets : k # m => vault'[k] = vault[k]
    BY <1>2, <1>3
  <1>7. \A k \in Markets : Held(k) + vault[k] = minted[k]
    BY DEF UsdtConserved, Held
  <1>8. Held(m)' + vault'[m] = minted[m]
    BY <1>2, <1>4, <1>5, <1>6, <1>7
  <1>9. \A k \in Markets : Held(k)' + vault'[k] = minted'[k]
    BY <1>5, <1>6, <1>7, <1>8
  <1> QED
    BY <1>9 DEF UsdtConserved, Held

LEMMA ConservedInit == Init => UsdtConserved
  <1> SUFFICES ASSUME Init, NEW m \in Markets
               PROVE  Held(m) + vault[m] = minted[m]
    BY DEF UsdtConserved, Held
  <1> DEFINE f == [t \in Traders |-> usdt[t][m]]
  <1>1. \A t \in Traders : f[t] = 0
    BY DEF Init
  <1> HIDE DEF f
  <1>2. Units(f, Traders) = {}
    BY <1>1 DEF Units
  <1>3. SumOver(f, Traders) = 0
    BY <1>2, FS_EmptySet DEF SumOver
  <1> QED
    BY <1>3 DEF f, Held, Init

LEMMA ConservedNext ==
  TypeInv /\ TypeInv' /\ UsdtConserved /\ [Next]_vars => UsdtConserved'
  <1> SUFFICES ASSUME TypeInv, TypeInv', UsdtConserved, [Next]_vars
               PROVE  UsdtConserved'
    OBVIOUS
  <1>0. TypeOK'
    BY DEF TypeInv
  <1>1. ASSUME NEW t \in Traders, NEW i \in signed, OpenPosition(t, i)
        PROVE  UsdtConserved'
    BY <1>0, <1>1, OpenConserves
  <1>2. ASSUME NEW p \in positions, NEW i \in signed, ClosePosition(p, i)
        PROVE  UsdtConserved'
    BY <1>0, <1>2, SettleConserves DEF ClosePosition
  <1>3. ASSUME NEW p \in positions, Liquidate(p) \/ Trigger(p)
        PROVE  UsdtConserved'
    BY <1>0, <1>3, SettleConserves DEF Liquidate, Trigger
  <1>4. ASSUME NEW t \in Traders, NEW m \in Markets, NEW a \in Deposits,
               FundTrader(t, m, a)
        PROVE  UsdtConserved'
    <2>1. a \in Nat /\ a \in Int
      BY ChainAssumption
    <2>2. /\ usdt \in [Traders -> [Markets -> Nat]]
          /\ usdt' \in [Traders -> [Markets -> Nat]]
          /\ vault \in [Markets -> Nat] /\ minted \in [Markets -> Nat]
      BY <1>0 DEF TypeInv, TypeOK
    <2>3. /\ usdt' = [usdt EXCEPT ![t][m] = @ + a]
          /\ minted' = [minted EXCEPT ![m] = @ + a]
          /\ vault' = vault
      BY <1>4 DEF FundTrader
    <2>4. /\ usdt'[t][m] = usdt[t][m] + a
          /\ \A u \in Traders, k \in Markets :
               ~(u = t /\ k = m) => usdt'[u][k] = usdt[u][k]
      BY <2>2, <2>3
    <2>5. /\ Held(m) \in Nat /\ Held(m)' = Held(m) + a
          /\ \A k \in Markets : k # m => Held(k)' = Held(k)
      BY <2>1, <2>2, <2>4, BalanceMoves
    <2>6. \A k \in Markets : Held(k) + vault[k] = minted[k]
      BY DEF UsdtConserved, Held
    <2>7. vault[m] \in Nat
      BY <2>2
    <2>8. Held(m)' + vault[m] = minted[m] + a
      BY <2>1, <2>5, <2>6, <2>7
    <2>9. \A k \in Markets : Held(k)' + vault'[k] = minted'[k]
      BY <2>2, <2>3, <2>5, <2>6, <2>8
    <2> QED
      BY <2>9 DEF UsdtConserved, Held
  <1>5. ASSUME NEW m \in Markets, NEW a \in Deposits, FundVault(m, a)
        PROVE  UsdtConserved'
    <2>1. a \in Nat
      BY ChainAssumption
    <2>2. /\ vault \in [Markets -> Nat] /\ minted \in [Markets -> Nat]
          /\ usdt \in [Traders -> [Markets -> Nat]]
      BY DEF TypeInv, TypeOK
    <2>3. /\ vault' = [vault EXCEPT ![m] = @ + a]
          /\ minted' = [minted EXCEPT ![m] = @ + a]
          /\ usdt' = usdt
      BY <1>5 DEF FundVault
    <2>4. \A k \in Markets : Held(k)' = Held(k)
      BY <2>3 DEF Held
    <2>5. \A k \in Markets : Held(k) \in Nat
      <3> TAKE k \in Markets
      <3> DEFINE f == [u \in Traders |-> usdt[u][k]]
      <3>1. \A u \in Traders : f[u] \in Nat
        BY <2>2
      <3>2. Held(k) = SumOver(f, Traders)
        BY DEF Held
      <3> HIDE DEF f
      <3> QED
        BY <3>1, <3>2, ChainAssumption, SumType
    <2>6. \A k \in Markets : Held(k) + vault[k] = minted[k]
      BY DEF UsdtConserved, Held
    <2>7. Held(m) + (vault[m] + a) = minted[m] + a
      BY <2>1, <2>2, <2>5, <2>6
    <2>8. \A k \in Markets : Held(k)' + vault'[k] = minted'[k]
      BY <2>2, <2>3, <2>4, <2>6, <2>7
    <2> QED
      BY <2>8 DEF UsdtConserved, Held
  <1>6. CASE UNCHANGED <<usdt, vault, minted>>
    BY <1>6 DEF UsdtConserved
  <1>7. CASE InitOracle \/ Tick \/ UNCHANGED vars \/ Sign
    BY <1>6, <1>7 DEF InitOracle, Tick, chain, vars, Sign, SignOpen, SignClose
  <1>8. ASSUME NEW m \in Markets, NEW q \in MarketParams, InitMarket(m, q)
        PROVE  UsdtConserved'
    BY <1>6, <1>8 DEF InitMarket
  <1>9. ASSUME NEW t \in Traders, CreateTrader(t)
        PROVE  UsdtConserved'
    BY <1>6, <1>9 DEF CreateTrader
  <1>10. ASSUME NEW price \in Prices, NEW time \in FeedTimes,
               UpdateOracle(price, time)
        PROVE  UsdtConserved'
    BY <1>6, <1>10 DEF UpdateOracle
  <1> QED
    BY <1>1, <1>2, <1>3, <1>4, <1>5, <1>7, <1>8, <1>9, <1>10
    DEF Next, Setup, Feed, Submit, Maintain

(* For any number of traders and any amounts, what was minted is what the  *)
(* traders and the vault hold: opens, closes, liquidations and triggers    *)
(* create nothing and lose nothing.                                        *)
THEOREM UsdtIsConserved == Spec => []UsdtConserved
  BY TypeInvInit, TypeInvNext, ConservedInit, ConservedNext, PTL DEF Spec
-----------------------------------------------------------------------------
(* Positions change with authority and settle in full.                     *)

(* An intent that is about to execute has not executed for that account:   *)
(* those that have lie below the present nonce.                            *)
LEMMA IntentIsFresh ==
  ASSUME TypeInv, SigningInv, NEW t \in Traders, NEW i \in signed,
         Authorises(i, t), spent' = spent \cup {[trader |-> t, intent |-> i]}
  PROVE  [trader |-> t, intent |-> i] \in JustSpent
  <1> DEFINE s == [trader |-> t, intent |-> i]
  <1>1. s.trader = t /\ s.intent = i /\ i.nonce = trader[t].nonce
    BY DEF Authorises
  <1>2. i.nonce \in Nat
    BY IntentType DEF TypeInv, TypeOK
  <1>3. ASSUME s \in spent PROVE FALSE
    <2>1. s.intent.nonce < trader[s.trader].nonce
      BY <1>3 DEF SigningInv, PastSlot
    <2>2. i.nonce < i.nonce
      BY <1>1, <2>1
    <2> QED
      BY <1>2, <2>2
  <1> QED
    BY <1>3 DEF JustSpent

LEMMA OpenIsAuthorised ==
  ASSUME TypeInv, SigningInv, NEW t \in Traders, NEW i \in signed,
         OpenPosition(t, i)
  PROVE  AuthorisedChange
  <1> DEFINE q == NewPosition(t, i.terms)
  <1>1. positions' = positions \cup {q}
    BY DEF OpenPosition
  <1>2. [trader |-> t, intent |-> i] \in JustSpent
    BY IntentIsFresh DEF OpenPosition
  <1>3. q.trader = t /\ MatchesTerms(q, i.terms)
    BY DEF OpenPosition, NewPosition, MatchesTerms, Notional
  <1>4. i.root = KeyOf[t]
    BY DEF OpenPosition, Authorises, SigningInv, LedgerOf
  <1>5. i.kind = "open" /\ now <= i.expiry
    BY DEF OpenPosition
  <1> HIDE DEF q
  <1>6. ExecutedOpen(q)
    BY <1>2, <1>3, <1>4, <1>5 DEF ExecutedOpen
  <1> QED
    BY <1>1, <1>6 DEF AuthorisedChange

LEMMA CloseIsAuthorised ==
  ASSUME TypeInv, SigningInv, NEW p \in positions, NEW i \in signed,
         ClosePosition(p, i)
  PROVE  AuthorisedChange
  <1>1. positions' = positions \ {p}
    BY DEF ClosePosition, SettleAndClose
  <1>2. p.trader \in Traders
    BY DEF TypeInv, TypeOK, PositionState
  <1>3. [trader |-> p.trader, intent |-> i] \in JustSpent
    BY <1>2, IntentIsFresh DEF ClosePosition
  <1>4. ExecutedClose(p)
    BY <1>3 DEF ClosePosition, ExecutedClose
  <1> QED
    BY <1>1, <1>4 DEF AuthorisedChange

LEMMA KeeperIsAuthorised ==
  ASSUME TypeInv, NEW p \in positions, Liquidate(p) \/ Trigger(p)
  PROVE  AuthorisedChange
  <1>1. positions' = positions \ {p} /\ trader' = trader
    BY DEF Liquidate, Trigger, SettleAndClose
  <1>2. p.sl_price \in Nat /\ p.tp_price \in Nat
    BY DEF TypeInv, TypeOK, PositionState
  <1>3. CASE Liquidate(p)
    BY <1>1, <1>3
    DEF AuthorisedChange, KeeperMayClose, Liquidate, FreshPrice,
        LiquidatableAt, IsLiquidatable
  <1>4. CASE Trigger(p)
    <2>1. p.sl_price > 0 => p.sl_price # 0
      BY <1>2
    <2>2. p.tp_price > 0 => p.tp_price # 0
      BY <1>2
    <2> QED
      BY <1>1, <1>4, <2>1, <2>2
      DEF AuthorisedChange, KeeperMayClose, Trigger, FreshPrice, TriggerHit
  <1> QED
    BY <1>3, <1>4

(* A settlement pays the equity, or all the vault has.                     *)
LEMMA SettlePaysInFull ==
  ASSUME TypeInv, NEW p \in positions, SettleAndClose(p)
  PROVE  PaidInFull
  <1> DEFINE eq == EquityAt(p, oracle.price, now)
             pay == PayoutAt(p, oracle.price, now)
             v == vault[p.market]
  <1>1. /\ p \in PositionState /\ p.entry_price > 0
        /\ p.trader \in Traders /\ p.market \in Markets
    BY DEF TypeInv, TypeOK, SettlementDefined, PositionState
  <1>2. /\ oracle.price \in Nat /\ now \in Nat
        /\ v \in Nat /\ usdt[p.trader][p.market] \in Nat
    BY <1>1 DEF TypeInv, TypeOK, OracleState
  <1>3. eq \in Int
    BY <1>1, <1>2, EquityAtType DEF TypeInv
  <1>4. pay = IF eq <= 0 THEN 0 ELSE IF eq <= v THEN eq ELSE v
    BY DEF PayoutAt, Payout
  <1>5. /\ positions' = positions \ {p}
        /\ usdt' = [usdt EXCEPT ![p.trader][p.market] = @ + pay]
        /\ vault' = [vault EXCEPT ![p.market] = @ - pay]
    BY DEF SettleAndClose
  <1> HIDE DEF pay
  <1>6. pay \in Int
    BY <1>2, <1>3, <1>4
  <1>7. /\ usdt'[p.trader][p.market] = usdt[p.trader][p.market] + pay
        /\ vault'[p.market] = v - pay
    BY <1>1, <1>5 DEF TypeInv, TypeOK
  <1>8. PaidOut(p) = pay
    BY <1>2, <1>6, <1>7 DEF PaidOut
  <1> HIDE DEF eq
  <1>9. \/ eq <= 0 /\ pay = 0
        \/ eq > 0 /\ pay = eq
        \/ eq > pay /\ v - pay = 0
    BY <1>2, <1>3, <1>4
  <1> QED
    BY <1>5, <1>7, <1>8, <1>9 DEF PaidInFull, eq

LEMMA StepsAreAuthorised ==
  TypeInv /\ SigningInv /\ [Next]_vars =>
    [AuthorisedChange /\ PaidInFull]_positions
  <1> SUFFICES ASSUME TypeInv, SigningInv, [Next]_vars,
                      positions' # positions
               PROVE  AuthorisedChange /\ PaidInFull
    OBVIOUS
  <1>1. ASSUME NEW t \in Traders, NEW i \in signed, OpenPosition(t, i)
        PROVE  AuthorisedChange /\ PaidInFull
    <2>1. positions \ positions' = {}
      BY <1>1 DEF OpenPosition
    <2> QED
      BY <1>1, <2>1, OpenIsAuthorised DEF PaidInFull
  <1>2. ASSUME NEW p \in positions, NEW i \in signed, ClosePosition(p, i)
        PROVE  AuthorisedChange /\ PaidInFull
    BY <1>2, CloseIsAuthorised, SettlePaysInFull DEF ClosePosition
  <1>3. ASSUME NEW p \in positions, Liquidate(p) \/ Trigger(p)
        PROVE  AuthorisedChange /\ PaidInFull
    BY <1>3, KeeperIsAuthorised, SettlePaysInFull DEF Liquidate, Trigger
  <1>4. CASE Setup \/ Feed \/ Sign \/ Tick \/ UNCHANGED vars
    BY <1>4
    DEF Setup, Feed, Sign, Tick, InitOracle, InitMarket, CreateTrader,
        FundTrader, FundVault, UpdateOracle, SignOpen, SignClose, chain, vars
  <1> QED
    BY <1>1, <1>2, <1>3, <1>4 DEF Next, Submit, Maintain

(* Nobody opens a position for a trader but on terms its key signed, and   *)
(* none leaves but on its owner's signature or where the keeper may close  *)
(* it, for any network of signed intents.                                  *)
THEOREM AuthorityHolds == Spec => PositionsChangeWithAuthority
  <1>1. TypeInv /\ SigningInv /\ [Next]_vars => [AuthorisedChange]_positions
    BY StepsAreAuthorised
  <1> QED
    BY <1>1, SigningCorrect, PTL DEF Spec, PositionsChangeWithAuthority

(* Whichever path closes a position, its trader receives the equity or the *)
(* vault is empty.                                                         *)
THEOREM SettlementsPayInFull == Spec => SettledInFull
  <1>1. TypeInv /\ SigningInv /\ [Next]_vars => [PaidInFull]_positions
    BY StepsAreAuthorised
  <1> QED
    BY <1>1, SigningCorrect, PTL DEF Spec, SettledInFull
-----------------------------------------------------------------------------
(* Margin at the moment of opening.                                        *)

WithinLeverage(p, mk) ==
  /\ p.collateral > 0
  /\ p.notional <= p.collateral * mk.max_leverage

MarginInv == \A p \in positions : WithinLeverage(p, market[p.market])

(* The highest leverage of a market does not change once it exists.        *)
LEMMA LeverageFixed ==
  ASSUME TypeInv, [Next]_vars, NEW m \in Markets, market[m].live
  PROVE  market'[m].max_leverage = market[m].max_leverage
  <1>0. market \in [Markets -> MarketState] /\ market[m] \in MarketState
    BY DEF TypeInv, TypeOK
  <1>1. ASSUME NEW t \in Traders, NEW i \in signed, OpenPosition(t, i)
        PROVE  market'[m].max_leverage = market[m].max_leverage
    <2> DEFINE x == i.terms
               n == Notional(x.collateral, x.leverage)
    <2>1. market' = [market EXCEPT ![x.market] = AddInterest(@, x.side, n)]
      BY <1>1 DEF OpenPosition
    <2> HIDE DEF n
    <2>2. AddInterest(market[m], x.side, n).max_leverage
            = market[m].max_leverage
      BY <1>0 DEF AddInterest, MarketState
    <2> QED
      BY <1>0, <2>1, <2>2
  <1>2. ASSUME NEW p \in positions, SettleAndClose(p)
        PROVE  market'[m].max_leverage = market[m].max_leverage
    <2>1. market' = [market EXCEPT ![p.market] = ReleaseInterest(@, p)]
      BY <1>2 DEF SettleAndClose
    <2>2. ReleaseInterest(market[m], p).max_leverage = market[m].max_leverage
      BY <1>0 DEF ReleaseInterest, MarketState
    <2> QED
      BY <1>0, <2>1, <2>2
  <1>3. ASSUME NEW k \in Markets, NEW q \in MarketParams, InitMarket(k, q)
        PROVE  market'[m].max_leverage = market[m].max_leverage
    BY <1>0, <1>3 DEF InitMarket
  <1>4. CASE market' = market
    BY <1>4
  <1>5. CASE Sign \/ Tick \/ UNCHANGED vars \/ Feed
    BY <1>4, <1>5
    DEF Sign, SignOpen, SignClose, Tick, chain, vars, Feed, UpdateOracle
  <1>6. CASE Setup
    BY <1>3, <1>4, <1>6
    DEF Setup, InitOracle, CreateTrader, FundTrader, FundVault
  <1>7. CASE Maintain
    BY <1>2, <1>7 DEF Maintain, Liquidate, Trigger
  <1>8. CASE Submit
    BY <1>1, <1>2, <1>8 DEF Submit, ClosePosition
  <1> QED
    BY <1>5, <1>6, <1>7, <1>8 DEF Next

(* An open position is within the leverage its market allows, whatever     *)
(* terms were signed.                                                      *)
LEMMA MarginInvNext == TypeInv /\ MarginInv /\ [Next]_vars => MarginInv'
  <1> SUFFICES ASSUME TypeInv, MarginInv, [Next]_vars, NEW p \in positions'
               PROVE  WithinLeverage(p, market[p.market])'
    BY DEF MarginInv
  <1>1. CASE p \in positions
    <2>1. p.market \in Markets /\ market[p.market].live
      BY <1>1 DEF TypeInv, TypeOK, SettlementDefined, PositionState
    <2>2. market'[p.market].max_leverage = market[p.market].max_leverage
      BY <2>1, LeverageFixed
    <2>3. WithinLeverage(p, market[p.market])
      BY <1>1 DEF MarginInv
    <2> QED
      BY <2>2, <2>3 DEF WithinLeverage
  <1>2. CASE p \notin positions
    <2>1. PICK t \in Traders, i \in signed : OpenPosition(t, i)
      BY <1>2
      DEF Next, Setup, Feed, Sign, Submit, Maintain, Tick, InitOracle,
          InitMarket, CreateTrader, FundTrader, FundVault, UpdateOracle,
          SignOpen, SignClose, ClosePosition, Liquidate, Trigger,
          SettleAndClose, chain, vars
    <2> DEFINE x == i.terms
               lev == market[x.market].max_leverage
    <2>2. /\ x.market \in Markets
          /\ x.collateral \in Nat /\ x.leverage \in Nat
      BY <2>1, OpenTypes
    <2>3. p = NewPosition(t, x)
      BY <1>2, <2>1 DEF OpenPosition
    <2>4. /\ p.market = x.market /\ p.collateral = x.collateral
          /\ p.notional = x.collateral * x.leverage
      BY <2>3 DEF NewPosition, Notional
    <2>5. /\ x.collateral > 0 /\ x.leverage <= lev /\ market[x.market].live
      BY <2>1 DEF OpenPosition, LeverageAllowed
    <2>6. lev \in Nat
      BY <2>2 DEF TypeInv, TypeOK, MarketState
    <2>7. market'[x.market].max_leverage = lev
      BY <2>2, <2>5, LeverageFixed
    <2> HIDE DEF x, lev
    <2>8. x.collateral * x.leverage <= x.collateral * lev
      <3>1. \A c, y, z \in Nat : y <= z => c * y <= c * z
        OBVIOUS
      <3> QED
        BY <2>2, <2>5, <2>6, <3>1
    <2> QED
      BY <2>4, <2>5, <2>7, <2>8 DEF WithinLeverage
  <1> QED
    BY <1>1, <1>2

LEMMA MarginInvSound ==
  ASSUME TypeInv, MarginInv
  PROVE  SoundMarketsOpenAboveMaintenance
  <1> SUFFICES ASSUME NEW p \in positions, SoundMarket(market[p.market])
               PROVE  NotBornLiquidatable(p)
    BY DEF SoundMarketsOpenAboveMaintenance
  <1> DEFINE mk == market[p.market]
             e == p.entry_price
             n == p.notional
             c == p.collateral
             fee == mk.open_fee_bps
             rate == mk.borrow_fee_bps_per_hour
             mm == mk.maintenance_bps
             lev == mk.max_leverage
  <1>1. p \in PositionState /\ e > 0 /\ p.market \in Markets
    BY DEF TypeInv, TypeOK, SettlementDefined, PositionState
  <1>2. mk \in MarketState
    BY <1>1 DEF TypeInv, TypeOK
  <1>3. /\ c \in Nat /\ n \in Nat /\ e \in Nat /\ p.open_time \in Nat
        /\ fee \in Nat /\ rate \in Nat /\ mm \in Nat /\ lev \in Nat
    BY <1>1, <1>2 DEF PositionState, MarketState
  <1>4. /\ c > 0 /\ n <= c * lev
        /\ lev * (mm + fee) < BpsDenominator
    BY DEF MarginInv, WithinLeverage, SoundMarket
  <1>5. p.open_time - p.open_time = 0
    BY <1>3
  <1>6. EquityAt(p, e, p.open_time)
          = c + Pnl(p.side, n, e, e) - (OpenFee(n, fee) + BorrowFee(n, rate, 0))
    BY <1>5 DEF EquityAt, Equity
  <1>7. NotBornLiquidatable(p)
          <=> ~(EquityAt(p, e, p.open_time) <= Maintenance(n, mm))
    BY DEF NotBornLiquidatable, LiquidatableAt, IsLiquidatable
  <1>8. p.side \in Sides
    BY <1>1 DEF PositionState
  <1> DEFINE s == p.side
  <1> HIDE DEF mk, e, n, c, fee, rate, mm, lev
  <1>9. Pnl(s, n, e, e) = 0 /\ BorrowFee(n, rate, 0) = 0
    BY <1>1, <1>3, NothingAtOpening
  <1>10. c - OpenFee(n, fee) > Maintenance(n, mm)
    BY <1>3, <1>4, MarginLeft
  <1>11. OpenFee(n, fee) \in Nat /\ Maintenance(n, mm) \in Nat
    BY <1>3, BpsType
  <1>12. EquityAt(p, e, p.open_time) = c - OpenFee(n, fee)
    BY <1>3, <1>6, <1>9, <1>11
  <1> QED
    BY <1>3, <1>7, <1>10, <1>11, <1>12

(* With any prices, terms and parameters: where max_leverage times the     *)
(* maintenance and fee rates is below 100%, no position is liquidatable at *)
(* the price and time it was opened at.                                    *)
THEOREM SoundMarketsHaveMargin == Spec => []SoundMarketsOpenAboveMaintenance
  <1>1. Init => MarginInv
    BY DEF Init, MarginInv
  <1>2. TypeInv /\ MarginInv => SoundMarketsOpenAboveMaintenance
    BY MarginInvSound
  <1> QED
    BY <1>1, <1>2, MarginInvNext, TypeInvInit, TypeInvNext, PTL DEF Spec
-----------------------------------------------------------------------------
(* Refinement: the signing counters implement the list of what was         *)
(* executed.                                                               *)

SlotUsed(t, n) == \E s \in spent : s.trader = t /\ s.intent.nonce = n

(* Every slot below a trader's nonce was used, so the list of what was     *)
(* executed at each has no gap.                                            *)
SlotsFilled ==
  \A t \in Traders, n \in Nat : n < trader[t].nonce => SlotUsed(t, n)

SameSlot(u) ==
  trader'[u].nonce = trader[u].nonce /\ trader'[u].epoch = trader[u].epoch

(* The two things a step can do to the signing state.                      *)
Consumed(t, i) ==
  /\ Authorises(i, t)
  /\ spent' = spent \cup {[trader |-> t, intent |-> i]}
  /\ trader'[t].nonce = trader[t].nonce + 1
  /\ \A u \in Traders \ {t} : SameSlot(u)
  /\ signed' = signed

NothingConsumed ==
  /\ spent' = spent
  /\ \A u \in Traders : SameSlot(u)
  /\ signed \subseteq signed'

LEMMA AdvanceConsumes ==
  ASSUME TypeInv, SigningInv, NEW t \in Traders, NEW i \in signed,
         Authorises(i, t), NEW tr \in TraderState,
         /\ tr.nonce = trader[t].nonce /\ tr.used = trader[t].used
         /\ tr.epoch = trader[t].epoch /\ tr.live = trader[t].live
         /\ tr.xmss_root = trader[t].xmss_root,
         trader' = [trader EXCEPT ![t] = AdvanceSigning(tr)],
         spent' = spent \cup {[trader |-> t, intent |-> i]},
         signed' = signed
  PROVE  Consumed(t, i)
  <1>1. trader \in [Traders -> TraderState]
    BY DEF TypeInv, TypeOK
  <1>2. LedgerOf(t) /\ trader[t].epoch < NumEpochs
    BY DEF SigningInv, Authorises
  <1>3. AdvanceSigning(tr).nonce = tr.nonce + 1
    BY <1>2, AdvanceLedger DEF LedgerOf
  <1>4. /\ trader'[t] = AdvanceSigning(tr)
        /\ \A u \in Traders \ {t} : trader'[u] = trader[u]
    BY <1>1
  <1> QED
    BY <1>3, <1>4 DEF Consumed, SameSlot

(* Every step consumes one slot or none.                                   *)
LEMMA StepConsumes ==
  ASSUME TypeInv, SigningInv, [Next]_vars
  PROVE  NothingConsumed \/ \E t \in Traders, i \in signed : Consumed(t, i)
  <1>1. ASSUME NEW t \in Traders, CreateTrader(t)
        PROVE  NothingConsumed
    <2>1. LedgerOf(t) /\ ~trader[t].live
      BY <1>1 DEF SigningInv, CreateTrader
    <2>2. SameSlot(t)
      BY <1>1, <2>1 DEF SameSlot, CreateTrader, LedgerOf, NoSigningYet, TypeInv, TypeOK
    <2>3. \A u \in Traders : u # t => trader'[u] = trader[u]
      BY <1>1 DEF CreateTrader, TypeInv, TypeOK
    <2>4. spent' = spent /\ signed' = signed
      BY <1>1 DEF CreateTrader
    <2> QED
      BY <2>2, <2>3, <2>4 DEF NothingConsumed, SameSlot
  <1>2. ASSUME NEW t \in Traders, NEW i \in signed, OpenPosition(t, i)
        PROVE  Consumed(t, i)
    <2> DEFINE tr == [trader[t] EXCEPT !.position_count = @ + 1]
    <2>1. /\ tr \in TraderState
          /\ tr.nonce = trader[t].nonce /\ tr.used = trader[t].used
          /\ tr.epoch = trader[t].epoch /\ tr.live = trader[t].live
          /\ tr.xmss_root = trader[t].xmss_root
      <3>1. trader[t] \in TraderState
        BY DEF TypeInv, TypeOK
      <3>2. trader[t].position_count + 1 \in Nat
        BY <3>1 DEF TraderState
      <3> QED
        BY <3>1, <3>2 DEF TraderState
    <2>2. /\ Authorises(i, t)
          /\ trader' = [trader EXCEPT ![t] = AdvanceSigning(tr)]
          /\ spent' = spent \cup {[trader |-> t, intent |-> i]}
          /\ signed' = signed
      BY <1>2 DEF OpenPosition
    <2> HIDE DEF tr
    <2> QED
      BY <2>1, <2>2, AdvanceConsumes
  <1>3. ASSUME NEW p \in positions, NEW i \in signed, ClosePosition(p, i)
        PROVE  p.trader \in Traders /\ Consumed(p.trader, i)
    <2>1. p.trader \in Traders
      BY DEF TypeInv, TypeOK, PositionState
    <2>2. trader[p.trader] \in TraderState
      BY <2>1 DEF TypeInv, TypeOK
    <2>3. /\ Authorises(i, p.trader)
          /\ trader' = [trader EXCEPT ![p.trader] =
                          AdvanceSigning(trader[p.trader])]
          /\ spent' = spent \cup {[trader |-> p.trader, intent |-> i]}
          /\ signed' = signed
      BY <1>3 DEF ClosePosition
    <2> QED
      BY <2>1, <2>2, <2>3, AdvanceConsumes
  <1>4. CASE trader' = trader /\ spent' = spent /\ signed \subseteq signed'
    BY <1>4 DEF NothingConsumed, SameSlot
  <1>5. CASE InitOracle \/ Tick \/ UNCHANGED vars
    BY <1>4, <1>5 DEF InitOracle, Tick, chain, vars
  <1>6. CASE \/ \E m \in Markets, q \in MarketParams : InitMarket(m, q)
             \/ \E m \in Markets, a \in Deposits : FundVault(m, a)
             \/ \E t \in Traders, m \in Markets, a \in Deposits :
                  FundTrader(t, m, a)
    BY <1>4, <1>6 DEF InitMarket, FundVault, FundTrader
  <1>7. CASE Feed
    BY <1>4, <1>7 DEF Feed, UpdateOracle
  <1>8. CASE Sign
    BY <1>4, <1>8 DEF Sign, SignOpen, SignClose, chain
  <1>9. CASE Maintain
    BY <1>4, <1>9 DEF Maintain, Liquidate, Trigger
  <1> QED
    BY <1>1, <1>2, <1>3, <1>5, <1>6, <1>7, <1>8, <1>9
    DEF Next, Setup, Submit

LEMMA FilledInit == Init => SlotsFilled
  <1> SUFFICES ASSUME Init, NEW t \in Traders, NEW n \in Nat
               PROVE  ~(n < trader[t].nonce)
    BY DEF SlotsFilled
  <1>1. trader[t].nonce = 0
    BY DEF Init
  <1> QED
    BY <1>1

LEMMA FilledNext ==
  TypeInv /\ SigningInv /\ SlotsFilled /\ [Next]_vars => SlotsFilled'
  <1> SUFFICES ASSUME TypeInv, SigningInv, SlotsFilled, [Next]_vars,
                      NEW t \in Traders, NEW n \in Nat, n < trader'[t].nonce
               PROVE  SlotUsed(t, n)'
    BY DEF SlotsFilled
  <1>1. SlotUsed(t, n) /\ spent \subseteq spent' => SlotUsed(t, n)'
    BY DEF SlotUsed
  <1>2. CASE NothingConsumed
    BY <1>1, <1>2 DEF NothingConsumed, SameSlot, SlotsFilled
  <1>3. ASSUME NEW u \in Traders, NEW i \in signed, Consumed(u, i)
        PROVE  SlotUsed(t, n)'
    <2>1. /\ spent' = spent \cup {[trader |-> u, intent |-> i]}
          /\ i.nonce = trader[u].nonce
          /\ trader'[u].nonce = trader[u].nonce + 1
          /\ u # t => trader'[t].nonce = trader[t].nonce
      BY <1>3 DEF Consumed, SameSlot, Authorises
    <2>2. CASE n < trader[t].nonce
      BY <1>1, <2>1, <2>2 DEF SlotsFilled
    <2>3. CASE ~(n < trader[t].nonce)
      <3>1. trader[t].nonce \in Nat
        BY DEF TypeInv, TypeOK, TraderState
      <3>2. u = t /\ n = trader[t].nonce
        BY <2>1, <2>3, <3>1
      <3> DEFINE s0 == [trader |-> u, intent |-> i]
      <3>3. s0 \in spent'
        BY <2>1
      <3>4. s0.trader = t /\ s0.intent.nonce = n
        BY <2>1, <3>2
      <3> HIDE DEF s0
      <3> QED
        BY <3>3, <3>4 DEF SlotUsed
    <2> QED
      BY <2>2, <2>3
  <1> QED
    BY <1>2, <1>3, StepConsumes

LEMMA FilledCorrect == Spec => [](TypeInv /\ SigningInv /\ SlotsFilled)
  BY FilledInit, FilledNext, SigningCorrect, PTL DEF Spec

(* The list of what was executed for a trader, as the ledger has it.       *)
Executed(t) == [n \in 1 .. trader[t].nonce |-> IntentAt(t, n - 1)]

LEMMA IntentAtUsed ==
  ASSUME NEW t, NEW s \in spent, s.trader = t, OneIntentPerSlot
  PROVE  IntentAt(t, s.intent.nonce) = s.intent
  <1> DEFINE Q(u) == u \in spent /\ u.trader = t /\ u.intent.nonce = s.intent.nonce
  <1>1. Q(s)
    OBVIOUS
  <1>2. \A u : Q(u) => u = s
    BY DEF OneIntentPerSlot
  <1>3. IntentAt(t, s.intent.nonce)
          = (CHOOSE u \in spent : u.trader = t
                                  /\ u.intent.nonce = s.intent.nonce).intent
    BY DEF IntentAt
  <1>4. (CHOOSE u \in spent : u.trader = t
                              /\ u.intent.nonce = s.intent.nonce) = s
    BY <1>1, <1>2
  <1> QED
    BY <1>3, <1>4
LEMMA InitRefines == Init => Ledger!Init
  <1> SUFFICES ASSUME Init PROVE Ledger!Init
    OBVIOUS
  <1>1. \A t \in Traders : Executed(t) = << >>
    <2> TAKE t \in Traders
    <2>1. trader[t].nonce = 0
      BY DEF Init
    <2> QED
      BY <2>1 DEF Executed
  <1> QED
    BY <1>1 DEF Init, Ledger!Init, Executed

(* The list a slot is added to keeps what it had.                          *)
LEMMA ExecutedKept ==
  ASSUME TypeInv, SigningInv, SigningInv', SlotsFilled,
         spent \subseteq spent', NEW t \in Traders,
         NEW n \in 1 .. trader[t].nonce
  PROVE  IntentAt(t, n - 1)' = IntentAt(t, n - 1)
  <1>1. trader[t].nonce \in Nat
    BY DEF TypeInv, TypeOK, TraderState
  <1>2. n - 1 \in Nat /\ n - 1 < trader[t].nonce
    BY <1>1
  <1>3. PICK s \in spent : s.trader = t /\ s.intent.nonce = n - 1
    BY <1>2 DEF SlotsFilled, SlotUsed
  <1>4. IntentAt(t, n - 1) = s.intent
    <2>1. IntentAt(t, s.intent.nonce) = s.intent
      BY <1>3, IntentAtUsed DEF SigningInv
    <2> QED
      BY <1>3, <2>1
  <1>5. IntentAt(t, n - 1)' = s.intent
    <2>1. s \in spent' /\ OneIntentPerSlot'
      BY DEF SigningInv
    <2> DEFINE Q(u) == u \in spent' /\ u.trader = t /\ u.intent.nonce = n - 1
    <2>2. Q(s) /\ \A u : Q(u) => u = s
      BY <1>3, <2>1 DEF OneIntentPerSlot
    <2>3. (CHOOSE u \in spent' : u.trader = t /\ u.intent.nonce = n - 1) = s
      BY <2>2
    <2> QED
      BY <2>3 DEF IntentAt
  <1> QED
    BY <1>4, <1>5

LEMMA NothingConsumedKeeps ==
  ASSUME TypeInv, SigningInv, SigningInv', SlotsFilled, NothingConsumed,
         NEW t \in Traders
  PROVE  Executed(t)' = Executed(t)
  <1>1. spent \subseteq spent' /\ trader'[t].nonce = trader[t].nonce
    BY DEF NothingConsumed, SameSlot
  <1>2. \A n \in 1 .. trader[t].nonce :
          IntentAt(t, n - 1)' = IntentAt(t, n - 1)
    BY <1>1, ExecutedKept
  <1> QED
    BY <1>1, <1>2 DEF Executed

(* A list one longer that agrees with it is what Append makes.             *)
LEMMA AppendIs ==
  ASSUME NEW S, NEW N \in Nat, NEW x \in S,
         NEW F \in [1 .. N -> S], NEW G \in [1 .. N + 1 -> S],
         \A n \in 1 .. N : G[n] = F[n], G[N + 1] = x
  PROVE  G = Append(F, x)
  <1>1. F \in Seq(S) /\ Len(F) = N
    OBVIOUS
  <1>2. G \in Seq(S) /\ Len(G) = N + 1
    <2>1. N + 1 \in Nat
      OBVIOUS
    <2> QED
      BY <2>1
  <1>3. /\ Append(F, x) \in Seq(S) /\ Len(Append(F, x)) = N + 1
        /\ \A n \in 1 .. N : Append(F, x)[n] = F[n]
        /\ Append(F, x)[N + 1] = x
    BY <1>1, AppendProperties
  <1>4. \A n \in 1 .. Len(G) : G[n] = Append(F, x)[n]
    BY <1>2, <1>3
  <1> QED
    BY <1>2, <1>3, <1>4, SeqEqual

LEMMA ConsumedAppends ==
  ASSUME TypeInv, SigningInv, SigningInv', SlotsFilled,
         NEW t \in Traders, NEW i \in signed, Consumed(t, i)
  PROVE  /\ Executed(t)' = Append(Executed(t), i)
         /\ \A u \in Traders \ {t} : Executed(u)' = Executed(u)
  <1> DEFINE s0 == [trader |-> t, intent |-> i]
  <1>1. /\ spent \subseteq spent' /\ s0 \in spent'
        /\ trader'[t].nonce = trader[t].nonce + 1
        /\ i.nonce = trader[t].nonce
        /\ \A u \in Traders \ {t} : trader'[u].nonce = trader[u].nonce
    BY DEF Consumed, SameSlot, Authorises
  <1>2. trader[t].nonce \in Nat
    BY DEF TypeInv, TypeOK, TraderState
  <1>3. ASSUME NEW u \in Traders, NEW n \in 1 .. trader[u].nonce
        PROVE  IntentAt(u, n - 1)' = IntentAt(u, n - 1)
    BY <1>1, ExecutedKept
  <1>4. ASSUME NEW u \in Traders \ {t}
        PROVE  Executed(u)' = Executed(u)
    <2>1. trader'[u].nonce = trader[u].nonce
      BY <1>1
    <2>2. \A n \in 1 .. trader[u].nonce :
            IntentAt(u, n - 1)' = IntentAt(u, n - 1)
      BY <1>3
    <2> QED
      BY <2>1, <2>2 DEF Executed
  <1>5. IntentAt(t, i.nonce)' = i
    <2>1. OneIntentPerSlot'
      BY DEF SigningInv
    <2>2. s0.trader = t /\ s0.intent = i
      OBVIOUS
    <2> HIDE DEF s0
    <2> DEFINE Q(u) == /\ u \in spent' /\ u.trader = t
                       /\ u.intent.nonce = i.nonce
    <2>3. Q(s0)
      BY <1>1, <2>2
    <2>4. \A u : Q(u) => u = s0
      BY <2>1, <2>3 DEF OneIntentPerSlot
    <2>5. (CHOOSE u \in spent' :
             u.trader = t /\ u.intent.nonce = i.nonce) = s0
      BY <2>3, <2>4
    <2> QED
      BY <2>2, <2>5 DEF IntentAt
  <1>6. Executed(t)' = Append(Executed(t), i)
    <2> DEFINE N == i.nonce
               F == Executed(t)
               G == Executed(t)'
               S == {IntentAt(t, n - 1) : n \in 1 .. N} \cup {i}
    <2>1. G = [n \in 1 .. N + 1 |-> IntentAt(t, n - 1)']
      BY <1>1 DEF Executed
    <2>2. F = [n \in 1 .. N |-> IntentAt(t, n - 1)]
      BY <1>1 DEF Executed
    <2>3. \A n \in 1 .. N : G[n] = F[n]
      BY <1>1, <1>2, <1>3, <2>1, <2>2
    <2>4. G[N + 1] = i
      BY <1>1, <1>2, <1>5, <2>1
    <2>5. F \in [1 .. N -> S]
      BY <2>2
    <2>6. G \in [1 .. N + 1 -> S]
      <3>1. \A n \in 1 .. N + 1 : n \in 1 .. N \/ n = N + 1
        BY <1>1, <1>2
      <3>2. \A n \in 1 .. N + 1 : G[n] \in S
        BY <2>3, <2>4, <2>5, <3>1
      <3> HIDE DEF S
      <3> QED
        BY <2>1, <3>2
    <2>7. N \in Nat /\ i \in S
      BY <1>1, <1>2
    <2> HIDE DEF N, F, G, S
    <2>8. G = Append(F, i)
      BY <2>3, <2>4, <2>5, <2>6, <2>7, AppendIs
    <2> QED
      BY <2>8 DEF F, G
  <1> QED
    BY <1>4, <1>6

(* Executing an intent is the abstract execution at the list's length.     *)
LEMMA ConsumedRefines ==
  ASSUME TypeInv, SigningInv, SigningInv', SlotsFilled,
         NEW t \in Traders, NEW i \in signed, Consumed(t, i)
  PROVE  Ledger!Execute(t, i)
  <1> DEFINE e == trader[t].epoch
             u == trader[t].used
             n == trader[t].nonce
  <1>1. /\ i.root = KeyOf[t] /\ i.nonce = n /\ i.epoch = e /\ e < NumEpochs
        /\ n = e * SigningCapacity + u /\ u < SigningCapacity
        /\ signed' = signed
    BY DEF Consumed, Authorises, SigningInv, LedgerOf
  <1>2. /\ e \in Nat /\ u \in Nat /\ n \in Nat
        /\ NumEpochs \in Nat /\ SigningCapacity \in Nat \ {0}
    BY SigningAssumption DEF TypeInv, TypeOK, TraderState
  <1>3. Len(Executed(t)) = n
    BY <1>2 DEF Executed
  <1> HIDE DEF e, u, n
  <1>4. n \div SigningCapacity = e
    BY <1>1, <1>2
  <1>5. n < NumEpochs * SigningCapacity
    <2>1. (e + 1) * SigningCapacity = e * SigningCapacity + SigningCapacity
      BY <1>2
    <2>2. (e + 1) * SigningCapacity <= NumEpochs * SigningCapacity
      BY <1>1, <1>2
    <2>3. /\ e * SigningCapacity \in Nat /\ NumEpochs * SigningCapacity \in Nat
          /\ (e + 1) * SigningCapacity \in Nat
      BY <1>2
    <2> QED
      BY <1>1, <1>2, <2>1, <2>2, <2>3
  <1>6. [v \in Traders |-> Executed(v)']
          = [[v \in Traders |-> Executed(v)]
               EXCEPT ![t] = Append(Executed(t), i)]
    BY ConsumedAppends
  <1> QED
    BY <1>1, <1>3, <1>4, <1>5, <1>6
    DEF Ledger!Execute, Ledger!Lifetime, Executed

LEMMA StepRefines ==
  ASSUME TypeInv, SigningInv, SigningInv', SlotsFilled, [Next]_vars
  PROVE  Ledger!Next
  <1>1. CASE NothingConsumed
    <2>1. \A t \in Traders : Executed(t)' = Executed(t)
      BY <1>1, NothingConsumedKeeps
    <2> QED
      BY <1>1, <2>1 DEF NothingConsumed, Ledger!Next, Ledger!Sign, Executed
  <1>2. CASE \E t \in Traders, i \in signed : Consumed(t, i)
    BY <1>2, ConsumedRefines DEF Ledger!Next
  <1> QED
    BY <1>1, <1>2, StepConsumes

(* The engine implements the ledger of a many-time key: whatever clients   *)
(* sign, resubmit or delay and whatever the keeper closes in between, the  *)
(* n-th intent executed for a trader is one signed for nonce n under the   *)
(* key of epoch n \div SigningCapacity, and there are never more than the  *)
(* key can bear (open_position, close_position).                           *)
THEOREM PerpImplementsLedger == Spec => ImplementsLedger
  <1> DEFINE Inv == TypeInv /\ SigningInv /\ SlotsFilled
  <1>1. Init => Ledger!Init
    BY InitRefines
  <1>2. Inv /\ Inv' /\ [Next]_vars
          => [Ledger!Next]_<<signed, [t \in Traders |->
                 [n \in 1 .. trader[t].nonce |-> IntentAt(t, n - 1)]]>>
    BY StepRefines
  <1>3. Spec => []Inv
    BY FilledCorrect
  <1> QED
    BY <1>1, <1>2, <1>3, PTL DEF Spec, ImplementsLedger, Ledger!Spec
=============================================================================
