----------------------------- MODULE PorstPerp -----------------------------
(***************************************************************************)
(* The on-chain perpetuals engine (programs/porst_perp/src/lib.rs): an     *)
(* oracle, markets with a pooled USDT vault, trader accounts that hold the *)
(* signing state of a few-time post-quantum key, and positions.            *)
(*                                                                         *)
(* A Solana instruction is one atomic transaction, so each handler is one  *)
(* action: it either happens with every effect it has or not at all.       *)
(* What is concurrent is around it.  A signed intent is produced once, at  *)
(* the signing state the client read, and stays submittable for ever: it   *)
(* may be delivered late, more than once, in any order, or never, while    *)
(* other clients, the keeper and the clock move.  The variable `signed` is *)
(* that network.                                                           *)
(***************************************************************************)
EXTENDS PerpMath, FiniteSets, FiniteSums

CONSTANTS
  Traders,          \* authorities that own a trader account
  Markets,          \* collateral mints, one market each
  Roots,            \* XMSS public keys
  KeyOf,            \* the key each trader account is created with
  NumEpochs,        \* NUM_EPOCHS
  SigningCapacity,  \* SIGNING_CAPACITY, signatures per epoch
  MaxStaleness,     \* MAX_ORACLE_STALENESS, seconds
  MarketParams,     \* parameters init_market is called with
  OpenTerms,        \* terms of the open intents clients ask for
  CloseSeqs,        \* positions clients ask to close
  Expiries,         \* times clients let an intent expire at
  Prices,           \* prices the feed publishes
  FeedTimes,        \* publish times the feed stamps
  Deposits,         \* amounts the mint authority funds an account with
  TickSeconds,      \* how far the clock moves in one step
  MaxTime,          \* bound: the clock stops here
  MaxSigned,        \* bound: intents signed in one behaviour
  MaxMinted         \* bound: USDT minted per market

TermsSet ==
  [market : Markets, side : Nat, collateral : Nat, leverage : Nat,
   max_entry_price : Nat, sl_price : Nat, tp_price : Nat]

MarketParamSet ==
  [maintenance_bps : Nat, max_leverage : Nat, open_fee_bps : Nat,
   borrow_fee_bps_per_hour : Nat]

ASSUME SigningAssumption ==
  /\ NumEpochs \in Nat \ {0}
  /\ SigningCapacity \in Nat \ {0}
  /\ KeyOf \in [Traders -> Roots]
  /\ OpenTerms \subseteq TermsSet
  /\ Expiries \subseteq Nat
  /\ CloseSeqs \subseteq Nat

ASSUME ChainAssumption ==
  /\ IsFiniteSet(Traders)
  /\ MarketParams \subseteq MarketParamSet
  /\ MaxStaleness \in Nat
  /\ Prices \subseteq Nat
  /\ FeedTimes \subseteq Nat
  /\ Deposits \subseteq Nat
  /\ TickSeconds \in Nat \ {0}
  /\ MaxTime \in Nat /\ MaxSigned \in Nat /\ MaxMinted \in Nat

VARIABLES
  now,        \* the validator clock's unix_timestamp
  oracle,     \* the OracleState account
  market,     \* [Markets -> Market account]
  trader,     \* [Traders -> Trader account]
  positions,  \* the Position accounts that exist
  usdt,       \* [Traders -> [Markets -> balance of the trader's ATA]]
  vault,      \* [Markets -> balance of the market's vault]
  minted,     \* history: USDT minted per market
  signed,     \* every intent the isolated signer has put its name to
  spent       \* history: the intents the program executed, and for whom

chain == <<oracle, market, trader, positions, usdt, vault, minted, spent>>
vars == <<now, oracle, market, trader, positions, usdt, vault, minted, signed,
          spent>>
-----------------------------------------------------------------------------
(* The accounts.  `live` says that the account has been created.           *)

OracleState == [live : BOOLEAN, price : Nat, publish_time : Nat]

MarketState ==
  [live : BOOLEAN, maintenance_bps : Nat, max_leverage : Nat,
   open_fee_bps : Nat, borrow_fee_bps_per_hour : Nat,
   total_long_notional : Nat, total_short_notional : Nat,
   open_positions : Nat]

TraderState ==
  [live : BOOLEAN, xmss_root : Roots, epoch : Nat, used : Nat, nonce : Nat,
   position_count : Nat]

PositionState ==
  [trader : Traders, market : Markets, seq : Nat, side : Sides,
   collateral : Nat, notional : Nat, entry_price : Nat, sl_price : Nat,
   tp_price : Nat, open_time : Nat]

(* What a signature covers.  The digest of an open binds the key, the      *)
(* signing state and the terms; it does not name the trader account.  The  *)
(* digest of a close binds the key, the signing state and the position's   *)
(* address, which is derived from the trader and the sequence number.      *)
OpenIntents ==
  [kind : {"open"}, root : Roots, epoch : Nat, nonce : Nat,
   terms : OpenTerms, expiry : Nat]

CloseIntents ==
  [kind : {"close"}, root : Roots, epoch : Nat, nonce : Nat,
   trader : Traders, seq : Nat, expiry : Nat]

Intents == OpenIntents \cup CloseIntents

TypeOK ==
  /\ now \in Nat
  /\ oracle \in OracleState
  /\ market \in [Markets -> MarketState]
  /\ trader \in [Traders -> TraderState]
  /\ positions \subseteq PositionState
  /\ usdt \in [Traders -> [Markets -> Nat]]
  /\ vault \in [Markets -> Nat]
  /\ minted \in [Markets -> Nat]
  /\ signed \subseteq Intents
  /\ spent \subseteq [trader : Traders, intent : Intents]

Init ==
  /\ now = 0
  /\ oracle = [live |-> FALSE, price |-> 0, publish_time |-> 0]
  /\ market = [m \in Markets |->
       [live |-> FALSE, maintenance_bps |-> 0, max_leverage |-> 0,
        open_fee_bps |-> 0, borrow_fee_bps_per_hour |-> 0,
        total_long_notional |-> 0, total_short_notional |-> 0,
        open_positions |-> 0]]
  /\ trader = [t \in Traders |->
       [live |-> FALSE, xmss_root |-> KeyOf[t], epoch |-> 0, used |-> 0,
        nonce |-> 0, position_count |-> 0]]
  /\ positions = {}
  /\ usdt = [t \in Traders |-> [m \in Markets |-> 0]]
  /\ vault = [m \in Markets |-> 0]
  /\ minted = [m \in Markets |-> 0]
  /\ signed = {}
  /\ spent = {}
-----------------------------------------------------------------------------
(* Accounts are created once: Anchor's `init` fails on an existing address. *)

InitOracle ==
  /\ ~oracle.live
  /\ oracle' = [live |-> TRUE, price |-> 0, publish_time |-> 0]
  /\ UNCHANGED <<now, market, trader, positions, usdt, vault, minted, signed,
                 spent>>

(* Fault: a price of 0 is let through.                                     *)
UpdateOracleUnchecked(price, publish_time) ==
  /\ oracle.live
  /\ oracle' = [live |-> TRUE, price |-> price, publish_time |-> publish_time]
  /\ UNCHANGED <<now, market, trader, positions, usdt, vault, minted, signed,
                 spent>>

(* Only the keeper's authority posts.  The program asks that the price be  *)
(* positive and takes any publish time, an earlier one than the last too.  *)
UpdateOracle(price, publish_time) ==
  /\ oracle.live
  /\ price > 0
  /\ oracle' = [live |-> TRUE, price |-> price, publish_time |-> publish_time]
  /\ UNCHANGED <<now, market, trader, positions, usdt, vault, minted, signed,
                 spent>>

InitMarket(m, p) ==
  /\ oracle.live
  /\ ~market[m].live
  /\ p.max_leverage >= 1
  /\ p.maintenance_bps > 0 /\ p.maintenance_bps < BpsDenominator
  /\ market' = [market EXCEPT ![m] =
       [live |-> TRUE, maintenance_bps |-> p.maintenance_bps,
        max_leverage |-> p.max_leverage, open_fee_bps |-> p.open_fee_bps,
        borrow_fee_bps_per_hour |-> p.borrow_fee_bps_per_hour,
        total_long_notional |-> 0, total_short_notional |-> 0,
        open_positions |-> 0]]
  /\ UNCHANGED <<now, oracle, trader, positions, usdt, vault, minted, signed,
                 spent>>

CreateTrader(t) ==
  /\ ~trader[t].live
  /\ trader' = [trader EXCEPT ![t] =
       [live |-> TRUE, xmss_root |-> KeyOf[t], epoch |-> 0, used |-> 0,
        nonce |-> 0, position_count |-> 0]]
  /\ UNCHANGED <<now, oracle, market, positions, usdt, vault, minted, signed,
                 spent>>

(* The mint authority funds a trader's token account or a market's vault.  *)
FundTrader(t, m, amount) ==
  /\ minted[m] + amount <= MaxMinted
  /\ usdt' = [usdt EXCEPT ![t][m] = @ + amount]
  /\ minted' = [minted EXCEPT ![m] = @ + amount]
  /\ UNCHANGED <<now, oracle, market, trader, positions, vault, signed, spent>>

FundVault(m, amount) ==
  /\ market[m].live
  /\ minted[m] + amount <= MaxMinted
  /\ vault' = [vault EXCEPT ![m] = @ + amount]
  /\ minted' = [minted EXCEPT ![m] = @ + amount]
  /\ UNCHANGED <<now, oracle, market, trader, positions, usdt, signed, spent>>
-----------------------------------------------------------------------------
(* The isolated signer.  A client reads the trader account and asks for a  *)
(* signature at the epoch and nonce it read, which others may have spent   *)
(* in the meantime: the signer is stateless and signs any slot of its key. *)

Slot(x) == [epoch |-> x.epoch, nonce |-> x.nonce]

(* The slots a client may hold: the present one and those it has followed. *)
SlotsRead(t) ==
  {Slot(trader[t])}
    \cup {Slot(s.intent) : s \in {u \in spent : u.trader = t}}

CanSign(t, slot) ==
  /\ trader[t].live
  /\ slot.epoch < NumEpochs          \* no key exists past the last epoch
  /\ Cardinality(signed) < MaxSigned

SignOpen(t, slot, terms, expiry) ==
  /\ CanSign(t, slot)
  /\ signed' = signed \cup
       {[kind |-> "open", root |-> trader[t].xmss_root,
         epoch |-> slot.epoch, nonce |-> slot.nonce,
         terms |-> terms, expiry |-> expiry]}
  /\ UNCHANGED <<now, chain>>

SignClose(t, slot, seq, expiry) ==
  /\ CanSign(t, slot)
  /\ signed' = signed \cup
       {[kind |-> "close", root |-> trader[t].xmss_root,
         epoch |-> slot.epoch, nonce |-> slot.nonce,
         trader |-> t, seq |-> seq, expiry |-> expiry]}
  /\ UNCHANGED <<now, chain>>
-----------------------------------------------------------------------------
(* Helpers of the instructions.                                            *)

(* The price may be used: it is set and not older than MaxStaleness.       *)
FreshPrice ==
  /\ oracle.price > 0
  /\ now - oracle.publish_time <= MaxStaleness

(* Fault: the digest is not bound to the nonce.                            *)
AuthorisesAnyNonce(i, t) ==
  /\ trader[t].live
  /\ trader[t].epoch < NumEpochs
  /\ i \in signed
  /\ i.root = trader[t].xmss_root
  /\ i.epoch = trader[t].epoch

(* verify_wallet_sig over the recomputed digest accepts exactly the        *)
(* intents signed with this key at the account's present signing state.    *)
Authorises(i, t) ==
  /\ trader[t].live
  /\ trader[t].epoch < NumEpochs
  /\ i \in signed
  /\ i.root = trader[t].xmss_root
  /\ i.epoch = trader[t].epoch
  /\ i.nonce = trader[t].nonce

(* Fault: the epoch is left one signature late.                            *)
RolloverLate(tr) ==
  IF tr.used + 1 > SigningCapacity
  THEN [tr EXCEPT !.nonce = @ + 1, !.used = 0, !.epoch = @ + 1]
  ELSE [tr EXCEPT !.nonce = @ + 1, !.used = @ + 1]

(* A signature is consumed: the nonce moves, and a full epoch rolls over.  *)
AdvanceSigning(tr) ==
  IF tr.used + 1 >= SigningCapacity
  THEN [tr EXCEPT !.nonce = @ + 1, !.used = 0, !.epoch = @ + 1]
  ELSE [tr EXCEPT !.nonce = @ + 1, !.used = @ + 1]

AddInterest(mk, side, notional) ==
  IF side = SIDE_LONG
  THEN [mk EXCEPT !.total_long_notional = @ + notional,
                  !.open_positions = @ + 1]
  ELSE [mk EXCEPT !.total_short_notional = @ + notional,
                  !.open_positions = @ + 1]

SaturatingSub(a, b) == IF a >= b THEN a - b ELSE 0

(* Fault: a short is taken off the long side.                              *)
ReleaseFromLong(mk, p) ==
  [mk EXCEPT !.total_long_notional = SaturatingSub(@, p.notional),
             !.open_positions = SaturatingSub(@, 1)]

ReleaseInterest(mk, p) ==
  IF p.side = SIDE_LONG
  THEN [mk EXCEPT !.total_long_notional = SaturatingSub(@, p.notional),
                  !.open_positions = SaturatingSub(@, 1)]
  ELSE [mk EXCEPT !.total_short_notional = SaturatingSub(@, p.notional),
                  !.open_positions = SaturatingSub(@, 1)]

(* The equity of a position at a price and a time.                         *)
EquityAt(p, price, time) ==
  LET mk == market[p.market]
      fees == OpenFee(p.notional, mk.open_fee_bps)
              + BorrowFee(p.notional, mk.borrow_fee_bps_per_hour,
                          time - p.open_time)
  IN  Equity(p.collateral,
             Pnl(p.side, p.notional, p.entry_price, price), fees)

PayoutAt(p, price, time) == Payout(EquityAt(p, price, time), vault[p.market])

LiquidatableAt(p, price, time) ==
  IsLiquidatable(EquityAt(p, price, time),
                 Maintenance(p.notional, market[p.market].maintenance_bps))

(* Fault: the level of a short's stop-loss is not asked to be set.         *)
TriggerUnsetLevel(p, price) ==
  IF p.side = SIDE_LONG
  THEN \/ p.sl_price > 0 /\ price <= p.sl_price
       \/ p.tp_price > 0 /\ price >= p.tp_price
  ELSE \/ price >= p.sl_price
       \/ p.tp_price > 0 /\ price <= p.tp_price

(* A stop-loss or take-profit level of 0 is unset.                         *)
TriggerHit(p, price) ==
  IF p.side = SIDE_LONG
  THEN \/ p.sl_price > 0 /\ price <= p.sl_price
       \/ p.tp_price > 0 /\ price >= p.tp_price
  ELSE \/ p.sl_price > 0 /\ price >= p.sl_price
       \/ p.tp_price > 0 /\ price <= p.tp_price
-----------------------------------------------------------------------------
(* Opening a position: anyone may submit it, the signature authorises it.  *)

LeverageUncapped(x, mk) == x.leverage >= 1                  \* fault: no cap

LeverageAllowed(x, mk) == x.leverage >= 1 /\ x.leverage <= mk.max_leverage

CoverUnchecked(t, x) == x.market \in Markets             \* fault: no balance

(* The transfer of the collateral out of the trader's account succeeds.    *)
CanCover(t, x) == x.collateral <= usdt[t][x.market]

(* Fault: the sides are mixed up.                                          *)
SlippageReversed(side, entry, limit) ==
  IF side = SIDE_LONG THEN entry >= limit ELSE entry <= limit

WithinSlippage(side, entry, limit) ==
  IF side = SIDE_LONG THEN entry <= limit ELSE entry >= limit

NewPosition(t, x) ==
  [trader |-> t, market |-> x.market, seq |-> trader[t].position_count,
   side |-> x.side, collateral |-> x.collateral,
   notional |-> Notional(x.collateral, x.leverage),
   entry_price |-> oracle.price, sl_price |-> x.sl_price,
   tp_price |-> x.tp_price, open_time |-> now]

OpenPosition(t, i) ==
  LET x == i.terms
      notional == Notional(x.collateral, x.leverage)
      mk == market[x.market]
      total == IF x.side = SIDE_LONG THEN mk.total_long_notional
                                     ELSE mk.total_short_notional
  IN
  /\ i.kind = "open"
  /\ mk.live
  /\ now <= i.expiry
  /\ x.side \in Sides
  /\ x.collateral > 0
  /\ LeverageAllowed(x, mk)
  /\ FreshPrice
  /\ WithinSlippage(x.side, oracle.price, x.max_entry_price)
  /\ Authorises(i, t)
  /\ FitsU64(notional)
  /\ CanCover(t, x)
  /\ FitsU64(total + notional)
  /\ usdt' = [usdt EXCEPT ![t][x.market] = @ - x.collateral]
  /\ vault' = [vault EXCEPT ![x.market] = @ + x.collateral]
  /\ positions' = positions \cup {NewPosition(t, x)}
  /\ market' = [market EXCEPT ![x.market] = AddInterest(@, x.side, notional)]
  /\ trader' = [trader EXCEPT ![t] =
                  AdvanceSigning([trader[t] EXCEPT !.position_count = @ + 1])]
  /\ spent' = spent \cup {[trader |-> t, intent |-> i]}
  /\ UNCHANGED <<now, oracle, minted, signed>>

(* Fault: the trader is credited the equity, the vault debited the payout. *)
SettleAtEquity(p) ==
  LET equity == EquityAt(p, oracle.price, now)
  IN
  /\ vault' = [vault EXCEPT ![p.market] = @ - PayoutAt(p, oracle.price, now)]
  /\ usdt' = [usdt EXCEPT ![p.trader][p.market] =
                @ + IF equity > 0 THEN equity ELSE 0]
  /\ market' = [market EXCEPT ![p.market] = ReleaseInterest(@, p)]
  /\ positions' = positions \ {p}

(* settle_and_close: pay the position out of the vault, release its open   *)
(* interest and delete its account.                                        *)
SettleAndClose(p) ==
  LET payout == PayoutAt(p, oracle.price, now)
  IN
  /\ vault' = [vault EXCEPT ![p.market] = @ - payout]
  /\ usdt' = [usdt EXCEPT ![p.trader][p.market] = @ + payout]
  /\ market' = [market EXCEPT ![p.market] = ReleaseInterest(@, p)]
  /\ positions' = positions \ {p}

(* Closing on the owner's signature.  The price's age is not looked at.    *)
ClosePosition(p, i) ==
  /\ i.kind = "close"
  /\ i.trader = p.trader /\ i.seq = p.seq
  /\ now <= i.expiry
  /\ Authorises(i, p.trader)
  /\ SettleAndClose(p)
  /\ trader' = [trader EXCEPT ![p.trader] = AdvanceSigning(@)]
  /\ spent' = spent \cup {[trader |-> p.trader, intent |-> i]}
  /\ UNCHANGED <<now, oracle, minted, signed>>

(* The two maintenance paths are open to anyone and consume no signature.  *)
Liquidate(p) ==
  /\ FreshPrice
  /\ LiquidatableAt(p, oracle.price, now)
  /\ SettleAndClose(p)
  /\ UNCHANGED <<now, oracle, trader, minted, signed, spent>>

Trigger(p) ==
  /\ FreshPrice
  /\ TriggerHit(p, oracle.price)
  /\ SettleAndClose(p)
  /\ UNCHANGED <<now, oracle, trader, minted, signed, spent>>

Tick ==
  /\ now + TickSeconds <= MaxTime
  /\ now' = now + TickSeconds
  /\ UNCHANGED <<chain, signed>>
-----------------------------------------------------------------------------
Setup ==
  \/ InitOracle
  \/ \E m \in Markets, p \in MarketParams : InitMarket(m, p)
  \/ \E t \in Traders : CreateTrader(t)
  \/ \E t \in Traders, m \in Markets, a \in Deposits : FundTrader(t, m, a)
  \/ \E m \in Markets, a \in Deposits : FundVault(m, a)

Feed == \E price \in Prices, time \in FeedTimes : UpdateOracle(price, time)

Sign ==
  \E t \in Traders, expiry \in Expiries :
    \E slot \in SlotsRead(t) :
      \/ \E x \in OpenTerms : SignOpen(t, slot, x, expiry)
      \/ \E seq \in CloseSeqs : SignClose(t, slot, seq, expiry)

Submit ==
  \/ \E t \in Traders, i \in signed : OpenPosition(t, i)
  \/ \E p \in positions, i \in signed : ClosePosition(p, i)

Maintain == \E p \in positions : Liquidate(p) \/ Trigger(p)

Next == Setup \/ Feed \/ Sign \/ Submit \/ Maintain \/ Tick

Spec == Init /\ [][Next]_vars
-----------------------------------------------------------------------------
(* PROPERTIES                                                              *)

SpentInEpoch(t, e) == {s \in spent : s.trader = t /\ s.intent.epoch = e}

(* The signing state counts exactly what was authorised: the nonce is the  *)
(* number of intents executed for the trader, it equals the full epochs    *)
(* times the capacity plus the uses of the present one, and it ends at     *)
(* NumEpochs * SigningCapacity (advance at the end of open_position and    *)
(* close_position).                                                        *)
SigningLedger ==
  \A t \in Traders :
    LET tr == trader[t]
    IN  /\ tr.nonce = tr.epoch * SigningCapacity + tr.used
        /\ tr.used < SigningCapacity
        /\ tr.epoch <= NumEpochs
        /\ tr.epoch = NumEpochs => tr.used = 0
        /\ tr.nonce = Cardinality({s \in spent : s.trader = t})

(* Replay protection: whatever is resubmitted, reordered or delayed, one   *)
(* value of a trader's nonce executes one intent, and one intent executes  *)
(* for one trader account once.                                            *)
OneIntentPerSlot ==
  \A s1, s2 \in spent :
    s1.trader = s2.trader /\ s1.intent.nonce = s2.intent.nonce => s1 = s2

(* The engine's signing counters implement the ledger of a many-time key:  *)
(* the n-th intent executed for a trader is one signed by its key for      *)
(* nonce n in epoch n \div SigningCapacity, and no more than the key's     *)
(* lifetime ever execute (open_position, close_position).                  *)
IntentAt(t, n) ==
  (CHOOSE s \in spent : s.trader = t /\ s.intent.nonce = n).intent

Ledger ==
  INSTANCE FewTimeLedger WITH
    Accounts <- Traders,
    ledger <- [t \in Traders |->
                 [n \in 1 .. trader[t].nonce |-> IntentAt(t, n - 1)]]

ImplementsLedger == Ledger!Spec

DistinctKeys == \A t1, t2 \in Traders : KeyOf[t1] = KeyOf[t2] => t1 = t2

(* The few-time budget as the chain enforces it: when no two accounts      *)
(* share a key, at most SigningCapacity intents signed under one epoch of  *)
(* a key are ever executed.                                                *)
EpochCapacity ==
  DistinctKeys =>
    \A r \in Roots, e \in 0 .. NumEpochs :
      Cardinality({s \in spent : s.intent.root = r /\ s.intent.epoch = e})
        <= SigningCapacity

(* A position's address, derived from the trader and the sequence number,  *)
(* names one position for ever: live positions differ in it and the next   *)
(* sequence number is above all of them.                                   *)
PositionAddresses ==
  /\ \A p, q \in positions : p.trader = q.trader /\ p.seq = q.seq => p = q
  /\ \A p \in positions : p.seq < trader[p.trader].position_count

PositionsOn(m, side) == {p \in positions : p.market = m /\ p.side = side}

NotionalOf(S) == SumOver([p \in S |-> p.notional], S)

(* The open interest a market carries is that of the positions that exist: *)
(* the saturating subtractions of settle_and_close never saturate, however *)
(* opens, closes, liquidations and triggers interleave, and the totals     *)
(* stay within a u64.                                                      *)
OpenInterest ==
  \A m \in Markets :
    /\ FitsU64(market[m].total_long_notional)
    /\ FitsU64(market[m].total_short_notional)
    /\ market[m].total_long_notional = NotionalOf(PositionsOn(m, SIDE_LONG))
    /\ market[m].total_short_notional = NotionalOf(PositionsOn(m, SIDE_SHORT))
    /\ market[m].open_positions
         = Cardinality({p \in positions : p.market = m})

(* No instruction creates or destroys USDT: the traders' accounts and the  *)
(* vault hold what was minted.                                             *)
UsdtConserved ==
  \A m \in Markets :
    SumOver([t \in Traders |-> usdt[t][m]], Traders) + vault[m] = minted[m]

(* The settlement is always defined: a close does not look at the price,   *)
(* yet while a position exists the mark price and every entry price are    *)
(* positive, so the division by the entry price and the payout mean        *)
(* something.                                                              *)
SettlementDefined ==
  /\ positions # {} => oracle.price > 0
  /\ \A p \in positions : p.entry_price > 0 /\ market[p.market].live

(* Margin that the parameters of a market leave at the moment of opening.  *)
SoundMarket(mk) ==
  mk.max_leverage * (mk.maintenance_bps + mk.open_fee_bps) < BpsDenominator

NotBornLiquidatable(p) == ~LiquidatableAt(p, p.entry_price, p.open_time)

(* A market whose highest leverage leaves room for maintenance and fee     *)
(* never admits a position that could be liquidated at the price it was    *)
(* opened at.                                                              *)
SoundMarketsOpenAboveMaintenance ==
  \A p \in positions :
    SoundMarket(market[p.market]) => NotBornLiquidatable(p)

(* A position that left did so within what its owner's signed levels and   *)
(* the market's maintenance margin allow at a fresh price.                 *)
KeeperMayClose(p) ==
  /\ now - oracle.publish_time <= MaxStaleness
  /\ \/ EquityAt(p, oracle.price, now)
          <= Maintenance(p.notional, market[p.market].maintenance_bps)
     \/ p.sl_price # 0
        /\ IF p.side = SIDE_LONG THEN oracle.price <= p.sl_price
                                 ELSE oracle.price >= p.sl_price
     \/ p.tp_price # 0
        /\ IF p.side = SIDE_LONG THEN oracle.price >= p.tp_price
                                 ELSE oracle.price <= p.tp_price

MatchesTerms(p, x) ==
  /\ p.market = x.market /\ p.side = x.side
  /\ p.collateral = x.collateral
  /\ p.notional = x.collateral * x.leverage
  /\ p.sl_price = x.sl_price /\ p.tp_price = x.tp_price
  /\ WithinSlippage(p.side, p.entry_price, x.max_entry_price)

(* The intents that execute in this step.                                  *)
JustSpent == {s \in spent' : s \notin spent}

ExecutedOpen(p) ==
  \E s \in JustSpent :
    /\ s.intent \in signed /\ s.intent.kind = "open"
    /\ now <= s.intent.expiry
    /\ s.trader = p.trader /\ s.intent.root = KeyOf[p.trader]
    /\ MatchesTerms(p, s.intent.terms)

ExecutedClose(p) ==
  \E s \in JustSpent :
    /\ s.intent \in signed /\ s.intent.kind = "close"
    /\ now <= s.intent.expiry
    /\ s.intent.trader = p.trader /\ s.intent.seq = p.seq

AuthorisedChange ==
  /\ \A p \in positions' \ positions : ExecutedOpen(p)
  /\ \A p \in positions \ positions' :
       \/ ExecutedClose(p)
       \/ trader' = trader /\ KeeperMayClose(p)

(* A position appears only on a signed, unexpired and not yet executed     *)
(* intent whose terms it has, and leaves only on such an intent or, with   *)
(* its owner's signing state untouched, where the keeper may close it      *)
(* (open_position, close_position, liquidate and trigger).                 *)
PositionsChangeWithAuthority == [][AuthorisedChange]_positions

PaidOut(p) == usdt'[p.trader][p.market] - usdt[p.trader][p.market]

PaidInFull ==
  \A p \in positions \ positions' :
    LET eq == EquityAt(p, oracle.price, now)
    IN  \/ eq <= 0 /\ PaidOut(p) = 0
        \/ eq > 0 /\ PaidOut(p) = eq
        \/ eq > PaidOut(p) /\ vault'[p.market] = 0

(* What a position is worth reaches its trader when it leaves: nothing if  *)
(* the equity is gone, else all of it unless the vault ran dry paying      *)
(* (settle_and_close on each of its three paths).                          *)
SettledInFull == [][PaidInFull]_positions
=============================================================================
