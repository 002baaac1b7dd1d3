----------------------------- MODULE PerpServer -----------------------------
(***************************************************************************)
(* The backend of the perpetuals engine: the /api/perp/open and            *)
(* /api/perp/close handlers (agent/perp-routes.ts) with the policy         *)
(* (agent/perp-policy.ts) and the isolated signer (agent/signer), and the  *)
(* keeper (agent/oracle.ts), around the program of PorstPerp.              *)
(*                                                                         *)
(* Node runs one callback at a time, so what is concurrent is what happens *)
(* between two awaits: every handler is a sequence of steps, each reading  *)
(* or changing the chain once, and the handlers of several requests and    *)
(* several keeper ticks interleave at them.  A transaction that was sent   *)
(* lands later, is refused or lost, or lands after its client gave up.     *)
(***************************************************************************)
EXTENDS PorstPerp

CONSTANTS
  Self,             \* the server's trader account
  Mkt,              \* the market bootstrapPerp created
  Requests,         \* HTTP requests
  TickSlots,        \* keeper ticks that may be running at the same time
  Plans,            \* plans posted to /api/perp/open
  Seqs,             \* sequence numbers posted to /api/perp/close
  RequestTTL,       \* TTL, seconds a request's intent lives
  Limits,           \* PerpLimits
  TraderFunds,      \* USDT the bootstrap mints to the trader
  VaultFunds,       \* USDT the bootstrap mints to the vault
  FeedPrices,       \* prices Hermes publishes
  MaxFeedMoves,     \* bound: moves of the feed's price
  MaxKeeperErrors   \* bound: keeper ticks that die of an error

VARIABLES
  feed,      \* the price Hermes would answer with
  moves,     \* bound counter: moves of the feed so far
  req,       \* [Requests -> where the handler is and what it holds]
  pending,   \* requests whose transaction is on its way to the chain
  landed,    \* history: requests whose transaction executed
  tick,      \* [TickSlots -> where the keeper tick is and what it holds]
  errors     \* bound counter: keeper ticks that died

web == <<req, pending, landed>>
keeper == <<tick, errors>>
serverVars == <<vars, feed, moves, web, keeper>>
-----------------------------------------------------------------------------
(* What the handlers compute.  Percentages are whole numbers here, 0 for   *)
(* one that is not set; px rounds to the nearest unit of the price.        *)

Nearest(a, b) == (2 * a + b) \div (2 * b)

Percent(price, pct) == Nearest(price * (100 + pct), 100)

SlPrice(x, price) ==
  IF x.slPct = 0 THEN 0
  ELSE Percent(price, IF x.side = SIDE_LONG THEN -x.slPct ELSE x.slPct)

TpPrice(x, price) ==
  IF x.tpPct = 0 THEN 0
  ELSE Percent(price, IF x.side = SIDE_LONG THEN x.tpPct ELSE -x.tpPct)

MaxEntry(side, price) ==
  (price * (IF side = SIDE_LONG THEN 101 ELSE 99)) \div 100

(* The handler has a level as a big integer, negative if the plan put it   *)
(* more than a hundred percent below the price.  It reaches the digest by  *)
(* two ways.  The signer is given a float, of which `as u64` makes 0 if it *)
(* is negative; the transaction is given the big integer, of which the     *)
(* client library writes the magnitude.                                    *)
Saturated(level) == IF level < 0 THEN 0 ELSE level

Magnitude(level) == IF level < 0 THEN -level ELSE level

TermsWith(x, price, sl, tp) ==
  [market |-> Mkt, side |-> x.side, collateral |-> x.collateral,
   leverage |-> x.leverage, max_entry_price |-> MaxEntry(x.side, price),
   sl_price |-> sl, tp_price |-> tp]

(* The terms a request has signed, and those its transaction carries.      *)
TermsOf(x, price) ==
  TermsWith(x, price,
            Saturated(SlPrice(x, price)), Saturated(TpPrice(x, price)))

TermsSent(x, price) ==
  TermsWith(x, price,
            Magnitude(SlPrice(x, price)), Magnitude(TpPrice(x, price)))

(* checkOpen looks at the levels before either conversion.                 *)
LevelsSane(x, entry) ==
  LET sl == SlPrice(x, entry)
      tp == TpPrice(x, entry)
  IN  IF x.side = SIDE_LONG
      THEN (sl # 0 => sl < entry) /\ (tp # 0 => tp > entry)
      ELSE (sl # 0 => sl > entry) /\ (tp # 0 => tp < entry)

(* Fault: no leverage asks for a stop-loss.                                *)
StopNeverRequired(x, entry, expiry, balance, openCount) ==
  /\ x.leverage >= 1 /\ x.leverage <= Limits.maxLeverage
  /\ x.collateral >= Limits.minCollateral
  /\ x.collateral <= Limits.maxCollateral
  /\ x.collateral <= balance
  /\ x.collateral * x.leverage <= Limits.maxNotional
  /\ LevelsSane(x, entry)
  /\ openCount < Limits.maxOpenPositions
  /\ expiry > now /\ expiry - now <= Limits.maxExpirySeconds

CheckOpen(x, entry, expiry, balance, openCount) ==
  /\ x.leverage >= 1 /\ x.leverage <= Limits.maxLeverage
  /\ x.collateral >= Limits.minCollateral
  /\ x.collateral <= Limits.maxCollateral
  /\ x.collateral <= balance
  /\ x.collateral * x.leverage <= Limits.maxNotional
  /\ x.leverage > Limits.requireSlAboveLeverage => SlPrice(x, entry) # 0
  /\ LevelsSane(x, entry)
  /\ openCount < Limits.maxOpenPositions
  /\ expiry > now /\ expiry - now <= Limits.maxExpirySeconds

(* A posted plan may hold any numbers.  Whatever terms fit the signer's    *)
(* integers, and whatever the feed publishes, the engine's clients may ask *)
(* for and its feed may post: that is what the engine's constants mean     *)
(* here.  A request is signed for once, so there are as many signatures    *)
(* as requests.                                                            *)
ASSUME BackendAssumption ==
  /\ Self \in Traders /\ Mkt \in Markets
  /\ Plans # {} /\ Seqs \subseteq CloseSeqs
  /\ Plans \subseteq [side : Sides, collateral : Int, leverage : Int,
                      slPct : Int, tpPct : Int]
  /\ FeedPrices \subseteq Prices /\ 0 \notin FeedPrices
  /\ \A x \in Plans, price \in FeedPrices :
       TermsOf(x, price) \in TermsSet => TermsOf(x, price) \in OpenTerms
  /\ TraderFunds \in Nat /\ VaultFunds \in Nat /\ RequestTTL \in Nat
  /\ 0 .. MaxTime \subseteq FeedTimes
  /\ \A n \in 0 .. MaxTime :
       n * TickSeconds <= MaxTime => n * TickSeconds + RequestTTL \in Expiries
  /\ IsFiniteSet(Requests) /\ Cardinality(Requests) <= MaxSigned
  /\ Limits \in
       [maxLeverage : Nat, minCollateral : Nat, maxCollateral : Nat,
        maxNotional : Nat, requireSlAboveLeverage : Nat,
        maxOpenPositions : Nat, maxExpirySeconds : Nat]

MyPositions == {p \in positions : p.trader = Self /\ p.market = Mkt}

NoIntent == [kind |-> "none"]

Blank ==
  [pc |-> "idle", kind |-> "none", plan |-> CHOOSE x \in Plans : TRUE,
   price |-> 0, expiry |-> 0, balance |-> 0, epoch |-> 0, nonce |-> 0,
   seq |-> 0, intent |-> NoIntent, before |-> 0, received |-> 0]

IdleTick == [pc |-> "idle", price |-> 0, time |-> 0, at |-> 0, todo |-> {}]

(* The state bootstrapPerp leaves: the oracle with a first price, the      *)
(* market and the trader account created, both funded.                     *)
ServerInit ==
  /\ now = 0
  /\ feed \in FeedPrices
  /\ oracle = [live |-> TRUE, price |-> feed, publish_time |-> 0]
  /\ \E q \in MarketParams :
       market = [m \in Markets |->
         [live |-> TRUE, maintenance_bps |-> q.maintenance_bps,
          max_leverage |-> q.max_leverage, open_fee_bps |-> q.open_fee_bps,
          borrow_fee_bps_per_hour |-> q.borrow_fee_bps_per_hour,
          total_long_notional |-> 0, total_short_notional |-> 0,
          open_positions |-> 0]]
  /\ trader = [t \in Traders |->
       [live |-> TRUE, xmss_root |-> KeyOf[t], epoch |-> 0, used |-> 0,
        nonce |-> 0, position_count |-> 0]]
  /\ positions = {}
  /\ usdt = [t \in Traders |-> [m \in Markets |-> TraderFunds]]
  /\ vault = [m \in Markets |-> VaultFunds]
  /\ minted = [m \in Markets |->
                 Cardinality(Traders) * TraderFunds + VaultFunds]
  /\ signed = {}
  /\ spent = {}
  /\ moves = 0
  /\ req = [r \in Requests |-> Blank]
  /\ pending = {}
  /\ landed = {}
  /\ tick = [k \in TickSlots |-> IdleTick]
  /\ errors = 0
-----------------------------------------------------------------------------
(* perpOpen, one await after another.                                      *)

Goto(r, pc) == req' = [req EXCEPT ![r].pc = pc]

Abandon(r) == req' = [req EXCEPT ![r] = [Blank EXCEPT !.pc = "failed"]]

(* The trader's balance as the SDK reads it: 0 when the read fails.        *)
BalanceAnswers == {usdt[Self][Mkt], 0}

StartOpen(r, x) ==
  /\ req[r].pc = "idle"
  /\ req' = [req EXCEPT ![r] = [Blank EXCEPT
       !.pc = "quoted", !.kind = "open", !.plan = x,
       !.price = oracle.price, !.expiry = now + RequestTTL]]
  /\ UNCHANGED <<vars, feed, moves, pending, landed, keeper>>

ReadBalance(r) ==
  /\ req[r].pc = "quoted"
  /\ \E b \in BalanceAnswers :
       req' = [req EXCEPT ![r].balance = b, ![r].pc = "funded"]
  /\ UNCHANGED <<vars, feed, moves, pending, landed, keeper>>

CountAndCheck(r) ==
  /\ req[r].pc = "funded"
  /\ IF CheckOpen(req[r].plan, req[r].price, req[r].expiry, req[r].balance,
                  Cardinality(MyPositions))
     THEN req' = [req EXCEPT ![r].pc = "allowed", ![r].balance = 0]
     ELSE Abandon(r)
  /\ UNCHANGED <<vars, feed, moves, pending, landed, keeper>>

(* perpClose starts here: it checks nothing before it reads the slot.      *)
StartClose(r, seq) ==
  /\ req[r].pc = "idle"
  /\ req' = [req EXCEPT ![r] = [Blank EXCEPT
       !.pc = "allowed", !.kind = "close", !.seq = seq,
       !.expiry = now + RequestTTL]]
  /\ UNCHANGED <<vars, feed, moves, pending, landed, keeper>>

(* Both read the signing state, have it signed, and stage the signature.   *)
ReadSlot(r) ==
  /\ req[r].pc = "allowed"
  /\ req' = [req EXCEPT ![r].pc = "slotted",
       ![r].epoch = trader[Self].epoch, ![r].nonce = trader[Self].nonce,
       ![r].seq = IF req[r].kind = "open" THEN trader[Self].position_count
                                          ELSE @]
  /\ UNCHANGED <<vars, feed, moves, pending, landed, keeper>>

(* Fault: the handler takes the slot after the one it read.                *)
IntentAhead(q) ==
  [kind |-> "open", root |-> KeyOf[Self], epoch |-> q.epoch,
   nonce |-> q.nonce + 1, terms |-> TermsOf(q.plan, q.price),
   expiry |-> q.expiry]

IntentOf(q) ==
  IF q.kind = "open"
  THEN [kind |-> "open", root |-> KeyOf[Self], epoch |-> q.epoch,
        nonce |-> q.nonce, terms |-> TermsOf(q.plan, q.price),
        expiry |-> q.expiry]
  ELSE [kind |-> "close", root |-> KeyOf[Self], epoch |-> q.epoch,
        nonce |-> q.nonce, trader |-> Self, seq |-> q.seq,
        expiry |-> q.expiry]

(* The daemon signs any slot it is asked for, but has no key past the last *)
(* epoch.                                                                  *)
SignRequest(r) ==
  /\ req[r].pc = "slotted"
  /\ IF req[r].epoch < NumEpochs
     THEN /\ signed' = signed \cup {IntentOf(req[r])}
          /\ req' = [req EXCEPT ![r].pc = "signed",
                                ![r].intent = IntentOf(req[r])]
     ELSE Abandon(r) /\ signed' = signed
  /\ UNCHANGED <<now, chain, feed, moves, pending, landed, keeper>>

(* Any await may throw, the ones after the transaction was confirmed too:  *)
(* the handler answers with an error and what it held is gone.             *)
RequestFails(r) ==
  /\ req[r].pc \in {"quoted", "funded", "allowed", "slotted", "signed",
                    "measured", "confirmed"}
  /\ Abandon(r)
  /\ UNCHANGED <<vars, feed, moves, pending, landed, keeper>>

(* A close first notes the balance, to tell afterwards what it returned.   *)
ReadBefore(r) ==
  /\ req[r].pc = "signed" /\ req[r].kind = "close"
  /\ \E b \in BalanceAnswers :
       req' = [req EXCEPT ![r].before = b, ![r].pc = "measured"]
  /\ UNCHANGED <<vars, feed, moves, pending, landed, keeper>>

Send(r) ==
  /\ req[r].pc = IF req[r].kind = "open" THEN "signed" ELSE "measured"
  /\ Goto(r, "sent")
  /\ pending' = pending \cup {r}
  /\ UNCHANGED <<vars, feed, moves, landed, keeper>>

(* The client stops waiting; the transaction may land all the same.        *)
GiveUp(r) ==
  /\ req[r].pc = "sent"
  /\ Goto(r, "unknown")
  /\ UNCHANGED <<vars, feed, moves, pending, landed, keeper>>

(* The position's address in the transaction is the client's: the program  *)
(* refuses one that is not derived from the present position_count.  It    *)
(* recomputes the digest from the terms the transaction carries.           *)
Land(r) ==
  /\ r \in pending
  /\ \/ /\ req[r].kind = "open"
        /\ req[r].seq = trader[Self].position_count
        /\ TermsSent(req[r].plan, req[r].price) = req[r].intent.terms
        /\ OpenPosition(Self, req[r].intent)
     \/ /\ req[r].kind = "close"
        /\ \E p \in MyPositions : ClosePosition(p, req[r].intent)
  /\ pending' = pending \ {r}
  /\ landed' = landed \cup {r}
  /\ req' = [req EXCEPT ![r].pc = IF @ = "sent" THEN "confirmed" ELSE @]
  /\ UNCHANGED <<feed, moves, keeper>>

(* Refused by the program, or lost: either way it has no effect.           *)
Drop(r) ==
  /\ r \in pending
  /\ pending' = pending \ {r}
  /\ IF req[r].pc = "sent" THEN Abandon(r) ELSE req' = req
  /\ UNCHANGED <<vars, feed, moves, landed, keeper>>

Finish(r) ==
  /\ req[r].pc = "confirmed"
  /\ \E b \in BalanceAnswers :
       req' = [req EXCEPT ![r].pc = "done",
         ![r].received = IF req[r].kind = "close" THEN b - req[r].before
                                                  ELSE 0]
  /\ UNCHANGED <<vars, feed, moves, pending, landed, keeper>>
-----------------------------------------------------------------------------
(* The keeper.  setInterval starts a tick whether or not the previous one  *)
(* has ended.                                                              *)

(* Fault: the price on chain stands in for the one of the feed.            *)
FetchFromChain(k) ==
  /\ tick[k].pc = "idle"
  /\ tick' = [tick EXCEPT ![k].pc = "post", ![k].price = oracle.price,
                          ![k].time = now]
  /\ UNCHANGED <<vars, feed, moves, web, errors>>

FetchPrice(k) ==
  /\ tick[k].pc = "idle"
  /\ tick' = [tick EXCEPT ![k].pc = "post", ![k].price = feed,
                          ![k].time = now]
  /\ UNCHANGED <<vars, feed, moves, web, errors>>

PostPrice(k) ==
  /\ tick[k].pc = "post"
  /\ UpdateOracle(tick[k].price, tick[k].time)
  /\ tick' = [tick EXCEPT ![k].pc = "list"]
  /\ UNCHANGED <<feed, moves, web, errors>>

SweepFrom(k, todo) ==
  tick' = [tick EXCEPT ![k] =
    IF todo = {} THEN IdleTick
    ELSE [@ EXCEPT !.at = now, !.todo = todo, !.pc = "trigger"]]

(* Fault: the scan starts at 1.                                            *)
ListFromOne(k) ==
  /\ tick[k].pc = "list"
  /\ SweepFrom(k, {p \in MyPositions : p.seq >= 1})
  /\ UNCHANGED <<vars, feed, moves, web, errors>>

ListPositions(k) ==
  /\ tick[k].pc = "list"
  /\ SweepFrom(k, MyPositions)
  /\ UNCHANGED <<vars, feed, moves, web, errors>>

FirstOf(S) == CHOOSE p \in S : \A q \in S : p.seq <= q.seq

(* On to the next position of the sweep.                                   *)
Advance(k) ==
  LET rest == tick[k].todo \ {FirstOf(tick[k].todo)}
  IN  tick' = [tick EXCEPT ![k] =
        IF rest = {} THEN IdleTick
        ELSE [@ EXCEPT !.todo = rest, !.pc = "trigger"]]

(* The sweep compares in floating point, without the program's roundings:  *)
(* equity <= maintenance with both sides multiplied by the entry price.    *)
SweepFees(p, time) ==
  LET mk == market[p.market]
      held == IF time < p.open_time THEN 0 ELSE time - p.open_time
      size == p.entry_price * p.notional
  IN  (size * (mk.open_fee_bps + mk.maintenance_bps)
       + (size * mk.borrow_fee_bps_per_hour * held) \div SecondsPerHour)
      \div BpsDenominator

(* Fault: a short's loss is taken for a gain.                              *)
SeenAsLong(p, price, time) ==
  p.collateral * p.entry_price + p.notional * (price - p.entry_price)
    <= SweepFees(p, time)

KeeperSeesLiquidation(p, price, time) ==
  LET move == IF p.side = SIDE_LONG THEN price - p.entry_price
                                    ELSE p.entry_price - price
  IN  p.collateral * p.entry_price + p.notional * move <= SweepFees(p, time)

(* A stop-loss or take-profit the tick's price has reached is tried first. *)
SweepTrigger(k) ==
  LET p == FirstOf(tick[k].todo)
  IN
  /\ tick[k].pc = "trigger"
  /\ TriggerHit(p, tick[k].price)
  /\ \/ p \in positions /\ Trigger(p) /\ Advance(k)
     \/ /\ ~(p \in positions /\ FreshPrice /\ TriggerHit(p, oracle.price))
        /\ tick' = [tick EXCEPT ![k].pc = "liquidate"]
        /\ UNCHANGED vars
  /\ UNCHANGED <<feed, moves, web, errors>>

SweepNoTrigger(k) ==
  /\ tick[k].pc = "trigger"
  /\ ~TriggerHit(FirstOf(tick[k].todo), tick[k].price)
  /\ tick' = [tick EXCEPT ![k].pc = "liquidate"]
  /\ UNCHANGED <<vars, feed, moves, web, errors>>

SweepLiquidate(k) ==
  LET p == FirstOf(tick[k].todo)
  IN
  /\ tick[k].pc = "liquidate"
  /\ KeeperSeesLiquidation(p, tick[k].price, tick[k].at)
  /\ \/ p \in positions /\ Liquidate(p)
     \/ /\ ~(/\ p \in positions /\ FreshPrice
             /\ LiquidatableAt(p, oracle.price, now))
        /\ UNCHANGED vars
  /\ Advance(k)
  /\ UNCHANGED <<feed, moves, web, errors>>

SweepNoLiquidation(k) ==
  /\ tick[k].pc = "liquidate"
  /\ ~KeeperSeesLiquidation(FirstOf(tick[k].todo), tick[k].price, tick[k].at)
  /\ Advance(k)
  /\ UNCHANGED <<vars, feed, moves, web, errors>>

(* An await of the tick throws.  Before the sweep that ends the tick       *)
(* (keeper-error); in it, a trigger gives way to the liquidation check and *)
(* a liquidation to the next position.                                     *)
KeeperError(k) ==
  /\ errors < MaxKeeperErrors
  /\ errors' = errors + 1
  /\ \/ /\ tick[k].pc \in {"post", "list"}
        /\ tick' = [tick EXCEPT ![k] = IdleTick]
     \/ /\ tick[k].pc = "trigger"
        /\ TriggerHit(FirstOf(tick[k].todo), tick[k].price)
        /\ tick' = [tick EXCEPT ![k].pc = "liquidate"]
     \/ /\ tick[k].pc = "liquidate"
        /\ KeeperSeesLiquidation(FirstOf(tick[k].todo), tick[k].price,
                                 tick[k].at)
        /\ Advance(k)
  /\ UNCHANGED <<vars, feed, moves, web>>
-----------------------------------------------------------------------------
FeedMoves ==
  /\ moves < MaxFeedMoves
  /\ moves' = moves + 1
  /\ feed' \in FeedPrices \ {feed}
  /\ UNCHANGED <<vars, web, keeper>>

Handle(r) ==
  \/ \E x \in Plans : StartOpen(r, x)
  \/ ReadBalance(r) \/ CountAndCheck(r)
  \/ \E s \in Seqs : StartClose(r, s)
  \/ ReadSlot(r) \/ SignRequest(r) \/ RequestFails(r)
  \/ ReadBefore(r) \/ Send(r) \/ GiveUp(r) \/ Finish(r)

Network(r) == Land(r) \/ Drop(r)

KeeperStep(k) ==
  \/ FetchPrice(k) \/ PostPrice(k) \/ ListPositions(k)
  \/ SweepTrigger(k) \/ SweepNoTrigger(k)
  \/ SweepLiquidate(k) \/ SweepNoLiquidation(k)

ServerNext ==
  \/ \E r \in Requests : Handle(r) \/ Network(r)
  \/ \E k \in TickSlots : KeeperStep(k) \/ KeeperError(k)
  \/ FeedMoves
  \/ Tick /\ UNCHANGED <<feed, moves, web, keeper>>

ServerSpec == ServerInit /\ [][ServerNext]_serverVars

(* The timer fires for ever and every await of a tick is answered; nothing *)
(* is assumed of requests, of the feed or of the clock.                    *)
FairServerSpec ==
  ServerSpec /\ \A k \in TickSlots : WF_serverVars(KeeperStep(k))
-----------------------------------------------------------------------------
(* PROPERTIES                                                              *)

RequestState ==
  [pc : {"idle", "quoted", "funded", "allowed", "slotted", "signed",
         "measured", "sent", "unknown", "confirmed", "done", "failed"},
   kind : {"none", "open", "close"}, plan : Plans, price : Nat, expiry : Nat,
   balance : Nat, epoch : 0 .. NumEpochs, nonce : Nat, seq : Nat,
   intent : Intents \cup {NoIntent}, before : Nat, received : Int]

TickState ==
  [pc : {"idle", "post", "list", "trigger", "liquidate"}, price : Nat,
   time : Nat, at : Nat, todo : SUBSET PositionState]

(* Everything the backend holds is of its type, the transactions under way *)
(* belong to requests that sent one, and none is executed twice.           *)
ServerTypeOK ==
  /\ TypeOK
  /\ feed \in Nat /\ moves \in Nat /\ errors \in Nat
  /\ \A r \in Requests :
       /\ req[r] \in RequestState
       /\ r \in pending => req[r].pc \in {"sent", "unknown"}
  /\ \A k \in TickSlots : tick[k] \in TickState
  /\ pending \subseteq Requests /\ landed \subseteq Requests
  /\ pending \cap landed = {}

(* Whatever the handlers, the network and the keeper do, the chain and the *)
(* signer only ever take the steps PorstPerp allows: the backend never     *)
(* asks for a signature at a slot the trader has not reached.              *)
EngineSteps == [][UNCHANGED vars \/ Next]_vars

WithinPolicy(x) ==
  /\ x.leverage \in 1 .. Limits.maxLeverage
  /\ x.collateral \in Limits.minCollateral .. Limits.maxCollateral
  /\ x.collateral * x.leverage <= Limits.maxNotional
  /\ \E quote \in FeedPrices :
       /\ x.max_entry_price = MaxEntry(x.side, quote)
       /\ IF x.side = SIDE_LONG
          THEN x.sl_price < quote /\ (x.tp_price # 0 => x.tp_price > quote)
          ELSE x.tp_price < quote /\ (x.sl_price # 0 => x.sl_price > quote)

StoppedIfRequired(x) ==
  x.leverage > Limits.requireSlAboveLeverage => x.sl_price # 0

HasExecuted(i) == \E s \in spent : s.intent = i

(* The policy decides before the signer is asked (perp-policy.ts,          *)
(* perpOpen): every open it has ever signed, executed or not, is within    *)
(* the limits, its levels are on the right side of the quote, and the      *)
(* entry limit is within a percent of that quote.  Signed with levels that *)
(* are not the checked ones it may be, without the stop-loss its leverage  *)
(* requires; but none without it ever executes.                            *)
SignedWithinPolicy ==
  \A i \in signed :
    i.kind = "open" =>
      /\ WithinPolicy(i.terms)
      /\ HasExecuted(i) => StoppedIfRequired(i.terms)

(* A request whose transaction executed got what it asked for under the    *)
(* sequence number it reports: the position that lives there has the       *)
(* plan's size, and an entry at most a percent worse than the price the    *)
(* request read, whoever else opened and closed in between (perpOpen).     *)
FilledAsQuoted ==
  \A r \in landed, p \in MyPositions :
    req[r].kind = "open" /\ p.seq = req[r].seq =>
      LET x == req[r].plan
      IN  /\ p.side = x.side /\ p.collateral = x.collateral
          /\ p.notional = x.collateral * x.leverage
          /\ IF x.side = SIDE_LONG
             THEN 100 * p.entry_price <= 101 * req[r].price
             ELSE 100 * p.entry_price >= 99 * req[r].price - 99

(* The keeper does its work: no position stays open for ever at a feed     *)
(* price that has reached its stop-loss or take-profit, in spite of        *)
(* overlapping ticks, their stale prices and a few errors (startKeeper).   *)
StopsExecuted ==
  \A s \in Seqs :
    ~<>[](\E p \in MyPositions : p.seq = s /\ TriggerHit(p, feed))

(* Nor does one stay open for ever that is at its maintenance margin at    *)
(* the feed's price (sweepPositions, liquidate).                           *)
LiquidationsExecuted ==
  \A s \in Seqs :
    ~<>[](\E p \in MyPositions : p.seq = s /\ LiquidatableAt(p, feed, now))

(* When the feed settles, the price on chain settles on it, although ticks *)
(* that overlap post their prices in any order (pushPrice, setInterval).   *)
OracleConverges ==
  \A x \in FeedPrices : <>[](feed = x) => <>[](oracle.price = x)

(* The signer never reuses a slot: two signatures at one nonce of the key  *)
(* are the same signature.                                                 *)
SlotSignedOnce ==
  \A i, j \in signed :
    i.root = j.root /\ i.epoch = j.epoch /\ i.nonce = j.nonce => i = j
=============================================================================
