-------------------------- MODULE PerpServerProofs --------------------------
(***************************************************************************)
(* What holds of the backend for every set of requests, plans, prices and  *)
(* limits.  The chain behind it is the one of PorstPerp: the proof carries *)
(* the invariants of PorstPerpProofs along, and that every step of the     *)
(* backend is one of the engine's is what keeps them.                      *)
(***************************************************************************)
EXTENDS PerpServer, PorstPerpProofs

-----------------------------------------------------------------------------
(* The inductive invariant.                                                *)

EngineInv == TypeInv /\ SigningInv /\ PositionInv

(* The clock has moved in ticks, and the price on chain is one the feed    *)
(* published.                                                              *)
ChainInv ==
  /\ trader[Self].live
  /\ oracle.price \in FeedPrices /\ feed \in FeedPrices
  /\ now <= MaxTime
  /\ \E n \in Nat : now = n * TickSeconds

HasSigned == {"signed", "measured", "sent", "unknown", "confirmed", "done"}

(* What checkOpen leaves of a plan: terms the signer's integers hold, that *)
(* are within the limits, and a stop-loss level where one is required,     *)
(* which may still become another in the digest.                           *)
Cleared(x, price) ==
  /\ TermsOf(x, price) \in OpenTerms
  /\ WithinPolicy(TermsOf(x, price))
  /\ x.leverage > Limits.requireSlAboveLeverage => SlPrice(x, price) # 0

(* What a handler holds at each of its awaits, given the slots the trader  *)
(* has been at and what the signer has signed.                             *)
Holds(q, slots, sig) ==
  /\ q.kind = "none" => q.pc \in {"idle", "failed"}
  /\ q.kind # "none" => q.expiry \in Expiries
  /\ q.kind = "open" => q.price \in FeedPrices
  /\ q.kind = "close" => q.seq \in Seqs
  /\ q.kind = "open" /\ q.pc \notin {"quoted", "funded"}
       => Cleared(q.plan, q.price)
  /\ q.pc = "slotted" => Slot(q) \in slots
  /\ q.pc \in HasSigned => q.intent = IntentOf(q) /\ q.intent \in sig

RequestsInv ==
  /\ req \in [Requests -> RequestState]
  /\ \A r \in Requests : Holds(req[r], SlotsRead(Self), signed)

(* What is on its way was sent and what landed was not sent again.         *)
NetworkInv ==
  /\ pending \subseteq Requests /\ landed \subseteq Requests
  /\ pending \cap landed = {}
  /\ \A r \in Requests :
       /\ r \in pending => req[r].pc \in {"sent", "unknown"}
       /\ req[r].pc = "sent" => r \in pending
       /\ r \in landed => req[r].pc \in {"unknown", "confirmed", "done", "failed"}

(* A signature is asked for by a request that then has left the slot.      *)
AskedToSign ==
  {r \in Requests : req[r].pc \in HasSigned \cup {"failed"}}

SignedInv ==
  /\ IsFiniteSet(signed)
  /\ Cardinality(signed) <= Cardinality(AskedToSign)
  /\ \A i \in signed : i.kind = "open" => WithinPolicy(i.terms)

(* What has executed went by terms on which both conversions agree.        *)
StopsInv ==
  \A s \in spent : s.intent.kind = "open" => StoppedIfRequired(s.intent.terms)

KeeperInv ==
  /\ tick \in [TickSlots -> TickState]
  /\ \A k \in TickSlots :
       tick[k].pc = "post" =>
         tick[k].price \in FeedPrices /\ tick[k].time \in 0 .. MaxTime

CountersInv == moves \in Nat /\ errors \in Nat

(* The position a request's transaction opened is what it was quoted.      *)
FilledFor(p, q) ==
  /\ p.side = q.plan.side /\ p.collateral = q.plan.collateral
  /\ p.notional = q.plan.collateral * q.plan.leverage
  /\ IF q.plan.side = SIDE_LONG
     THEN 100 * p.entry_price <= 101 * q.price
     ELSE 100 * p.entry_price >= 99 * q.price - 99

(* Its sequence number is taken, so no later position has it.              *)
FilledInv ==
  \A r \in landed :
    req[r].kind = "open" =>
      /\ req[r].seq < trader[Self].position_count
      /\ \A p \in MyPositions : p.seq = req[r].seq => FilledFor(p, req[r])

ServerInv ==
  /\ EngineInv /\ ChainInv /\ RequestsInv /\ NetworkInv /\ SignedInv
  /\ StopsInv /\ KeeperInv /\ CountersInv /\ FilledInv
-----------------------------------------------------------------------------
(* Types of what the handlers hold.                                        *)

LEMMA LevelTyped ==
  ASSUME NEW price \in Nat, NEW pct \in Int
  PROVE  Percent(price, pct) \in Int
  <1> DEFINE a == price * (100 + pct)
  <1>1. a \in Int
    OBVIOUS
  <1>2. Percent(price, pct) = (2 * a + 100) \div 200
    BY DEF Percent, Nearest
  <1> HIDE DEF a
  <1> QED
    BY <1>1, <1>2

LEMMA PlanTyped ==
  ASSUME NEW x \in Plans, NEW price \in FeedPrices
  PROVE  /\ x.side \in Sides /\ x.collateral \in Int /\ x.leverage \in Int
         /\ SlPrice(x, price) \in Int /\ TpPrice(x, price) \in Int
         /\ price \in Nat \ {0}
  <1>1. /\ x.side \in Sides /\ x.collateral \in Int /\ x.leverage \in Int
        /\ x.slPct \in Int /\ x.tpPct \in Int
    BY BackendAssumption
  <1>2. price \in Nat \ {0}
    BY BackendAssumption, ChainAssumption
  <1>3. -x.slPct \in Int /\ -x.tpPct \in Int
    BY <1>1
  <1>4. SlPrice(x, price) \in Int
    BY <1>1, <1>2, <1>3, LevelTyped DEF SlPrice
  <1>5. TpPrice(x, price) \in Int
    BY <1>1, <1>2, <1>3, LevelTyped DEF TpPrice
  <1> QED
    BY <1>1, <1>2, <1>4, <1>5

LEMMA TermsFields ==
  ASSUME NEW x, NEW price
  PROVE  /\ TermsOf(x, price).market = Mkt
         /\ TermsOf(x, price).side = x.side
         /\ TermsOf(x, price).collateral = x.collateral
         /\ TermsOf(x, price).leverage = x.leverage
         /\ TermsOf(x, price).max_entry_price = MaxEntry(x.side, price)
         /\ TermsOf(x, price).sl_price = Saturated(SlPrice(x, price))
         /\ TermsOf(x, price).tp_price = Saturated(TpPrice(x, price))
  BY DEF TermsOf, TermsWith

(* A level the two conversions agree on is the one that was checked.       *)
LEMMA SentAsSigned ==
  ASSUME NEW x \in Plans, NEW price \in FeedPrices,
         TermsSent(x, price) = TermsOf(x, price)
  PROVE  TermsOf(x, price).sl_price = SlPrice(x, price)
  <1> DEFINE sl == SlPrice(x, price)
  <1>1. TermsSent(x, price).sl_price = Magnitude(sl)
    BY DEF TermsSent, TermsWith
  <1>2. Magnitude(sl) = Saturated(sl)
    BY <1>1, TermsFields
  <1>3. sl \in Int
    BY PlanTyped
  <1> HIDE DEF sl
  <1>4. Saturated(sl) = sl
    BY <1>2, <1>3 DEF Magnitude, Saturated
  <1> QED
    BY <1>4, TermsFields DEF sl

LEMMA IntentTyped ==
  ASSUME NEW q \in RequestState, NEW slots, NEW sig, Holds(q, slots, sig),
         q.kind # "none", q.pc \notin {"quoted", "funded"}
  PROVE  IntentOf(q) \in Intents
  <1>1. /\ KeyOf[Self] \in Roots /\ q.epoch \in Nat /\ q.nonce \in Nat
        /\ q.expiry \in Nat /\ Self \in Traders /\ q.seq \in Nat
    BY BackendAssumption, SigningAssumption DEF Holds, RequestState
  <1>2. CASE q.kind = "open"
    <2>1. TermsOf(q.plan, q.price) \in OpenTerms
      BY <1>2 DEF Holds, Cleared
    <2> QED
      BY <1>1, <1>2, <2>1 DEF IntentOf, Intents, OpenIntents
  <1>3. CASE q.kind = "close"
    BY <1>1, <1>3 DEF IntentOf, Intents, CloseIntents
  <1> QED
    BY <1>2, <1>3 DEF RequestState

(* A request that goes on holding what it held.                            *)
LEMMA HoldsMore ==
  ASSUME NEW q, NEW slots, NEW sig, NEW slots2, NEW sig2,
         Holds(q, slots, sig), slots \subseteq slots2, sig \subseteq sig2
  PROVE  Holds(q, slots2, sig2)
  BY DEF Holds

(* A time the clock has been at leaves room for the life of an intent.     *)
LEMMA ClockInExpiries ==
  ASSUME EngineInv, ChainInv
  PROVE  now + RequestTTL \in Expiries
  <1>1. PICK n \in Nat : now = n * TickSeconds
    BY DEF ChainInv
  <1>2. TickSeconds \in Nat \ {0} /\ MaxTime \in Nat
    BY ChainAssumption
  <1>3. n <= n * TickSeconds
    <2>1. \E k \in Nat : TickSeconds = k + 1
      <3>1. TickSeconds - 1 \in Nat
        BY <1>2
      <3> QED
        BY <1>2, <3>1
    <2>2. PICK k \in Nat : TickSeconds = k + 1
      BY <2>1
    <2>3. n * TickSeconds = n * k + n /\ n * k \in Nat
      BY <2>2
    <2> QED
      BY <2>3
  <1>4. n \in 0 .. MaxTime /\ n * TickSeconds <= MaxTime
    <2>1. n * TickSeconds <= MaxTime /\ n * TickSeconds \in Nat
      BY <1>1, <1>2 DEF ChainInv
    <2> QED
      BY <1>2, <1>3, <2>1
  <1> QED
    BY <1>1, <1>4, BackendAssumption

LEMMA BalanceTyped ==
  ASSUME TypeInv
  PROVE  BalanceAnswers \subseteq Nat
  BY BackendAssumption DEF BalanceAnswers, TypeInv, TypeOK

(* One request moves while the rest wait.                                  *)
LEMMA OneRequest ==
  ASSUME RequestsInv, NEW r \in Requests, NEW q \in RequestState,
         req' = [req EXCEPT ![r] = q],
         Holds(q, SlotsRead(Self)', signed'),
         SlotsRead(Self) \subseteq SlotsRead(Self)', signed \subseteq signed'
  PROVE  RequestsInv'
  <1>1. req' \in [Requests -> RequestState]
    BY DEF RequestsInv
  <1>2. req'[r] = q /\ \A u \in Requests \ {r} : req'[u] = req[u]
    BY DEF RequestsInv
  <1>3. \A u \in Requests \ {r} : Holds(req'[u], SlotsRead(Self)', signed')
    BY <1>2, HoldsMore DEF RequestsInv
  <1> QED
    BY <1>1, <1>2, <1>3 DEF RequestsInv

LEMMA BlankTyped ==
  /\ Blank \in RequestState
  /\ [Blank EXCEPT !.pc = "failed"] \in RequestState
  /\ \A slots, sig : Holds([Blank EXCEPT !.pc = "failed"], slots, sig)
  /\ \A slots, sig : Holds(Blank, slots, sig)
  <1>1. (CHOOSE x \in Plans : TRUE) \in Plans
    BY BackendAssumption
  <1>2. NumEpochs \in Nat
    BY SigningAssumption
  <1>3. Blank \in RequestState /\ Blank.pc = "idle" /\ Blank.kind = "none"
    BY <1>1, <1>2 DEF Blank, RequestState
  <1> DEFINE f == [Blank EXCEPT !.pc = "failed"]
  <1>4. f \in RequestState /\ f.pc = "failed" /\ f.kind = "none"
    BY <1>3 DEF RequestState
  <1> HIDE DEF f
  <1>5. /\ \A slots, sig : Holds(f, slots, sig)
        /\ \A slots, sig : Holds(Blank, slots, sig)
    BY <1>3, <1>4 DEF Holds, HasSigned
  <1> QED
    BY <1>3, <1>4, <1>5 DEF f
-----------------------------------------------------------------------------
(* The handlers' steps, one after another.  Each leaves the chain alone    *)
(* and moves one request, save for the signing.                            *)

LEMMA AbandonHolds ==
  ASSUME RequestsInv, NEW r \in Requests, Abandon(r),
         SlotsRead(Self) \subseteq SlotsRead(Self)', signed \subseteq signed'
  PROVE  RequestsInv'
  BY BlankTyped, OneRequest DEF Abandon

LEMMA StartOpenHolds ==
  ASSUME EngineInv, ChainInv, RequestsInv, NEW r \in Requests,
         NEW x \in Plans, StartOpen(r, x), UNCHANGED vars
  PROVE  RequestsInv'
  <1> DEFINE q == [Blank EXCEPT !.pc = "quoted", !.kind = "open", !.plan = x,
                     !.price = oracle.price, !.expiry = now + RequestTTL]
  <1>1. now + RequestTTL \in Expiries
    BY ClockInExpiries
  <1>2. oracle.price \in Nat /\ now + RequestTTL \in Nat
    BY <1>1, SigningAssumption DEF EngineInv, TypeInv, TypeOK, OracleState
  <1>3. /\ q \in RequestState /\ q.pc = "quoted" /\ q.kind = "open"
        /\ q.price = oracle.price /\ q.expiry = now + RequestTTL
    BY <1>2, BlankTyped DEF RequestState
  <1>4. req' = [req EXCEPT ![r] = q]
    BY DEF StartOpen
  <1>5. SlotsRead(Self)' = SlotsRead(Self) /\ signed' = signed
    BY DEF vars, SlotsRead
  <1> HIDE DEF q
  <1>6. Holds(q, SlotsRead(Self), signed)
    BY <1>1, <1>3 DEF Holds, HasSigned, ChainInv
  <1> QED
    BY <1>3, <1>4, <1>5, <1>6, OneRequest

LEMMA StartCloseHolds ==
  ASSUME EngineInv, ChainInv, RequestsInv, NEW r \in Requests,
         NEW seq \in Seqs, StartClose(r, seq), UNCHANGED vars
  PROVE  RequestsInv'
  <1> DEFINE q == [Blank EXCEPT !.pc = "allowed", !.kind = "close",
                     !.seq = seq, !.expiry = now + RequestTTL]
  <1>1. now + RequestTTL \in Expiries
    BY ClockInExpiries
  <1>2. seq \in Nat /\ now + RequestTTL \in Nat
    BY <1>1, SigningAssumption, BackendAssumption
  <1>3. /\ q \in RequestState /\ q.pc = "allowed" /\ q.kind = "close"
        /\ q.seq = seq /\ q.expiry = now + RequestTTL
    BY <1>2, BlankTyped DEF RequestState
  <1>4. req' = [req EXCEPT ![r] = q]
    BY DEF StartClose
  <1>5. SlotsRead(Self)' = SlotsRead(Self) /\ signed' = signed
    BY DEF vars, SlotsRead
  <1> HIDE DEF q
  <1>6. Holds(q, SlotsRead(Self), signed)
    BY <1>1, <1>3 DEF Holds, HasSigned
  <1> QED
    BY <1>3, <1>4, <1>5, <1>6, OneRequest

(* What the policy lets through is within it: the quote of the request is  *)
(* the one the limits are taken from.                                      *)
LEMMA CheckedIsCleared ==
  ASSUME NEW x \in Plans, NEW price \in FeedPrices, NEW expiry, NEW balance,
         NEW openCount, CheckOpen(x, price, expiry, balance, openCount)
  PROVE  Cleared(x, price)
  <1> DEFINE y == TermsOf(x, price)
             sl == SlPrice(x, price)
             tp == TpPrice(x, price)
  <1>1. /\ x.side \in Sides /\ x.collateral \in Int /\ x.leverage \in Int
        /\ sl \in Int /\ tp \in Int /\ price \in Nat \ {0}
    BY PlanTyped
  <1>2. /\ y.market = Mkt
        /\ y.side = x.side /\ y.collateral = x.collateral
        /\ y.leverage = x.leverage /\ y.sl_price = Saturated(sl)
        /\ y.tp_price = Saturated(tp)
        /\ y.max_entry_price = MaxEntry(x.side, price)
    BY TermsFields
  <1>3. /\ x.leverage >= 1 /\ x.leverage <= Limits.maxLeverage
        /\ x.collateral >= Limits.minCollateral
        /\ x.collateral <= Limits.maxCollateral
        /\ x.collateral * x.leverage <= Limits.maxNotional
        /\ x.leverage > Limits.requireSlAboveLeverage => sl # 0
        /\ LevelsSane(x, price)
    BY DEF CheckOpen
  <1>4. IF x.side = SIDE_LONG
        THEN (sl # 0 => sl < price) /\ (tp # 0 => tp > price)
        ELSE (sl # 0 => sl > price) /\ (tp # 0 => tp < price)
    BY <1>3 DEF LevelsSane
  <1>5. /\ Limits.maxLeverage \in Nat /\ Limits.minCollateral \in Nat
        /\ Limits.maxCollateral \in Nat /\ Mkt \in Markets
    BY BackendAssumption
  <1>6. y = [market |-> Mkt, side |-> x.side, collateral |-> x.collateral,
             leverage |-> x.leverage,
             max_entry_price |-> MaxEntry(x.side, price),
             sl_price |-> Saturated(sl), tp_price |-> Saturated(tp)]
    BY DEF TermsOf, TermsWith
  <1> HIDE DEF y, sl, tp
  <1>7. Saturated(sl) \in Nat /\ Saturated(tp) \in Nat
    BY <1>1 DEF Saturated
  <1>8. y \in TermsSet
    <2>1. MaxEntry(x.side, price) \in Nat
      BY <1>1 DEF MaxEntry
    <2>2. x.side \in Nat /\ x.collateral \in Nat /\ x.leverage \in Nat
      BY <1>1, <1>3, <1>5 DEF Sides, SIDE_LONG, SIDE_SHORT
    <2> QED
      BY <1>5, <1>6, <1>7, <2>1, <2>2 DEF TermsSet
  <1>9. /\ y.leverage \in 1 .. Limits.maxLeverage
        /\ y.collateral \in Limits.minCollateral .. Limits.maxCollateral
        /\ y.collateral * y.leverage <= Limits.maxNotional
    BY <1>1, <1>2, <1>3, <1>5
  <1>10. IF y.side = SIDE_LONG
         THEN y.sl_price < price /\ (y.tp_price # 0 => y.tp_price > price)
         ELSE y.tp_price < price /\ (y.sl_price # 0 => y.sl_price > price)
    BY <1>1, <1>2, <1>4 DEF Saturated
  <1>11. WithinPolicy(y)
    BY <1>2, <1>9, <1>10 DEF WithinPolicy
  <1>12. y \in OpenTerms
    BY <1>8, BackendAssumption DEF y
  <1> QED
    BY <1>3, <1>11, <1>12 DEF Cleared, y, sl

LEMMA ReadBalanceHolds ==
  ASSUME EngineInv, RequestsInv, NEW r \in Requests, ReadBalance(r)
  PROVE  RequestsInv'
  <1>1. PICK b \in BalanceAnswers :
          req' = [req EXCEPT ![r].balance = b, ![r].pc = "funded"]
    BY DEF ReadBalance
  <1> DEFINE q == [req[r] EXCEPT !.balance = b, !.pc = "funded"]
  <1>2. b \in Nat
    BY BalanceTyped DEF EngineInv
  <1>3. /\ req[r] \in RequestState /\ req[r].pc = "quoted"
        /\ Holds(req[r], SlotsRead(Self), signed)
    BY DEF RequestsInv, ReadBalance
  <1>4. /\ q \in RequestState /\ q.pc = "funded" /\ q.kind = req[r].kind
        /\ q.price = req[r].price /\ q.expiry = req[r].expiry
        /\ q.seq = req[r].seq
    BY <1>2, <1>3 DEF RequestState
  <1>5. req' = [req EXCEPT ![r] = q]
    BY <1>1 DEF RequestsInv
  <1>6. SlotsRead(Self)' = SlotsRead(Self) /\ signed' = signed
    BY DEF ReadBalance, vars, SlotsRead
  <1> HIDE DEF q
  <1>7. Holds(q, SlotsRead(Self), signed)
    BY <1>3, <1>4 DEF Holds, HasSigned
  <1> QED
    BY <1>4, <1>5, <1>6, <1>7, OneRequest

LEMMA CountAndCheckHolds ==
  ASSUME EngineInv, RequestsInv, NEW r \in Requests, CountAndCheck(r)
  PROVE  RequestsInv'
  <1> DEFINE q == [req[r] EXCEPT !.pc = "allowed", !.balance = 0]
             ok == CheckOpen(req[r].plan, req[r].price, req[r].expiry,
                             req[r].balance, Cardinality(MyPositions))
  <1>1. /\ req[r] \in RequestState /\ req[r].pc = "funded"
        /\ Holds(req[r], SlotsRead(Self), signed)
    BY DEF RequestsInv, CountAndCheck
  <1>2. SlotsRead(Self)' = SlotsRead(Self) /\ signed' = signed
    BY DEF CountAndCheck, vars, SlotsRead
  <1>3. CASE ok
    <2>1. /\ q \in RequestState /\ q.pc = "allowed" /\ q.kind = req[r].kind
          /\ q.price = req[r].price /\ q.expiry = req[r].expiry
          /\ q.seq = req[r].seq /\ q.plan = req[r].plan
      BY <1>1 DEF RequestState
    <2>2. req' = [req EXCEPT ![r] = q]
      BY <1>3 DEF CountAndCheck, RequestsInv
    <2>3. q.kind = "open" => Cleared(q.plan, q.price)
      BY <1>1, <1>3, <2>1, CheckedIsCleared DEF Holds, RequestState
    <2> HIDE DEF q
    <2>4. Holds(q, SlotsRead(Self), signed)
      BY <1>1, <2>1, <2>3 DEF Holds, HasSigned
    <2> QED
      BY <1>2, <2>1, <2>2, <2>4, OneRequest
  <1>4. CASE ~ok
    BY <1>2, <1>4, AbandonHolds DEF CountAndCheck
  <1> QED
    BY <1>3, <1>4

(* The slot that is read is the trader's present one.                      *)
LEMMA ReadSlotHolds ==
  ASSUME EngineInv, RequestsInv, NEW r \in Requests, ReadSlot(r)
  PROVE  RequestsInv'
  <1> DEFINE seq == IF req[r].kind = "open" THEN trader[Self].position_count
                                            ELSE req[r].seq
             q == [req[r] EXCEPT !.pc = "slotted", !.epoch = trader[Self].epoch,
                                 !.nonce = trader[Self].nonce, !.seq = seq]
  <1>1. /\ req[r] \in RequestState /\ req[r].pc = "allowed"
        /\ Holds(req[r], SlotsRead(Self), signed)
    BY DEF RequestsInv, ReadSlot
  <1>2. /\ trader[Self].epoch \in 0 .. NumEpochs
        /\ trader[Self].nonce \in Nat /\ trader[Self].position_count \in Nat
    <2>1. trader[Self] \in TraderState /\ LedgerOf(Self)
      BY BackendAssumption DEF EngineInv, TypeInv, TypeOK, SigningInv
    <2> QED
      BY <2>1, SigningAssumption DEF TraderState, LedgerOf
  <1>3. req' = [req EXCEPT ![r] = q]
    BY DEF ReadSlot, RequestsInv
  <1>4. /\ q \in RequestState /\ q.pc = "slotted" /\ q.kind = req[r].kind
        /\ q.price = req[r].price /\ q.expiry = req[r].expiry
        /\ q.seq = seq /\ q.plan = req[r].plan
        /\ q.epoch = trader[Self].epoch /\ q.nonce = trader[Self].nonce
    BY <1>1, <1>2 DEF RequestState
  <1>5. q.kind = "close" => q.seq = req[r].seq
    BY <1>4
  <1>6. SlotsRead(Self)' = SlotsRead(Self) /\ signed' = signed
    BY DEF ReadSlot, vars, SlotsRead
  <1> HIDE DEF q, seq
  <1>7. Slot(q) \in SlotsRead(Self)
    BY <1>4 DEF Slot, SlotsRead
  <1>8. Holds(q, SlotsRead(Self), signed)
    BY <1>1, <1>4, <1>5, <1>7 DEF Holds, HasSigned
  <1> QED
    BY <1>3, <1>4, <1>6, <1>8, OneRequest

LEMMA SignRequestHolds ==
  ASSUME EngineInv, RequestsInv, NEW r \in Requests, SignRequest(r)
  PROVE  RequestsInv'
  <1> DEFINE i == IntentOf(req[r])
             q == [req[r] EXCEPT !.pc = "signed", !.intent = i]
  <1>1. /\ req[r] \in RequestState /\ req[r].pc = "slotted"
        /\ Holds(req[r], SlotsRead(Self), signed)
    BY DEF RequestsInv, SignRequest
  <1>2. SlotsRead(Self)' = SlotsRead(Self)
    BY DEF SignRequest, chain, SlotsRead
  <1>3. CASE req[r].epoch < NumEpochs
    <2>1. i \in Intents
      <3>1. req[r].kind # "none"
        BY <1>1 DEF Holds
      <3> QED
        BY <1>1, <3>1, IntentTyped
    <2>2. /\ req' = [req EXCEPT ![r] = q] /\ signed' = signed \cup {i}
      BY <1>3 DEF SignRequest, RequestsInv
    <2>3. /\ q \in RequestState /\ q.pc = "signed" /\ q.kind = req[r].kind
          /\ q.price = req[r].price /\ q.expiry = req[r].expiry
          /\ q.seq = req[r].seq /\ q.plan = req[r].plan
          /\ q.epoch = req[r].epoch /\ q.nonce = req[r].nonce
          /\ q.intent = i
      <3> HIDE DEF i
      <3> QED
        BY <1>1, <2>1 DEF RequestState
    <2> HIDE DEF q
    <2>4. IntentOf(q) = i
      BY <2>3 DEF IntentOf
    <2> HIDE DEF i
    <2>5. Holds(q, SlotsRead(Self)', signed')
      BY <1>1, <1>2, <2>2, <2>3, <2>4 DEF Holds, HasSigned
    <2> QED
      BY <1>2, <2>2, <2>3, <2>5, OneRequest
  <1>4. CASE ~(req[r].epoch < NumEpochs)
    BY <1>2, <1>4, AbandonHolds DEF SignRequest
  <1> QED
    BY <1>3, <1>4

(* From the signing on nothing that was signed changes.                    *)
LEMMA SignedStays ==
  ASSUME RequestsInv, NEW r \in Requests, NEW q \in RequestState,
         req' = [req EXCEPT ![r] = q],
         req[r].pc \in HasSigned, q.pc \in HasSigned,
         /\ q.kind = req[r].kind /\ q.plan = req[r].plan
         /\ q.price = req[r].price /\ q.expiry = req[r].expiry
         /\ q.epoch = req[r].epoch /\ q.nonce = req[r].nonce
         /\ q.seq = req[r].seq /\ q.intent = req[r].intent,
         SlotsRead(Self) \subseteq SlotsRead(Self)', signed \subseteq signed'
  PROVE  RequestsInv'
  <1>1. Holds(req[r], SlotsRead(Self), signed)
    BY DEF RequestsInv
  <1>2. IntentOf(q) = IntentOf(req[r])
    BY DEF IntentOf
  <1>3. Holds(q, SlotsRead(Self)', signed')
    BY <1>1, <1>2 DEF Holds, HasSigned
  <1> QED
    BY <1>3, OneRequest

(* The steps of a request that only move it on.                            *)
LEMMA MoveHolds ==
  ASSUME RequestsInv, NEW r \in Requests, NEW pc,
         req' = [req EXCEPT ![r].pc = pc], req[r].pc \in HasSigned,
         pc \in HasSigned,
         SlotsRead(Self) \subseteq SlotsRead(Self)', signed \subseteq signed'
  PROVE  RequestsInv'
  <1> DEFINE q == [req[r] EXCEPT !.pc = pc]
  <1>1. req' = [req EXCEPT ![r] = q] /\ req[r] \in RequestState
    BY DEF RequestsInv
  <1>2. /\ q \in RequestState /\ q.pc = pc
        /\ q.kind = req[r].kind /\ q.plan = req[r].plan
        /\ q.price = req[r].price /\ q.expiry = req[r].expiry
        /\ q.epoch = req[r].epoch /\ q.nonce = req[r].nonce
        /\ q.seq = req[r].seq /\ q.intent = req[r].intent
    BY <1>1 DEF RequestState, HasSigned
  <1> HIDE DEF q
  <1> QED
    BY <1>1, <1>2, SignedStays

LEMMA ReadBeforeHolds ==
  ASSUME EngineInv, RequestsInv, NEW r \in Requests, ReadBefore(r)
  PROVE  RequestsInv'
  <1>1. PICK b \in BalanceAnswers :
          req' = [req EXCEPT ![r].before = b, ![r].pc = "measured"]
    BY DEF ReadBefore
  <1> DEFINE q == [req[r] EXCEPT !.before = b, !.pc = "measured"]
  <1>2. b \in Nat
    BY BalanceTyped DEF EngineInv
  <1>3. req[r] \in RequestState /\ req[r].pc = "signed"
    BY DEF RequestsInv, ReadBefore
  <1>4. /\ q \in RequestState /\ q.pc = "measured"
        /\ q.kind = req[r].kind /\ q.plan = req[r].plan
        /\ q.price = req[r].price /\ q.expiry = req[r].expiry
        /\ q.epoch = req[r].epoch /\ q.nonce = req[r].nonce
        /\ q.seq = req[r].seq /\ q.intent = req[r].intent
    BY <1>2, <1>3 DEF RequestState
  <1>5. req' = [req EXCEPT ![r] = q]
    BY <1>1 DEF RequestsInv
  <1>6. SlotsRead(Self)' = SlotsRead(Self) /\ signed' = signed
    BY DEF ReadBefore, vars, SlotsRead
  <1>7. req[r].pc \in HasSigned /\ q.pc \in HasSigned
    BY <1>3, <1>4 DEF HasSigned
  <1> HIDE DEF q
  <1> QED
    BY <1>4, <1>5, <1>6, <1>7, SignedStays

LEMMA FinishHolds ==
  ASSUME EngineInv, RequestsInv, NEW r \in Requests, Finish(r)
  PROVE  RequestsInv'
  <1>1. PICK b \in BalanceAnswers :
          req' = [req EXCEPT ![r].pc = "done",
            ![r].received = IF req[r].kind = "close" THEN b - req[r].before
                                                     ELSE 0]
    BY DEF Finish
  <1> DEFINE got == IF req[r].kind = "close" THEN b - req[r].before ELSE 0
             q == [req[r] EXCEPT !.pc = "done", !.received = got]
  <1>2. b \in Nat
    BY BalanceTyped DEF EngineInv
  <1>3. req[r] \in RequestState /\ req[r].pc = "confirmed"
    BY DEF RequestsInv, Finish
  <1>4. got \in Int
    BY <1>2, <1>3 DEF RequestState
  <1>5. req' = [req EXCEPT ![r] = q]
    BY <1>1 DEF RequestsInv
  <1> HIDE DEF got
  <1>6. /\ q \in RequestState /\ q.pc = "done"
        /\ q.kind = req[r].kind /\ q.plan = req[r].plan
        /\ q.price = req[r].price /\ q.expiry = req[r].expiry
        /\ q.epoch = req[r].epoch /\ q.nonce = req[r].nonce
        /\ q.seq = req[r].seq /\ q.intent = req[r].intent
    BY <1>3, <1>4 DEF RequestState
  <1>7. SlotsRead(Self)' = SlotsRead(Self) /\ signed' = signed
    BY DEF Finish, vars, SlotsRead
  <1>8. req[r].pc \in HasSigned /\ q.pc \in HasSigned
    BY <1>3, <1>6 DEF HasSigned
  <1> HIDE DEF q
  <1> QED
    BY <1>5, <1>6, <1>7, <1>8, SignedStays
-----------------------------------------------------------------------------
(* The transaction of a request.                                           *)

(* One that is on its way carries the intent its request was signed.       *)
LEMMA SentIntent ==
  ASSUME RequestsInv, NetworkInv, NEW r \in pending
  PROVE  /\ r \in Requests /\ req[r] \in RequestState
         /\ req[r].pc \in {"sent", "unknown"}
         /\ req[r].intent = IntentOf(req[r]) /\ req[r].intent \in signed
         /\ req[r].kind \in {"open", "close"}
  <1>1. /\ r \in Requests /\ req[r] \in RequestState
        /\ req[r].pc \in {"sent", "unknown"}
        /\ Holds(req[r], SlotsRead(Self), signed)
    BY DEF NetworkInv, RequestsInv
  <1> QED
    BY <1>1 DEF Holds, HasSigned, RequestState

(* What a transaction does, as the program sees it.                        *)
LandsOpen(r) ==
  /\ req[r].kind = "open"
  /\ req[r].seq = trader[Self].position_count
  /\ TermsSent(req[r].plan, req[r].price) = req[r].intent.terms
  /\ OpenPosition(Self, req[r].intent)

LandsClose(r, p) ==
  /\ req[r].kind = "close"
  /\ ClosePosition(p, req[r].intent)

(* Every step of the backend either leaves the chain and the signer alone  *)
(* or is one of these.                                                     *)
Signs(r) ==
  /\ req[r].pc = "slotted" /\ req[r].epoch < NumEpochs
  /\ signed' = signed \cup {IntentOf(req[r])}
  /\ UNCHANGED <<now, chain>>

EngineMove ==
  \/ UNCHANGED vars
  \/ \E r \in Requests : Signs(r)
  \/ \E r \in pending : LandsOpen(r) \/ \E p \in MyPositions : LandsClose(r, p)
  \/ \E k \in TickSlots :
       tick[k].pc = "post" /\ UpdateOracle(tick[k].price, tick[k].time)
  \/ \E p \in positions : Trigger(p) \/ Liquidate(p)
  \/ Tick

LEMMA StepMoves ==
  ASSUME [ServerNext]_serverVars
  PROVE  EngineMove
  <1>1. CASE UNCHANGED serverVars
    BY <1>1 DEF serverVars, EngineMove
  <1>2. ASSUME NEW r \in Requests, Handle(r)
        PROVE  EngineMove
    <2>1. CASE SignRequest(r)
      <3>1. CASE req[r].epoch < NumEpochs
        BY <2>1, <3>1 DEF SignRequest, Signs, EngineMove
      <3>2. CASE ~(req[r].epoch < NumEpochs)
        BY <2>1, <3>2 DEF SignRequest, chain, vars, EngineMove
      <3> QED
        BY <3>1, <3>2
    <2>2. CASE ~SignRequest(r)
      <3>1. UNCHANGED vars
        BY <1>2, <2>2
        DEF Handle, StartOpen, ReadBalance, CountAndCheck, StartClose,
            ReadSlot, RequestFails, ReadBefore, Send, GiveUp, Finish
      <3> QED
        BY <3>1 DEF EngineMove
    <2> QED
      BY <2>1, <2>2
  <1>3. ASSUME NEW r \in Requests, Land(r)
        PROVE  EngineMove
    BY <1>3 DEF Land, LandsOpen, LandsClose, EngineMove
  <1>4. ASSUME NEW r \in Requests, Drop(r)
        PROVE  EngineMove
    BY <1>4 DEF Drop, EngineMove
  <1>5. ASSUME NEW k \in TickSlots, KeeperStep(k)
        PROVE  EngineMove
    <2>1. CASE FetchPrice(k) \/ ListPositions(k) \/ SweepNoTrigger(k)
                 \/ SweepNoLiquidation(k)
      BY <2>1
      DEF FetchPrice, ListPositions, SweepNoTrigger, SweepNoLiquidation,
          EngineMove
    <2>2. CASE PostPrice(k)
      BY <2>2 DEF PostPrice, EngineMove
    <2>3. CASE SweepTrigger(k)
      BY <2>3 DEF SweepTrigger, EngineMove
    <2>4. CASE SweepLiquidate(k)
      BY <2>4 DEF SweepLiquidate, EngineMove
    <2> QED
      BY <1>5, <2>1, <2>2, <2>3, <2>4 DEF KeeperStep
  <1>6. CASE \/ \E k \in TickSlots : KeeperError(k)
             \/ FeedMoves
    BY <1>6 DEF KeeperError, FeedMoves, EngineMove
  <1>7. CASE Tick
    BY <1>7 DEF EngineMove
  <1> QED
    BY <1>1, <1>2, <1>3, <1>4, <1>5, <1>6, <1>7 DEF ServerNext, Network

(* A signature is asked for at a slot the trader has been at, and there is *)
(* room for it among those the requests may ask for.                       *)
LEMMA RoomToSign ==
  ASSUME RequestsInv, SignedInv, NEW r \in Requests, req[r].pc = "slotted"
  PROVE  Cardinality(signed) < MaxSigned
  <1>1. AskedToSign \subseteq Requests \ {r}
    BY DEF AskedToSign, HasSigned
  <1>2. /\ IsFiniteSet(Requests \ {r}) /\ IsFiniteSet(Requests)
        /\ Cardinality(Requests \ {r}) = Cardinality(Requests) - 1
    BY BackendAssumption, FS_RemoveElement
  <1>3. Cardinality(AskedToSign) <= Cardinality(Requests) - 1
    BY <1>1, <1>2, FS_Subset
  <1>4. /\ Cardinality(signed) \in Nat /\ Cardinality(AskedToSign) \in Nat
        /\ Cardinality(Requests) \in Nat /\ MaxSigned \in Nat
    <2>1. IsFiniteSet(AskedToSign)
      BY <1>1, <1>2, FS_Subset
    <2> QED
      BY <1>2, <2>1, FS_CardinalityType, ChainAssumption DEF SignedInv
  <1> QED
    BY <1>3, <1>4, BackendAssumption DEF SignedInv

LEMMA SignsIsSign ==
  ASSUME EngineInv, ChainInv, RequestsInv, SignedInv,
         NEW r \in Requests, Signs(r)
  PROVE  Sign
  <1> DEFINE q == req[r]
             slot == Slot(q)
  <1>1. /\ q \in RequestState /\ Holds(q, SlotsRead(Self), signed)
        /\ q.pc = "slotted"
    BY DEF RequestsInv, Signs
  <1>2. /\ slot \in SlotsRead(Self)
        /\ slot.epoch = q.epoch /\ slot.nonce = q.nonce
    BY <1>1 DEF Holds, Slot
  <1>3. CanSign(Self, slot)
    <2>1. slot.epoch < NumEpochs
      BY <1>2 DEF Signs
    <2> QED
      BY <1>1, <2>1, RoomToSign DEF CanSign, ChainInv
  <1>4. trader[Self].xmss_root = KeyOf[Self]
    BY BackendAssumption DEF EngineInv, SigningInv, LedgerOf
  <1>5. /\ signed' = signed \cup {IntentOf(q)} /\ UNCHANGED <<now, chain>>
        /\ Self \in Traders
    BY BackendAssumption DEF Signs
  <1>6. q.kind \in {"open", "close"} /\ q.expiry \in Expiries
    BY <1>1 DEF Holds, RequestState
  <1>7. CASE q.kind = "open"
    <2>1. TermsOf(q.plan, q.price) \in OpenTerms
      BY <1>1, <1>7 DEF Holds, Cleared
    <2>2. IntentOf(q) = [kind |-> "open", root |-> trader[Self].xmss_root,
                         epoch |-> slot.epoch, nonce |-> slot.nonce,
                         terms |-> TermsOf(q.plan, q.price),
                         expiry |-> q.expiry]
      BY <1>2, <1>4, <1>7 DEF IntentOf
    <2> HIDE DEF q, slot
    <2>3. SignOpen(Self, slot, TermsOf(q.plan, q.price), q.expiry)
      BY <1>3, <1>5, <2>2 DEF SignOpen
    <2> QED
      BY <1>2, <1>5, <1>6, <2>1, <2>3 DEF Sign
  <1>8. CASE q.kind = "close"
    <2>1. q.seq \in CloseSeqs
      BY <1>1, <1>8, BackendAssumption DEF Holds
    <2>2. IntentOf(q) = [kind |-> "close", root |-> trader[Self].xmss_root,
                         epoch |-> slot.epoch, nonce |-> slot.nonce,
                         trader |-> Self, seq |-> q.seq, expiry |-> q.expiry]
      BY <1>2, <1>4, <1>8 DEF IntentOf
    <2> HIDE DEF q, slot
    <2>3. SignClose(Self, slot, q.seq, q.expiry)
      BY <1>3, <1>5, <2>2 DEF SignClose
    <2> QED
      BY <1>2, <1>5, <1>6, <2>1, <2>3 DEF Sign
  <1> QED
    BY <1>6, <1>7, <1>8

LEMMA MoveOfEngine ==
  ASSUME EngineInv, ChainInv, RequestsInv, NetworkInv, SignedInv, KeeperInv,
         EngineMove
  PROVE  UNCHANGED vars \/ Next
  <1>1. ASSUME NEW r \in Requests, Signs(r)
        PROVE  Next
    BY <1>1, SignsIsSign DEF Next
  <1>2. ASSUME NEW r \in pending, LandsOpen(r)
        PROVE  Next
    <2>1. req[r].intent \in signed /\ Self \in Traders
      BY SentIntent, BackendAssumption
    <2> QED
      BY <1>2, <2>1 DEF LandsOpen, Next, Submit
  <1>3. ASSUME NEW r \in pending, NEW p \in MyPositions, LandsClose(r, p)
        PROVE  Next
    <2>1. req[r].intent \in signed /\ p \in positions
      BY SentIntent DEF MyPositions
    <2> QED
      BY <1>3, <2>1 DEF LandsClose, Next, Submit
  <1>4. ASSUME NEW k \in TickSlots, tick[k].pc = "post",
               UpdateOracle(tick[k].price, tick[k].time)
        PROVE  Next
    <2>1. tick[k].price \in Prices /\ tick[k].time \in FeedTimes
      BY <1>4, BackendAssumption DEF KeeperInv
    <2> QED
      BY <1>4, <2>1 DEF Next, Feed
  <1>5. ASSUME NEW p \in positions, Trigger(p) \/ Liquidate(p)
        PROVE  Next
    BY <1>5 DEF Next, Maintain
  <1> QED
    BY <1>1, <1>2, <1>3, <1>4, <1>5 DEF EngineMove, Next

LEMMA EngineInvKept ==
  ASSUME EngineInv, UNCHANGED vars \/ Next
  PROVE  EngineInv'
  <1>1. [Next]_vars
    OBVIOUS
  <1>2. TypeInv'
    BY <1>1, TypeInvNext DEF EngineInv
  <1>3. SigningInv'
    BY <1>1, <1>2, SigningInvNext DEF EngineInv
  <1>4. PositionInv'
    BY <1>1, PositionInvNext DEF EngineInv
  <1> QED
    BY <1>2, <1>3, <1>4 DEF EngineInv

(* The slots a request may have read stay read.                            *)
LEMMA SlotsGrow ==
  ASSUME EngineInv, [Next]_vars
  PROVE  SlotsRead(Self) \subseteq SlotsRead(Self)' /\ signed \subseteq signed'
  <1>1. Self \in Traders
    BY BackendAssumption
  <1>2. CASE NothingConsumed
    <2>1. /\ spent' = spent /\ signed \subseteq signed'
          /\ Slot(trader[Self])' = Slot(trader[Self])
      BY <1>1, <1>2 DEF NothingConsumed, SameSlot, Slot
    <2> QED
      BY <2>1 DEF SlotsRead
  <1>3. ASSUME NEW t \in Traders, NEW i \in signed, Consumed(t, i)
        PROVE  SlotsRead(Self) \subseteq SlotsRead(Self)' /\ signed' = signed
    <2> DEFINE s0 == [trader |-> t, intent |-> i]
    <2>1. /\ spent \subseteq spent' /\ s0 \in spent' /\ signed' = signed
          /\ Slot(i) = Slot(trader[t])
          /\ t # Self => Slot(trader[Self])' = Slot(trader[Self])
      BY <1>1, <1>3 DEF Consumed, SameSlot, Authorises, Slot
    <2>2. s0.trader = t /\ s0.intent = i
      OBVIOUS
    <2> HIDE DEF s0
    <2>3. Slot(trader[Self]) \in SlotsRead(Self)'
      <3>1. CASE t # Self
        BY <2>1, <3>1 DEF SlotsRead
      <3>2. CASE t = Self
        <4>1. s0 \in {u \in spent' : u.trader = Self}
          BY <2>1, <2>2, <3>2
        <4> QED
          BY <2>1, <2>2, <3>2, <4>1 DEF SlotsRead
      <3> QED
        BY <3>1, <3>2
    <2>4. ASSUME NEW s \in spent, s.trader = Self
          PROVE  Slot(s.intent) \in SlotsRead(Self)'
      BY <2>1, <2>4 DEF SlotsRead
    <2>5. \A z \in SlotsRead(Self) :
            \/ z = Slot(trader[Self])
            \/ \E s \in spent : s.trader = Self /\ z = Slot(s.intent)
      BY DEF SlotsRead
    <2> QED
      BY <2>1, <2>3, <2>4, <2>5
  <1> QED
    BY <1>2, <1>3, StepConsumes DEF EngineInv
-----------------------------------------------------------------------------
(* Where a handler goes from each of its awaits.                           *)

PcMove(a, b) ==
  \/ a = "idle" /\ b \in {"quoted", "allowed"}
  \/ a = "quoted" /\ b = "funded"
  \/ a = "funded" /\ b = "allowed"
  \/ a = "allowed" /\ b = "slotted"
  \/ a = "slotted" /\ b = "signed"
  \/ a = "signed" /\ b = "measured"
  \/ a \in {"signed", "measured"} /\ b = "sent"
  \/ a = "sent" /\ b = "unknown"
  \/ a = "confirmed" /\ b = "done"
  \/ a \in {"quoted", "funded", "allowed", "slotted", "signed", "measured",
           "confirmed"} /\ b = "failed"

HandlerMoves(r) ==
  /\ \A u \in Requests \ {r} : req'[u] = req[u]
  /\ PcMove(req[r].pc, req'[r].pc)
  /\ landed' = landed
  /\ pending' = IF req'[r].pc = "sent" THEN pending \cup {r} ELSE pending
  /\ req'[r].kind = "open" /\ req[r].pc = "confirmed" =>
       /\ req'[r].seq = req[r].seq /\ req'[r].plan = req[r].plan
       /\ req'[r].price = req[r].price /\ req'[r].kind = req[r].kind

LEMMA AbandonMoves ==
  ASSUME RequestsInv, NEW r \in Requests, Abandon(r),
         req[r].pc \in {"quoted", "funded", "allowed", "slotted", "signed",
                       "measured", "confirmed"},
         UNCHANGED <<pending, landed>>
  PROVE  HandlerMoves(r)
  <1>1. [Blank EXCEPT !.pc = "failed"].pc = "failed"
    BY DEF Blank
  <1>2. [Blank EXCEPT !.pc = "failed"].kind = "none"
    BY DEF Blank
  <1>3. req' = [req EXCEPT ![r] = [Blank EXCEPT !.pc = "failed"]]
    BY DEF Abandon
  <1>4. /\ req'[r].pc = "failed" /\ req'[r].kind = "none"
        /\ \A u \in Requests \ {r} : req'[u] = req[u]
    BY <1>1, <1>2, <1>3 DEF RequestsInv
  <1> QED
    BY <1>4 DEF HandlerMoves, PcMove

LEMMA HandleMoves ==
  ASSUME RequestsInv, NEW r \in Requests, Handle(r)
  PROVE  HandlerMoves(r)
  <1>1. req \in [Requests -> RequestState] /\ req[r] \in RequestState
    BY DEF RequestsInv
  <1>2. CASE \E x \in Plans : StartOpen(r, x)
    BY <1>1, <1>2 DEF StartOpen, HandlerMoves, PcMove, Blank
  <1>3. CASE \E seq \in Seqs : StartClose(r, seq)
    BY <1>1, <1>3 DEF StartClose, HandlerMoves, PcMove, Blank
  <1>4. CASE ReadBalance(r)
    BY <1>1, <1>4 DEF ReadBalance, HandlerMoves, PcMove, RequestState
  <1>5. CASE CountAndCheck(r)
    <2>1. CASE Abandon(r)
      BY <1>5, <2>1, AbandonMoves DEF CountAndCheck
    <2>2. CASE ~Abandon(r)
      BY <1>1, <1>5, <2>2 DEF CountAndCheck, HandlerMoves, PcMove, RequestState
    <2> QED
      BY <2>1, <2>2
  <1>6. CASE ReadSlot(r)
    <2>1. /\ req[r].pc = "allowed" /\ UNCHANGED <<pending, landed>>
          /\ req'[r].pc = "slotted" /\ \A u \in Requests \ {r} : req'[u] = req[u]
      BY <1>1, <1>6 DEF ReadSlot, RequestState
    <2> QED
      BY <2>1 DEF HandlerMoves, PcMove
  <1>7. CASE SignRequest(r)
    <2>1. CASE req[r].epoch < NumEpochs
      <3>1. /\ req[r].pc = "slotted" /\ UNCHANGED <<pending, landed>>
            /\ req'[r].pc = "signed" /\ \A u \in Requests \ {r} : req'[u] = req[u]
        BY <1>1, <1>7, <2>1 DEF SignRequest, RequestState
      <3> QED
        BY <3>1 DEF HandlerMoves, PcMove
    <2>2. CASE ~(req[r].epoch < NumEpochs)
      BY <1>7, <2>2, AbandonMoves DEF SignRequest
    <2> QED
      BY <2>1, <2>2
  <1>8. CASE RequestFails(r)
    BY <1>8, AbandonMoves DEF RequestFails
  <1>9. CASE ReadBefore(r)
    BY <1>1, <1>9 DEF ReadBefore, HandlerMoves, PcMove, RequestState
  <1>10. CASE Send(r)
    BY <1>1, <1>10 DEF Send, Goto, HandlerMoves, PcMove, RequestState
  <1>11. CASE GiveUp(r)
    BY <1>1, <1>11 DEF GiveUp, Goto, HandlerMoves, PcMove, RequestState
  <1>12. CASE Finish(r)
    <2>1. /\ req[r].pc = "confirmed" /\ UNCHANGED <<pending, landed>>
          /\ req'[r].pc = "done" /\ \A u \in Requests \ {r} : req'[u] = req[u]
      BY <1>1, <1>12 DEF Finish, RequestState
    <2>2. /\ req'[r].seq = req[r].seq /\ req'[r].plan = req[r].plan
          /\ req'[r].price = req[r].price /\ req'[r].kind = req[r].kind
      BY <1>1, <1>12 DEF Finish, RequestState
    <2> QED
      BY <2>1, <2>2 DEF HandlerMoves, PcMove
  <1> QED
    BY <1>2, <1>3, <1>4, <1>5, <1>6, <1>7, <1>8, <1>9, <1>10, <1>11, <1>12
    DEF Handle

(* What the network does to the request it acts for.                       *)
LandMoves(r) ==
  /\ r \in pending /\ pending' = pending \ {r} /\ landed' = landed \cup {r}
  /\ \A u \in Requests \ {r} : req'[u] = req[u]
  /\ req'[r].pc = IF req[r].pc = "sent" THEN "confirmed" ELSE req[r].pc
  /\ req'[r].seq = req[r].seq /\ req'[r].plan = req[r].plan
  /\ req'[r].price = req[r].price /\ req'[r].kind = req[r].kind

DropMoves(r) ==
  /\ r \in pending /\ pending' = pending \ {r} /\ landed' = landed
  /\ \A u \in Requests \ {r} : req'[u] = req[u]
  /\ req'[r].pc = IF req[r].pc = "sent" THEN "failed" ELSE req[r].pc

LEMMA NetworkMoves ==
  ASSUME RequestsInv, NEW r \in Requests
  PROVE  /\ Land(r) => LandMoves(r)
         /\ Drop(r) => DropMoves(r)
  <1>1. req \in [Requests -> RequestState] /\ req[r] \in RequestState
    BY DEF RequestsInv
  <1>2. ASSUME Land(r) PROVE LandMoves(r)
    <2>1. /\ req' = [req EXCEPT ![r].pc = IF @ = "sent" THEN "confirmed" ELSE @]
          /\ r \in pending /\ pending' = pending \ {r}
          /\ landed' = landed \cup {r}
      BY <1>2 DEF Land
    <2> QED
      BY <1>1, <2>1 DEF LandMoves, RequestState
  <1>3. ASSUME Drop(r) PROVE DropMoves(r)
    <2>1. /\ IF req[r].pc = "sent" THEN Abandon(r) ELSE req' = req
          /\ r \in pending /\ pending' = pending \ {r} /\ landed' = landed
      BY <1>3 DEF Drop
    <2>2. [Blank EXCEPT !.pc = "failed"].pc = "failed"
      BY DEF Blank
    <2>3. CASE req[r].pc = "sent"
      <3>1. req' = [req EXCEPT ![r] = [Blank EXCEPT !.pc = "failed"]]
        BY <2>1, <2>3 DEF Abandon
      <3>2. /\ req'[r].pc = "failed"
            /\ \A u \in Requests \ {r} : req'[u] = req[u]
        BY <1>1, <2>2, <3>1
      <3> QED
        BY <2>1, <2>3, <3>2 DEF DropMoves
    <2>4. CASE req[r].pc # "sent"
      BY <2>1, <2>4 DEF DropMoves
    <2> QED
      BY <2>3, <2>4
  <1> QED
    BY <1>2, <1>3

(* The backend moves one request, or none.                                 *)
LEMMA StepOfRequests ==
  ASSUME RequestsInv, [ServerNext]_serverVars
  PROVE  \/ \E r \in Requests : HandlerMoves(r) /\ Handle(r)
         \/ \E r \in Requests : LandMoves(r) /\ Land(r)
         \/ \E r \in Requests : DropMoves(r) /\ Drop(r)
         \/ UNCHANGED web
  <1>1. ASSUME NEW r \in Requests, Handle(r)
        PROVE  HandlerMoves(r)
    BY <1>1, HandleMoves
  <1>2. ASSUME NEW r \in Requests, Network(r)
        PROVE  \/ LandMoves(r) /\ Land(r)
               \/ DropMoves(r) /\ Drop(r)
    BY <1>2, NetworkMoves DEF Network
  <1>3. ASSUME NEW k \in TickSlots, KeeperStep(k) \/ KeeperError(k)
        PROVE  UNCHANGED web
    BY <1>3
    DEF KeeperStep, FetchPrice, PostPrice, ListPositions, SweepTrigger,
        SweepNoTrigger, SweepLiquidate, SweepNoLiquidation, KeeperError
  <1>4. CASE \/ FeedMoves
             \/ Tick /\ UNCHANGED <<feed, moves, web, keeper>>
             \/ UNCHANGED serverVars
    BY <1>4 DEF FeedMoves, serverVars
  <1> QED
    BY <1>1, <1>2, <1>3, <1>4 DEF ServerNext

LEMMA NetworkInvNext ==
  ASSUME RequestsInv, NetworkInv, [ServerNext]_serverVars
  PROVE  NetworkInv'
  <1>1. ASSUME NEW r \in Requests, HandlerMoves(r)
        PROVE  NetworkInv'
    <2>1. r \in landed => req'[r].pc \in {"unknown", "confirmed", "done", "failed"}
      BY <1>1 DEF NetworkInv, HandlerMoves, PcMove
    <2>2. r \in pending' <=> req'[r].pc = "sent" \/ r \in pending
      BY <1>1 DEF HandlerMoves
    <2>3. /\ r \in pending' => req'[r].pc \in {"sent", "unknown"}
          /\ r \in pending' => r \notin landed
      BY <1>1, <2>2 DEF NetworkInv, HandlerMoves, PcMove
    <2>4. pending' \subseteq Requests /\ landed' = landed
      BY <1>1 DEF NetworkInv, HandlerMoves
    <2>5. pending' \cap landed' = {}
      BY <1>1, <2>3, <2>4 DEF NetworkInv, HandlerMoves
    <2>6. ASSUME NEW u \in Requests
          PROVE  /\ u \in pending' => req'[u].pc \in {"sent", "unknown"}
                 /\ req'[u].pc = "sent" => u \in pending'
                 /\ u \in landed' =>
                      req'[u].pc \in {"unknown", "confirmed", "done", "failed"}
      <3>1. CASE u = r
        BY <2>1, <2>2, <2>3, <2>4, <3>1
      <3>2. CASE u # r
        BY <1>1, <3>2 DEF NetworkInv, HandlerMoves
      <3> QED
        BY <3>1, <3>2
    <2> QED
      BY <2>4, <2>5, <2>6 DEF NetworkInv
  <1>2. ASSUME NEW r \in Requests, LandMoves(r)
        PROVE  NetworkInv'
    BY <1>2 DEF NetworkInv, LandMoves
  <1>3. ASSUME NEW r \in Requests, DropMoves(r)
        PROVE  NetworkInv'
    BY <1>3 DEF NetworkInv, DropMoves
  <1>4. CASE UNCHANGED web
    BY <1>4 DEF NetworkInv, web
  <1> QED
    BY <1>1, <1>2, <1>3, <1>4, StepOfRequests

(* Requests hold what they held, or one of them moves on.                  *)
LEMMA RequestsInvNext ==
  ASSUME EngineInv, ChainInv, RequestsInv, NetworkInv, SignedInv, KeeperInv,
         [ServerNext]_serverVars
  PROVE  RequestsInv'
  <1>1. SlotsRead(Self) \subseteq SlotsRead(Self)' /\ signed \subseteq signed'
    BY StepMoves, MoveOfEngine, SlotsGrow
  <1>2. CASE UNCHANGED web
    <2>1. req' = req
      BY <1>2 DEF web
    <2> QED
      BY <1>1, <2>1, HoldsMore DEF RequestsInv
  <1>3. ASSUME NEW r \in Requests, Handle(r)
        PROVE  RequestsInv'
    <2>1. CASE \E x \in Plans : StartOpen(r, x)
      <3>1. PICK x \in Plans : StartOpen(r, x)
        BY <2>1
      <3>2. UNCHANGED vars
        BY <3>1 DEF StartOpen
      <3> QED
        BY <3>1, <3>2, StartOpenHolds
    <2>2. CASE \E seq \in Seqs : StartClose(r, seq)
      <3>1. PICK seq \in Seqs : StartClose(r, seq)
        BY <2>2
      <3>2. UNCHANGED vars
        BY <3>1 DEF StartClose
      <3> QED
        BY <3>1, <3>2, StartCloseHolds
    <2>3. CASE Send(r)
      <3>1. req[r].pc \in HasSigned
        BY <2>3 DEF Send, HasSigned
      <3> QED
        BY <1>1, <2>3, <3>1, MoveHolds DEF Send, Goto, HasSigned
    <2>4. CASE GiveUp(r)
      <3>1. req[r].pc \in HasSigned
        BY <2>4 DEF GiveUp, HasSigned
      <3> QED
        BY <1>1, <2>4, <3>1, MoveHolds DEF GiveUp, Goto, HasSigned
    <2>5. CASE RequestFails(r)
      BY <1>1, <2>5, AbandonHolds DEF RequestFails
    <2> QED
      BY <1>3, <2>1, <2>2, <2>3, <2>4, <2>5, ReadBalanceHolds,
         CountAndCheckHolds, ReadSlotHolds, SignRequestHolds, ReadBeforeHolds,
         FinishHolds
      DEF Handle
  <1>4. ASSUME NEW r \in Requests, Land(r)
        PROVE  RequestsInv'
    <2> DEFINE pc == IF req[r].pc = "sent" THEN "confirmed" ELSE req[r].pc
    <2>1. r \in pending /\ req' = [req EXCEPT ![r].pc = pc]
      BY <1>4 DEF Land, RequestsInv
    <2>2. req[r].pc \in {"sent", "unknown"}
      BY <2>1, SentIntent
    <2>3. req[r].pc \in HasSigned /\ pc \in HasSigned
      BY <2>2 DEF HasSigned
    <2> HIDE DEF pc
    <2> QED
      BY <1>1, <2>1, <2>3, MoveHolds
  <1>5. ASSUME NEW r \in Requests, Drop(r)
        PROVE  RequestsInv'
    <2>1. CASE Abandon(r)
      BY <1>1, <2>1, AbandonHolds
    <2>2. CASE ~Abandon(r)
      <3>1. req' = req
        BY <1>5, <2>2 DEF Drop
      <3> QED
        BY <1>1, <3>1, HoldsMore DEF RequestsInv
    <2> QED
      BY <2>1, <2>2
  <1> QED
    BY <1>2, <1>3, <1>4, <1>5, StepOfRequests
-----------------------------------------------------------------------------
(* The signer.                                                             *)

LEMMA StepSigns ==
  ASSUME [ServerNext]_serverVars
  PROVE  \/ signed' = signed
         \/ \E r \in Requests : SignRequest(r) /\ req[r].epoch < NumEpochs
  <1>1. ASSUME NEW r \in Requests, Handle(r), ~SignRequest(r)
        PROVE  signed' = signed
    BY <1>1
    DEF Handle, StartOpen, ReadBalance, CountAndCheck, StartClose, ReadSlot,
        RequestFails, ReadBefore, Send, GiveUp, Finish, vars
  <1>2. ASSUME NEW r \in Requests, SignRequest(r)
        PROVE  req[r].epoch < NumEpochs \/ signed' = signed
    BY <1>2 DEF SignRequest
  <1>3. ASSUME NEW r \in Requests, Network(r)
        PROVE  signed' = signed
    BY <1>3 DEF Network, Land, Drop, OpenPosition, ClosePosition, vars
  <1>4. ASSUME NEW k \in TickSlots, KeeperStep(k) \/ KeeperError(k)
        PROVE  signed' = signed
    BY <1>4
    DEF KeeperStep, FetchPrice, PostPrice, ListPositions, SweepTrigger,
        SweepNoTrigger, SweepLiquidate, SweepNoLiquidation, KeeperError,
        UpdateOracle, Trigger, Liquidate, vars
  <1>5. CASE \/ FeedMoves
             \/ Tick /\ UNCHANGED <<feed, moves, web, keeper>>
             \/ UNCHANGED serverVars
    BY <1>5 DEF FeedMoves, Tick, serverVars, vars
  <1> QED
    BY <1>1, <1>2, <1>3, <1>4, <1>5 DEF ServerNext

LEMMA AskedGrows ==
  ASSUME RequestsInv, NetworkInv, [ServerNext]_serverVars
  PROVE  AskedToSign \subseteq AskedToSign'
  <1>1. SUFFICES ASSUME NEW u \in Requests,
                        req[u].pc \in HasSigned \cup {"failed"}
                 PROVE  req'[u].pc \in HasSigned \cup {"failed"}
    BY DEF AskedToSign
  <1>2. ASSUME NEW r \in Requests, HandlerMoves(r)
        PROVE  req'[u].pc \in HasSigned \cup {"failed"}
    BY <1>1, <1>2 DEF HandlerMoves, PcMove, HasSigned
  <1>3. ASSUME NEW r \in Requests, LandMoves(r) \/ DropMoves(r)
        PROVE  req'[u].pc \in HasSigned \cup {"failed"}
    BY <1>1, <1>3 DEF LandMoves, DropMoves, HasSigned
  <1>4. CASE UNCHANGED web
    BY <1>1, <1>4 DEF web
  <1> QED
    BY <1>2, <1>3, <1>4, StepOfRequests

(* A new signature comes from a request that had none, and for terms the   *)
(* policy has allowed.                                                     *)
LEMMA SignedInvNext ==
  ASSUME RequestsInv, NetworkInv, SignedInv, [ServerNext]_serverVars
  PROVE  SignedInv'
  <1>1. AskedToSign \subseteq AskedToSign' /\ IsFiniteSet(AskedToSign')
    <2>1. AskedToSign' \subseteq Requests
      BY DEF AskedToSign
    <2> QED
      BY <2>1, AskedGrows, BackendAssumption, FS_Subset
  <1>2. /\ IsFiniteSet(AskedToSign) /\ Cardinality(AskedToSign) \in Nat
        /\ Cardinality(AskedToSign') \in Nat /\ Cardinality(signed) \in Nat
    BY <1>1, FS_Subset, FS_CardinalityType DEF SignedInv
  <1>3. CASE signed' = signed
    <2>1. Cardinality(AskedToSign) <= Cardinality(AskedToSign')
      BY <1>1, FS_Subset
    <2>2. Cardinality(signed) <= Cardinality(AskedToSign')
      BY <1>2, <2>1 DEF SignedInv
    <2>3. Cardinality(signed)' <= Cardinality(AskedToSign)'
      BY <1>3, <2>2
    <2> QED
      BY <1>3, <2>3 DEF SignedInv
  <1>4. ASSUME NEW r \in Requests, SignRequest(r), req[r].epoch < NumEpochs
        PROVE  SignedInv'
    <2> DEFINE i == IntentOf(req[r])
    <2>1. /\ signed' = signed \cup {i} /\ req[r].pc = "slotted"
          /\ req[r] \in RequestState /\ req \in [Requests -> RequestState]
          /\ Holds(req[r], SlotsRead(Self), signed)
      BY <1>4 DEF SignRequest, RequestsInv
    <2>2. req'[r].pc = "signed"
      <3>1. req' = [req EXCEPT ![r].pc = "signed", ![r].intent = i]
        BY <1>4 DEF SignRequest
      <3> HIDE DEF i
      <3> QED
        BY <2>1, <3>1 DEF RequestState
    <2>3. r \notin AskedToSign /\ AskedToSign \cup {r} \subseteq AskedToSign'
      BY <1>1, <2>1, <2>2 DEF AskedToSign, HasSigned
    <2>4. Cardinality(AskedToSign \cup {r}) = Cardinality(AskedToSign) + 1
      BY <1>2, <2>3, FS_AddElement
    <2>5. Cardinality(AskedToSign) + 1 <= Cardinality(AskedToSign')
      BY <1>1, <2>3, <2>4, FS_Subset
    <2>6. /\ IsFiniteSet(signed')
          /\ Cardinality(signed') <= Cardinality(signed) + 1
      <3>1. IsFiniteSet(signed)
        BY DEF SignedInv
      <3>2. CASE i \in signed
        <4>1. signed' = signed
          BY <2>1, <3>2
        <4> QED
          BY <1>2, <3>1, <4>1
      <3>3. CASE i \notin signed
        <4> HIDE DEF i
        <4>1. /\ IsFiniteSet(signed \cup {i})
              /\ Cardinality(signed \cup {i}) = Cardinality(signed) + 1
          BY <3>1, <3>3, FS_AddElement
        <4> QED
          BY <1>2, <2>1, <4>1
      <3> QED
        BY <3>2, <3>3
    <2>7. Cardinality(signed') <= Cardinality(AskedToSign')
      <3>1. IsFiniteSet(signed') /\ Cardinality(signed') \in Nat
        BY <2>6, FS_CardinalityType
      <3> QED
        BY <1>2, <2>5, <2>6, <3>1 DEF SignedInv
    <2>8. i.kind = "open" => WithinPolicy(i.terms)
      <3>1. i.kind = "open" => /\ req[r].kind = "open"
                               /\ i.terms = TermsOf(req[r].plan, req[r].price)
        BY DEF IntentOf
      <3>2. req[r].kind = "open" =>
              WithinPolicy(TermsOf(req[r].plan, req[r].price))
        BY <2>1 DEF Holds, Cleared
      <3> QED
        BY <3>1, <3>2
    <2>9. \A j \in signed' : j.kind = "open" => WithinPolicy(j.terms)
      <3> HIDE DEF i
      <3> QED
        BY <2>1, <2>8 DEF SignedInv
    <2>10. Cardinality(signed)' <= Cardinality(AskedToSign)'
      BY <2>7
    <2> QED
      BY <2>6, <2>9, <2>10 DEF SignedInv
  <1> QED
    BY <1>3, <1>4, StepSigns

(* The program recomputes the digest from the terms it is sent, so that of *)
(* what was signed only what was also sent as checked executes.            *)
LEMMA StopsInvNext ==
  ASSUME RequestsInv, NetworkInv, StopsInv, [ServerNext]_serverVars
  PROVE  StopsInv'
  <1>1. spent' = spent => StopsInv'
    BY DEF StopsInv
  <1>2. ASSUME NEW r \in pending, LandsOpen(r)
        PROVE  StopsInv'
    <2> DEFINE q == req[r]
               x == TermsOf(q.plan, q.price)
    <2>1. /\ q \in RequestState /\ q.intent = IntentOf(q) /\ r \in Requests
          /\ q.kind = "open" /\ q.pc \notin {"quoted", "funded"}
      BY <1>2, SentIntent DEF LandsOpen
    <2>2. Holds(q, SlotsRead(Self), signed)
      BY <2>1 DEF RequestsInv
    <2>3. /\ Cleared(q.plan, q.price) /\ q.plan \in Plans
          /\ q.price \in FeedPrices
      BY <2>1, <2>2 DEF Holds, RequestState
    <2>4. /\ q.intent.terms = x
          /\ spent' = spent \cup {[trader |-> Self, intent |-> q.intent]}
      <3>1. IntentOf(q).terms = x
        <4> HIDE DEF x
        <4>1. TermsOf(q.plan, q.price) = x
          BY DEF x
        <4> QED
          BY <2>1, <4>1 DEF IntentOf
      <3>2. OpenPosition(Self, q.intent)
        BY <1>2 DEF LandsOpen
      <3> HIDE DEF q, x
      <3>3. spent' = spent \cup {[trader |-> Self, intent |-> q.intent]}
        BY <3>2 DEF OpenPosition
      <3> QED
        BY <2>1, <3>1, <3>3
    <2>5. x.sl_price = SlPrice(q.plan, q.price)
      BY <1>2, <2>3, <2>4, SentAsSigned DEF LandsOpen
    <2>6. x.leverage = q.plan.leverage
      BY TermsFields
    <2>7. StoppedIfRequired(x)
      BY <2>3, <2>5, <2>6 DEF Cleared, StoppedIfRequired
    <2> HIDE DEF q, x
    <2> QED
      BY <2>4, <2>7 DEF StopsInv
  <1>3. ASSUME NEW r \in pending, NEW p \in MyPositions, LandsClose(r, p)
        PROVE  StopsInv'
    <2>1. /\ req[r].intent.kind = "close"
          /\ spent' = spent \cup
                         {[trader |-> p.trader, intent |-> req[r].intent]}
      BY <1>3 DEF LandsClose, ClosePosition
    <2> QED
      BY <2>1 DEF StopsInv
  <1>4. ASSUME NEW r \in Requests, Signs(r)
        PROVE  StopsInv'
    BY <1>1, <1>4 DEF Signs, chain
  <1>5. ASSUME NEW k \in TickSlots,
               UpdateOracle(tick[k].price, tick[k].time)
        PROVE  StopsInv'
    BY <1>1, <1>5 DEF UpdateOracle
  <1>6. ASSUME NEW p \in positions, Trigger(p) \/ Liquidate(p)
        PROVE  StopsInv'
    BY <1>1, <1>6 DEF Trigger, Liquidate
  <1>7. CASE Tick
    BY <1>1, <1>7 DEF Tick, chain
  <1>8. CASE UNCHANGED vars
    BY <1>1, <1>8 DEF vars
  <1> QED
    BY <1>2, <1>3, <1>4, <1>5, <1>6, <1>7, <1>8, StepMoves DEF EngineMove
-----------------------------------------------------------------------------
(* The chain as the backend sees it.                                       *)

LEMMA AdvanceKeeps ==
  ASSUME NEW tr \in TraderState
  PROVE  /\ AdvanceSigning(tr).live = tr.live
         /\ AdvanceSigning(tr).position_count = tr.position_count
  BY DEF AdvanceSigning, TraderState

LEMMA LandTrader ==
  ASSUME EngineInv, ChainInv, NEW r
  PROVE  /\ LandsOpen(r) =>
              /\ trader'[Self].live
              /\ trader'[Self].position_count = trader[Self].position_count + 1
         /\ \A p \in MyPositions : LandsClose(r, p) =>
              /\ trader'[Self].live
              /\ trader'[Self].position_count = trader[Self].position_count
  <1>1. /\ trader \in [Traders -> TraderState] /\ Self \in Traders
        /\ trader[Self] \in TraderState /\ trader[Self].live
    BY BackendAssumption DEF EngineInv, TypeInv, TypeOK, ChainInv
  <1>2. ASSUME LandsOpen(r)
        PROVE  /\ trader'[Self].live
               /\ trader'[Self].position_count = trader[Self].position_count + 1
    <2> DEFINE tr == [trader[Self] EXCEPT !.position_count = @ + 1]
    <2>1. trader' = [trader EXCEPT ![Self] = AdvanceSigning(tr)]
      BY <1>2 DEF LandsOpen, OpenPosition
    <2>2. trader[Self].position_count + 1 \in Nat
      BY <1>1 DEF TraderState
    <2>3. /\ tr \in TraderState /\ tr.live
          /\ tr.position_count = trader[Self].position_count + 1
      BY <1>1, <2>2 DEF TraderState
    <2> HIDE DEF tr
    <2> QED
      BY <1>1, <2>1, <2>3, AdvanceKeeps
  <1>3. ASSUME NEW p \in MyPositions, LandsClose(r, p)
        PROVE  /\ trader'[Self].live
               /\ trader'[Self].position_count = trader[Self].position_count
    <2>1. trader' = [trader EXCEPT ![Self] = AdvanceSigning(@)]
      BY <1>3 DEF LandsClose, ClosePosition, MyPositions
    <2> QED
      BY <1>1, <2>1, AdvanceKeeps
  <1> QED
    BY <1>2, <1>3

LEMMA FeedKept ==
  ASSUME ChainInv, [ServerNext]_serverVars
  PROVE  feed' \in FeedPrices
  <1>1. ASSUME NEW r \in Requests, Handle(r) \/ Network(r)
        PROVE  feed' = feed
    BY <1>1
    DEF Handle, StartOpen, ReadBalance, CountAndCheck, StartClose, ReadSlot,
        SignRequest, RequestFails, ReadBefore, Send, GiveUp, Finish, Network,
        Land, Drop
  <1>2. ASSUME NEW k \in TickSlots, KeeperStep(k) \/ KeeperError(k)
        PROVE  feed' = feed
    BY <1>2
    DEF KeeperStep, FetchPrice, PostPrice, ListPositions, SweepTrigger,
        SweepNoTrigger, SweepLiquidate, SweepNoLiquidation, KeeperError
  <1> QED
    BY <1>1, <1>2 DEF ServerNext, FeedMoves, serverVars, ChainInv

LEMMA ChainInvNext ==
  ASSUME EngineInv, ChainInv, KeeperInv, [ServerNext]_serverVars
  PROVE  ChainInv'
  <1>1. /\ now \in Nat /\ TickSeconds \in Nat /\ MaxTime \in Nat
    BY ChainAssumption DEF EngineInv, TypeInv, TypeOK
  <1> DEFINE Clock == now' <= MaxTime /\ \E n \in Nat : now' = n * TickSeconds
  <1>2. now' = now => Clock
    BY DEF ChainInv
  <1>3. /\ Clock /\ oracle'.price \in FeedPrices /\ trader'[Self].live
    <2>1. CASE UNCHANGED vars
      BY <1>2, <2>1 DEF vars, ChainInv
    <2>2. CASE \E r \in Requests : Signs(r)
      BY <1>2, <2>2 DEF Signs, chain, ChainInv
    <2>3. ASSUME NEW r \in pending, LandsOpen(r)
          PROVE  /\ Clock /\ oracle'.price \in FeedPrices /\ trader'[Self].live
      <3>1. now' = now /\ oracle' = oracle
        BY <2>3 DEF LandsOpen, OpenPosition
      <3> QED
        BY <1>2, <2>3, <3>1, LandTrader DEF ChainInv
    <2>4. ASSUME NEW r \in pending, NEW p \in MyPositions, LandsClose(r, p)
          PROVE  /\ Clock /\ oracle'.price \in FeedPrices /\ trader'[Self].live
      <3>1. now' = now /\ oracle' = oracle
        BY <2>4 DEF LandsClose, ClosePosition
      <3> QED
        BY <1>2, <2>4, <3>1, LandTrader DEF ChainInv
    <2>5. ASSUME NEW k \in TickSlots, tick[k].pc = "post",
                 UpdateOracle(tick[k].price, tick[k].time)
          PROVE  /\ Clock /\ oracle'.price \in FeedPrices /\ trader'[Self].live
      <3>1. tick[k].price \in FeedPrices
        BY <2>5 DEF KeeperInv
      <3> QED
        BY <1>2, <2>5, <3>1 DEF UpdateOracle, ChainInv
    <2>6. ASSUME NEW p \in positions, Trigger(p) \/ Liquidate(p)
          PROVE  /\ Clock /\ oracle'.price \in FeedPrices /\ trader'[Self].live
      BY <1>2, <2>6 DEF Trigger, Liquidate, ChainInv
    <2>7. CASE Tick
      <3>1. now' = now + TickSeconds /\ now' <= MaxTime /\ UNCHANGED chain
        BY <2>7 DEF Tick
      <3>2. PICK n \in Nat : now = n * TickSeconds
        BY DEF ChainInv
      <3>3. n + 1 \in Nat /\ now' = (n + 1) * TickSeconds
        BY <1>1, <3>1, <3>2
      <3> QED
        BY <3>1, <3>3 DEF chain, ChainInv
    <2> QED
      BY <2>1, <2>2, <2>3, <2>4, <2>5, <2>6, <2>7, StepMoves DEF EngineMove
  <1> QED
    BY <1>3, FeedKept DEF ChainInv
-----------------------------------------------------------------------------
(* The keeper's ticks and the counters.                                    *)

LEMMA TickMoves ==
  ASSUME KeeperInv, NEW k \in TickSlots, NEW e \in TickState,
         tick' = [tick EXCEPT ![k] = e],
         e.pc = "post" => e.price \in FeedPrices /\ e.time \in 0 .. MaxTime
  PROVE  KeeperInv'
  BY DEF KeeperInv

LEMMA IdleTyped == IdleTick \in TickState /\ IdleTick.pc = "idle"
  BY DEF IdleTick, TickState

LEMMA MovedTick ==
  ASSUME KeeperInv, NEW k \in TickSlots, NEW pc,
         tick' = [tick EXCEPT ![k].pc = pc], pc \in {"list", "liquidate"}
  PROVE  KeeperInv'
  <1> DEFINE e == [tick[k] EXCEPT !.pc = pc]
  <1>1. tick[k] \in TickState
    BY DEF KeeperInv
  <1>2. e \in TickState /\ e.pc = pc
    BY <1>1 DEF TickState
  <1>3. tick' = [tick EXCEPT ![k] = e]
    BY DEF KeeperInv
  <1> HIDE DEF e
  <1> QED
    BY <1>2, <1>3, TickMoves

LEMMA AdvancedTick ==
  ASSUME KeeperInv, NEW k \in TickSlots, Advance(k)
  PROVE  KeeperInv'
  <1> DEFINE rest == tick[k].todo \ {FirstOf(tick[k].todo)}
             e == [tick[k] EXCEPT !.todo = rest, !.pc = "trigger"]
  <1>1. tick[k] \in TickState
    BY DEF KeeperInv
  <1>2. rest \subseteq PositionState
    BY <1>1 DEF TickState
  <1>3. tick' = [tick EXCEPT ![k] = IF rest = {} THEN IdleTick ELSE e]
    BY DEF Advance
  <1> HIDE DEF rest
  <1>4. e \in TickState /\ e.pc = "trigger"
    BY <1>1, <1>2 DEF TickState
  <1> HIDE DEF e
  <1> QED
    BY <1>3, <1>4, IdleTyped, TickMoves

LEMMA KeeperInvNext ==
  ASSUME EngineInv, ChainInv, KeeperInv, [ServerNext]_serverVars
  PROVE  KeeperInv'
  <1>1. ASSUME NEW r \in Requests, Handle(r) \/ Network(r)
        PROVE  UNCHANGED keeper
    BY <1>1
    DEF Handle, StartOpen, ReadBalance, CountAndCheck, StartClose, ReadSlot,
        SignRequest, RequestFails, ReadBefore, Send, GiveUp, Finish, Network,
        Land, Drop
  <1>2. UNCHANGED keeper => KeeperInv'
    BY DEF keeper, KeeperInv
  <1>3. ASSUME NEW k \in TickSlots, FetchPrice(k)
        PROVE  KeeperInv'
    <2> DEFINE e == [tick[k] EXCEPT !.pc = "post", !.price = feed, !.time = now]
    <2>1. tick[k] \in TickState /\ tick' = [tick EXCEPT ![k] = e]
      BY <1>3 DEF FetchPrice, KeeperInv
    <2>2. feed \in Nat /\ feed \in FeedPrices
      BY BackendAssumption, ChainAssumption DEF ChainInv
    <2>3. now \in Nat /\ now \in 0 .. MaxTime
      BY ChainAssumption DEF EngineInv, TypeInv, TypeOK, ChainInv
    <2>4. e \in TickState /\ e.price = feed /\ e.time = now
      BY <2>1, <2>2, <2>3 DEF TickState
    <2> HIDE DEF e
    <2> QED
      BY <2>1, <2>2, <2>3, <2>4, TickMoves
  <1>4. ASSUME NEW k \in TickSlots, ListPositions(k)
        PROVE  KeeperInv'
    <2> DEFINE e == [tick[k] EXCEPT !.at = now, !.todo = MyPositions,
                                    !.pc = "trigger"]
    <2>1. /\ tick[k] \in TickState
          /\ tick' = [tick EXCEPT ![k] =
                        IF MyPositions = {} THEN IdleTick ELSE e]
      BY <1>4 DEF ListPositions, SweepFrom, KeeperInv
    <2>2. now \in Nat /\ MyPositions \subseteq PositionState
      BY DEF EngineInv, TypeInv, TypeOK, MyPositions
    <2>3. e \in TickState /\ e.pc = "trigger"
      BY <2>1, <2>2 DEF TickState
    <2> HIDE DEF e
    <2> QED
      BY <2>1, <2>3, IdleTyped, TickMoves
  <1>5. ASSUME NEW k \in TickSlots, PostPrice(k) \/ SweepNoTrigger(k)
        PROVE  KeeperInv'
    BY <1>5, MovedTick DEF PostPrice, SweepNoTrigger
  <1>6. ASSUME NEW k \in TickSlots,
               SweepTrigger(k) \/ SweepLiquidate(k) \/ SweepNoLiquidation(k)
        PROVE  KeeperInv'
    BY <1>6, MovedTick, AdvancedTick
    DEF SweepTrigger, SweepLiquidate, SweepNoLiquidation
  <1>7. ASSUME NEW k \in TickSlots, KeeperError(k)
        PROVE  KeeperInv'
    BY <1>7, MovedTick, AdvancedTick, TickMoves, IdleTyped DEF KeeperError
  <1>8. CASE \/ FeedMoves
             \/ Tick /\ UNCHANGED <<feed, moves, web, keeper>>
             \/ UNCHANGED serverVars
    BY <1>2, <1>8 DEF FeedMoves, serverVars
  <1> QED
    BY <1>1, <1>2, <1>3, <1>4, <1>5, <1>6, <1>7, <1>8
    DEF ServerNext, KeeperStep

LEMMA CountersInvNext ==
  ASSUME CountersInv, [ServerNext]_serverVars
  PROVE  CountersInv'
  <1>1. ASSUME NEW r \in Requests, Handle(r) \/ Network(r)
        PROVE  UNCHANGED <<moves, errors>>
    BY <1>1
    DEF Handle, StartOpen, ReadBalance, CountAndCheck, StartClose, ReadSlot,
        SignRequest, RequestFails, ReadBefore, Send, GiveUp, Finish, Network,
        Land, Drop, keeper
  <1>2. ASSUME NEW k \in TickSlots, KeeperStep(k)
        PROVE  UNCHANGED <<moves, errors>>
    BY <1>2
    DEF KeeperStep, FetchPrice, PostPrice, ListPositions, SweepTrigger,
        SweepNoTrigger, SweepLiquidate, SweepNoLiquidation
  <1>3. ASSUME NEW k \in TickSlots, KeeperError(k)
        PROVE  CountersInv'
    BY <1>3 DEF KeeperError, CountersInv
  <1>4. CASE \/ FeedMoves
             \/ Tick /\ UNCHANGED <<feed, moves, web, keeper>>
             \/ UNCHANGED serverVars
    BY <1>4 DEF FeedMoves, keeper, serverVars, CountersInv
  <1>5. UNCHANGED <<moves, errors>> => CountersInv'
    BY DEF CountersInv
  <1> QED
    BY <1>1, <1>2, <1>3, <1>4, <1>5 DEF ServerNext
-----------------------------------------------------------------------------
(* What a request's transaction opened.                                    *)

(* Only a transaction that lands opens a position or moves the counter.    *)
LEMMA StepOfPositions ==
  ASSUME [ServerNext]_serverVars
  PROVE  \/ positions' \subseteq positions /\ trader' = trader
         \/ \E r \in Requests : Land(r)
  <1>1. ASSUME NEW r \in Requests, Handle(r) \/ Drop(r)
        PROVE  positions' = positions /\ trader' = trader
    BY <1>1
    DEF Handle, StartOpen, ReadBalance, CountAndCheck, StartClose, ReadSlot,
        SignRequest, RequestFails, ReadBefore, Send, GiveUp, Finish, Drop,
        vars, chain
  <1>2. ASSUME NEW k \in TickSlots, KeeperStep(k) \/ KeeperError(k)
        PROVE  positions' \subseteq positions /\ trader' = trader
    BY <1>2
    DEF KeeperStep, FetchPrice, PostPrice, ListPositions, SweepTrigger,
        SweepNoTrigger, SweepLiquidate, SweepNoLiquidation, KeeperError,
        UpdateOracle, Trigger, Liquidate, SettleAndClose, vars
  <1>3. CASE \/ FeedMoves
             \/ Tick /\ UNCHANGED <<feed, moves, web, keeper>>
             \/ UNCHANGED serverVars
    BY <1>3 DEF FeedMoves, Tick, chain, serverVars, vars
  <1> QED
    BY <1>1, <1>2, <1>3 DEF ServerNext, Network

(* The position an open creates is the one its request was quoted.         *)
LEMMA OpenedAsQuoted ==
  ASSUME EngineInv, RequestsInv, NetworkInv, NEW r \in pending, LandsOpen(r)
  PROVE  \E p \in PositionState :
           /\ positions' = positions \cup {p}
           /\ p.seq = trader[Self].position_count
           /\ FilledFor(p, req[r])
  <1> DEFINE q == req[r]
             x == TermsOf(q.plan, q.price)
             p == NewPosition(Self, x)
  <1>1. /\ q \in RequestState /\ q.intent = IntentOf(q) /\ q.intent \in signed
        /\ q.kind = "open" /\ r \in Requests
    BY SentIntent DEF LandsOpen
  <1>2. q.intent.terms = x /\ OpenPosition(Self, q.intent) /\ Self \in Traders
    BY <1>1, BackendAssumption DEF LandsOpen, IntentOf
  <1>3. /\ positions' = positions \cup {p} /\ p \in PositionState
        /\ WithinSlippage(x.side, oracle.price, x.max_entry_price)
    BY <1>1, <1>2, OpenTypes DEF OpenPosition, EngineInv
  <1>4. q.plan \in Plans /\ q.price \in FeedPrices
    BY <1>1 DEF RequestsInv, Holds, RequestState
  <1>5. q.price \in Nat /\ oracle.price \in Nat
    BY <1>4, PlanTyped DEF EngineInv, TypeInv, TypeOK, OracleState
  <1>6. /\ x.side = q.plan.side
        /\ x.collateral = q.plan.collateral /\ x.leverage = q.plan.leverage
        /\ x.max_entry_price = MaxEntry(q.plan.side, q.price)
    BY TermsFields
  <1> HIDE DEF q, x
  <1>7. /\ p.side = x.side /\ p.collateral = x.collateral
        /\ p.notional = x.collateral * x.leverage
        /\ p.entry_price = oracle.price /\ p.seq = trader[Self].position_count
    BY DEF NewPosition, Notional
  <1> HIDE DEF p
  <1>8. IF q.plan.side = SIDE_LONG
        THEN 100 * p.entry_price <= 101 * q.price
        ELSE 100 * p.entry_price >= 99 * q.price - 99
    <2>1. CASE q.plan.side = SIDE_LONG
      <3>1. oracle.price <= (q.price * 101) \div 100
        BY <1>3, <1>6, <2>1 DEF WithinSlippage, MaxEntry
      <3>2. 100 * oracle.price <= 101 * q.price
        BY <1>5, <3>1
      <3> QED
        BY <1>7, <2>1, <3>2
    <2>2. CASE q.plan.side # SIDE_LONG
      <3>1. oracle.price >= (q.price * 99) \div 100
        BY <1>3, <1>6, <2>2 DEF WithinSlippage, MaxEntry
      <3>2. 100 * oracle.price >= 99 * q.price - 99
        BY <1>5, <3>1
      <3> QED
        BY <1>7, <2>2, <3>2
    <2> QED
      BY <2>1, <2>2
  <1>9. FilledFor(p, q)
    BY <1>6, <1>7, <1>8 DEF FilledFor
  <1> QED
    BY <1>3, <1>7, <1>9 DEF q

LEMMA FilledInvNext ==
  ASSUME EngineInv, ChainInv, RequestsInv, NetworkInv, FilledInv,
         [ServerNext]_serverVars
  PROVE  FilledInv'
  <1>1. SUFFICES ASSUME NEW u \in landed', req'[u].kind = "open"
                 PROVE  /\ req'[u].seq < trader'[Self].position_count
                        /\ \A p \in MyPositions' :
                             p.seq = req'[u].seq => FilledFor(p, req'[u])
    BY DEF FilledInv
  <1> DEFINE Kept ==
        /\ u \in landed /\ req[u].kind = "open"
        /\ req'[u].seq = req[u].seq /\ req'[u].plan = req[u].plan
        /\ req'[u].price = req[u].price
  <1>2. trader[Self].position_count \in Nat
    BY BackendAssumption DEF EngineInv, TypeInv, TypeOK, TraderState
  <1>3. ASSUME Kept, positions' \subseteq positions, trader' = trader
        PROVE  /\ req'[u].seq < trader'[Self].position_count
               /\ \A p \in MyPositions' :
                    p.seq = req'[u].seq => FilledFor(p, req'[u])
    <2>1. MyPositions' \subseteq MyPositions
      BY <1>3 DEF MyPositions
    <2> QED
      BY <1>3, <2>1 DEF FilledInv, FilledFor
  <1>4. ASSUME NEW r \in Requests, Land(r), LandMoves(r)
        PROVE  /\ req'[u].seq < trader'[Self].position_count
               /\ \A p \in MyPositions' :
                    p.seq = req'[u].seq => FilledFor(p, req'[u])
    <2>1. /\ r \in pending /\ r \notin landed /\ u \in Requests
          /\ landed' = landed \cup {r}
          /\ u # r => Kept
          /\ req'[r].seq = req[r].seq /\ req'[r].plan = req[r].plan
          /\ req'[r].price = req[r].price /\ req'[r].kind = req[r].kind
      BY <1>1, <1>4 DEF LandMoves, NetworkInv
    <2> HIDE DEF Kept
    <2>2. \A p \in MyPositions : p.seq \in Nat /\ p.seq < trader[Self].position_count
      BY DEF MyPositions, EngineInv, TypeInv, TypeOK, PositionState,
             PositionInv, PositionAddresses
    <2>3. u # r => /\ req[u].seq \in Nat
                   /\ req[u].seq < trader[Self].position_count
      BY <2>1 DEF Kept, FilledInv, RequestsInv, RequestState
    <2>4. CASE LandsOpen(r)
      <3>1. PICK n \in PositionState :
              /\ positions' = positions \cup {n}
              /\ n.seq = trader[Self].position_count
              /\ FilledFor(n, req[r])
        BY <2>1, <2>4, OpenedAsQuoted
      <3>2. MyPositions' \subseteq MyPositions \cup {n}
        BY <3>1 DEF MyPositions
      <3>3. trader'[Self].position_count = trader[Self].position_count + 1
        BY <2>4, LandTrader
      <3>4. req[r].seq = trader[Self].position_count
        BY <2>4 DEF LandsOpen
      <3>5. CASE u = r
        <4>1. req'[u].seq < trader'[Self].position_count
          BY <1>2, <2>1, <3>3, <3>4, <3>5
        <4>2. ASSUME NEW p \in MyPositions', p.seq = req'[u].seq
              PROVE  FilledFor(p, req'[u])
          <5>1. p = n
            BY <1>2, <2>1, <2>2, <3>2, <3>4, <3>5, <4>2
          <5> QED
            BY <2>1, <3>1, <3>5, <5>1 DEF FilledFor
        <4> QED
          BY <4>1, <4>2
      <3>6. CASE u # r
        <4>1. req'[u].seq < trader'[Self].position_count
          BY <1>2, <2>1, <2>3, <3>3, <3>6 DEF Kept
        <4>2. ASSUME NEW p \in MyPositions', p.seq = req'[u].seq
              PROVE  FilledFor(p, req'[u])
          <5>1. p # n
            BY <1>2, <2>1, <2>3, <3>1, <3>6, <4>2 DEF Kept
          <5>2. p \in MyPositions
            BY <3>2, <5>1
          <5> QED
            BY <2>1, <3>6, <4>2, <5>2 DEF Kept, FilledInv, FilledFor
        <4> QED
          BY <4>1, <4>2
      <3> QED
        BY <3>5, <3>6
    <2>5. ASSUME NEW p \in MyPositions, LandsClose(r, p)
          PROVE  /\ req'[u].seq < trader'[Self].position_count
                 /\ \A z \in MyPositions' :
                      z.seq = req'[u].seq => FilledFor(z, req'[u])
      <3>1. u # r
        BY <1>1, <2>1, <2>5 DEF LandsClose
      <3>2. trader'[Self].position_count = trader[Self].position_count
        BY <2>5, LandTrader
      <3>3. MyPositions' \subseteq MyPositions
        BY <2>5 DEF LandsClose, ClosePosition, SettleAndClose, MyPositions
      <3> QED
        BY <2>1, <3>1, <3>2, <3>3 DEF Kept, FilledInv, FilledFor
    <2>6. LandsOpen(r) \/ \E p \in MyPositions : LandsClose(r, p)
      BY <1>4 DEF Land, LandsOpen, LandsClose
    <2> QED
      BY <2>4, <2>5, <2>6
  <1>5. ASSUME NEW r \in Requests, HandlerMoves(r)
        PROVE  Kept
    <2>1. u \in landed
      BY <1>5 DEF HandlerMoves
    <2>2. CASE u = r
      <3>1. req[r].pc \in {"unknown", "confirmed", "done", "failed"}
        BY <1>5, <2>1, <2>2 DEF NetworkInv
      <3>2. req[r].pc = "confirmed"
        BY <1>5, <3>1 DEF HandlerMoves, PcMove
      <3> QED
        BY <1>1, <1>5, <2>1, <2>2, <3>2 DEF HandlerMoves
    <2>3. CASE u # r
      <3>1. req'[u] = req[u]
        BY <1>5, <2>1, <2>3 DEF HandlerMoves, NetworkInv
      <3> QED
        BY <1>1, <2>1, <3>1
    <2> QED
      BY <2>2, <2>3
  <1>6. ASSUME NEW r \in Requests, DropMoves(r)
        PROVE  Kept
    <2>1. u \in landed /\ u # r
      BY <1>6 DEF DropMoves, NetworkInv
    <2>2. req'[u] = req[u]
      BY <1>6, <2>1 DEF DropMoves, NetworkInv
    <2> QED
      BY <1>1, <2>1, <2>2
  <1>7. UNCHANGED web => Kept
    BY <1>1 DEF web
  <1> HIDE DEF Kept
  <1>8. CASE \E r \in Requests : Land(r)
    BY <1>4, <1>8, NetworkMoves
  <1>9. CASE ~\E r \in Requests : Land(r)
    BY <1>3, <1>5, <1>6, <1>7, <1>9, StepOfRequests, StepOfPositions
  <1> QED
    BY <1>8, <1>9
-----------------------------------------------------------------------------
(* The state the bootstrap leaves.                                         *)

LEMMA EngineInvInit == ServerInit => EngineInv
  <1> SUFFICES ASSUME ServerInit PROVE EngineInv
    OBVIOUS
  <1>1. PICK q \in MarketParams :
          market = [m \in Markets |->
            [live |-> TRUE, maintenance_bps |-> q.maintenance_bps,
             max_leverage |-> q.max_leverage, open_fee_bps |-> q.open_fee_bps,
             borrow_fee_bps_per_hour |-> q.borrow_fee_bps_per_hour,
             total_long_notional |-> 0, total_short_notional |-> 0,
             open_positions |-> 0]]
    BY DEF ServerInit
  <1>2. q \in MarketParamSet
    BY ChainAssumption
  <1>3. market \in [Markets -> MarketState]
    BY <1>1, <1>2 DEF MarketState, MarketParamSet
  <1>4. /\ oracle \in OracleState /\ oracle.live
    BY BackendAssumption, ChainAssumption DEF ServerInit, OracleState
  <1>5. trader \in [Traders -> TraderState]
    BY SigningAssumption DEF ServerInit, TraderState
  <1>6. /\ usdt \in [Traders -> [Markets -> Nat]] /\ vault \in [Markets -> Nat]
    BY BackendAssumption DEF ServerInit
  <1>7. minted \in [Markets -> Nat]
    <2>1. Cardinality(Traders) \in Nat
      BY ChainAssumption, FS_CardinalityType
    <2>2. Cardinality(Traders) * TraderFunds + VaultFunds \in Nat
      BY <2>1, BackendAssumption
    <2> QED
      BY <2>2 DEF ServerInit
  <1>8. /\ now = 0 /\ positions = {} /\ signed = {} /\ spent = {}
        /\ IsFiniteSet({}) /\ Cardinality({}) = 0
    BY FS_EmptySet DEF ServerInit
  <1>9. TypeInv
    BY <1>3, <1>4, <1>5, <1>6, <1>7, <1>8
    DEF TypeInv, TypeOK, SettlementDefined, OracleUnset
  <1>10. SigningInv
    <2>1. ASSUME NEW t \in Traders PROVE LedgerOf(t)
      <3>1. {s \in spent : s.trader = t} = {}
        BY <1>8
      <3> QED
        BY <1>8, <3>1, SigningAssumption DEF ServerInit, LedgerOf, NoSigningYet
    <2> QED
      BY <1>8, <2>1 DEF SigningInv, OneIntentPerSlot
  <1>11. OpenInterest
    <2>1. NotionalOf({}) = 0
      BY SumEmpty DEF NotionalOf
    <2>2. \A m \in Markets, s \in Sides :
            PositionsOn(m, s) = {} /\ {p \in positions : p.market = m} = {}
      BY <1>8 DEF PositionsOn
    <2>3. \A m \in Markets : /\ market[m].total_long_notional = 0
                             /\ market[m].total_short_notional = 0
                             /\ market[m].open_positions = 0
      BY <1>1
    <2> QED
      BY <1>8, <2>1, <2>2, <2>3, U64MaxAssumption
      DEF OpenInterest, FitsU64, Sides, SIDE_LONG, SIDE_SHORT
  <1>12. PositionInv
    BY <1>8, <1>11 DEF PositionInv, PositionAddresses
  <1> QED
    BY <1>9, <1>10, <1>12 DEF EngineInv

LEMMA ServerInvInit == ServerInit => ServerInv
  <1> SUFFICES ASSUME ServerInit PROVE ServerInv
    OBVIOUS
  <1>1. ChainInv
    <2>1. /\ trader[Self].live /\ oracle.price = feed /\ feed \in FeedPrices
          /\ now = 0
      BY BackendAssumption DEF ServerInit
    <2>2. 0 <= MaxTime /\ 0 = 0 * TickSeconds
      BY ChainAssumption
    <2> QED
      BY <2>1, <2>2 DEF ChainInv
  <1>2. RequestsInv
    <2>1. req = [r \in Requests |-> Blank]
      BY DEF ServerInit
    <2> QED
      BY <2>1, BlankTyped DEF RequestsInv
  <1>3. \A r \in Requests : req[r].pc = "idle" /\ req[r].kind = "none"
    BY DEF ServerInit, Blank
  <1>4. pending = {} /\ landed = {} /\ signed = {} /\ moves = 0 /\ errors = 0
    BY DEF ServerInit
  <1>5. NetworkInv
    BY <1>3, <1>4 DEF NetworkInv
  <1>6. SignedInv
    <2>1. AskedToSign = {}
      BY <1>3 DEF AskedToSign, HasSigned
    <2>2. IsFiniteSet({}) /\ Cardinality({}) = 0
      BY FS_EmptySet
    <2> QED
      BY <1>4, <2>1, <2>2 DEF SignedInv
  <1>7. KeeperInv
    <2>1. tick = [k \in TickSlots |-> IdleTick]
      BY DEF ServerInit
    <2> QED
      BY <2>1, IdleTyped DEF KeeperInv
  <1>8. CountersInv /\ FilledInv /\ StopsInv
    <2>1. spent = {}
      BY DEF ServerInit
    <2> QED
      BY <1>4, <2>1 DEF CountersInv, FilledInv, StopsInv
  <1> QED
    BY <1>1, <1>2, <1>5, <1>6, <1>7, <1>8, EngineInvInit DEF ServerInv

LEMMA ServerStepOfEngine ==
  ServerInv /\ [ServerNext]_serverVars => UNCHANGED vars \/ Next
  BY StepMoves, MoveOfEngine DEF ServerInv

LEMMA ServerInvNext == ServerInv /\ [ServerNext]_serverVars => ServerInv'
  <1> SUFFICES ASSUME ServerInv, [ServerNext]_serverVars PROVE ServerInv'
    OBVIOUS
  <1>1. EngineInv'
    BY ServerStepOfEngine, EngineInvKept DEF ServerInv
  <1>2. ChainInv'
    BY ChainInvNext DEF ServerInv
  <1>3. RequestsInv'
    BY RequestsInvNext DEF ServerInv
  <1>4. NetworkInv' /\ SignedInv' /\ StopsInv'
    BY NetworkInvNext, SignedInvNext, StopsInvNext DEF ServerInv
  <1>5. KeeperInv' /\ CountersInv'
    BY KeeperInvNext, CountersInvNext DEF ServerInv
  <1>6. FilledInv'
    BY FilledInvNext DEF ServerInv
  <1> QED
    BY <1>1, <1>2, <1>3, <1>4, <1>5, <1>6 DEF ServerInv

LEMMA ServerInvHolds == ServerSpec => []ServerInv
  BY ServerInvInit, ServerInvNext, PTL DEF ServerSpec
-----------------------------------------------------------------------------
(* Everything the backend holds is of its type, and no transaction is      *)
(* executed twice (perp-routes.ts, oracle.ts).                             *)
THEOREM ServerTypeCorrect == ServerSpec => []ServerTypeOK
  <1>1. ServerInv => ServerTypeOK
    <2> SUFFICES ASSUME ServerInv PROVE ServerTypeOK
      OBVIOUS
    <2>1. TypeOK
      BY DEF ServerInv, EngineInv, TypeInv
    <2>2. feed \in Nat
      BY BackendAssumption, ChainAssumption DEF ServerInv, ChainInv
    <2>3. /\ \A r \in Requests : req[r] \in RequestState
          /\ \A k \in TickSlots : tick[k] \in TickState
      BY DEF ServerInv, RequestsInv, KeeperInv
    <2> QED
      BY <2>1, <2>2, <2>3 DEF ServerInv, NetworkInv, CountersInv, ServerTypeOK
  <1> QED
    BY <1>1, ServerInvHolds, PTL

(* The chain and the signer take only the engine's steps, whatever plans,  *)
(* prices and delays the handlers, the network and the keeper meet: no     *)
(* handler ever asks for a signature at a slot the trader has not reached  *)
(* (perp-routes.ts, signer/daemon.cjs).                                    *)
THEOREM ServerTakesEngineSteps == ServerSpec => EngineSteps
  <1>1. ServerInv /\ [ServerNext]_serverVars => [UNCHANGED vars \/ Next]_vars
    BY ServerStepOfEngine
  <1> QED
    BY <1>1, ServerInvHolds, PTL DEF ServerSpec, EngineSteps

(* Every open the signer has put its name to was within the policy's       *)
(* limits at the quote it was decided on, and none that has executed lacks *)
(* the stop-loss its leverage requires, whatever levels were posted: where *)
(* the signer's conversion loses a checked level, the program is sent      *)
(* another than was signed (perp-policy.ts, wasm sign_open_perp).          *)
THEOREM SignedAsAllowed == ServerSpec => []SignedWithinPolicy
  <1>1. ServerInv => SignedWithinPolicy
    BY DEF ServerInv, SignedInv, StopsInv, SignedWithinPolicy, HasExecuted
  <1> QED
    BY <1>1, ServerInvHolds, PTL

(* A request whose open executed finds, under the sequence number it       *)
(* reports, a position of its plan's size at an entry at most a percent    *)
(* worse than the price it read, whatever the other requests did between   *)
(* its reads and its transaction (perpOpen).                               *)
THEOREM FilledAsItWasQuoted == ServerSpec => []FilledAsQuoted
  <1>1. ServerInv => FilledAsQuoted
    BY DEF ServerInv, FilledInv, FilledAsQuoted, FilledFor
  <1> QED
    BY <1>1, ServerInvHolds, PTL

(* Behind the backend the engine keeps what it promises: no slot of a key  *)
(* executes two intents, a market's totals are those of its positions, and *)
(* a position's address is never taken twice.                              *)
THEOREM ServerKeepsEngine ==
  ServerSpec =>
    [](SigningLedger /\ OneIntentPerSlot /\ OpenInterest /\ PositionAddresses)
  <1>1. ServerInv =>
          SigningLedger /\ OneIntentPerSlot /\ OpenInterest /\ PositionAddresses
    BY DEF ServerInv, EngineInv, SigningInv, LedgerOf, SigningLedger, PositionInv
  <1> QED
    BY <1>1, ServerInvHolds, PTL
(* At the start every trader has the same funds.                           *)
LEMMA FundsConserved == ServerInit => UsdtConserved
  <1> SUFFICES ASSUME ServerInit, NEW m \in Markets
               PROVE  SumOver([t \in Traders |-> usdt[t][m]], Traders)
                        + vault[m] = minted[m]
    BY DEF UsdtConserved
  <1> DEFINE f == [t \in Traders |-> usdt[t][m]]
  <1>1. /\ \A t \in Traders : f[t] = TraderFunds
        /\ vault[m] = VaultFunds
        /\ minted[m] = Cardinality(Traders) * TraderFunds + VaultFunds
    BY DEF ServerInit
  <1>2. /\ TraderFunds \in Nat /\ VaultFunds \in Nat
        /\ IsFiniteSet(Traders) /\ Cardinality(Traders) \in Nat
    BY BackendAssumption, ChainAssumption, FS_CardinalityType
  <1> HIDE DEF f
  <1>3. \A t \in Traders : f[t] \in 0 .. TraderFunds
    BY <1>1, <1>2
  <1>4. SumOver(f, Traders) = TraderFunds * Cardinality(Traders)
    BY <1>1, <1>2, <1>3, SumBound
  <1>5. TraderFunds * Cardinality(Traders) = Cardinality(Traders) * TraderFunds
    BY <1>2
  <1> QED
    BY <1>1, <1>4, <1>5 DEF f

LEMMA StartOfLedger == ServerInit => Ledger!Init /\ SlotsFilled
  <1> SUFFICES ASSUME ServerInit PROVE Ledger!Init /\ SlotsFilled
    OBVIOUS
  <1>1. signed = {} /\ \A t \in Traders : trader[t].nonce = 0
    BY DEF ServerInit
  <1>2. SlotsFilled
    BY <1>1 DEF SlotsFilled
  <1>3. \A t \in Traders : Executed(t) = << >>
    BY <1>1 DEF Executed
  <1> QED
    BY <1>1, <1>2, <1>3 DEF Ledger!Init, Executed

LEMMA ServerStepInEngine ==
  ServerInv /\ [ServerNext]_serverVars
    => [Next]_vars /\ TypeInv /\ SigningInv
  BY ServerStepOfEngine DEF ServerInv, EngineInv

(* Nor is a position ever opened or closed without its owner's authority   *)
(* or settled for less than its equity while the vault can pay, however    *)
(* the handlers and the keeper interleave; and no USDT is created or lost  *)
(* (open_position, settle_and_close).                                      *)
THEOREM ServerMovesWithAuthority ==
  ServerSpec =>
    []UsdtConserved /\ PositionsChangeWithAuthority /\ SettledInFull
  <1>1. ServerInv /\ ServerInv' /\ UsdtConserved /\ [ServerNext]_serverVars
          => UsdtConserved'
    BY ServerStepInEngine, ConservedNext DEF ServerInv, EngineInv
  <1>2. ServerInv /\ [ServerNext]_serverVars => [AuthorisedChange]_positions
    BY ServerStepInEngine, StepsAreAuthorised
  <1>3. ServerInv /\ [ServerNext]_serverVars => [PaidInFull]_positions
    BY ServerStepInEngine, StepsAreAuthorised
  <1> QED
    BY <1>1, <1>2, <1>3, FundsConserved, ServerInvHolds, PTL
    DEF ServerSpec, PositionsChangeWithAuthority, SettledInFull

(* The opens and closes of the handlers are the ledger of a many-time key, *)
(* although several of them may be signed for one slot and may land in any *)
(* order, late or never (perpOpen, perpClose).                             *)
THEOREM ServerImplementsLedger == ServerSpec => ImplementsLedger
  <1> DEFINE list == [t \in Traders |->
                       [n \in 1 .. trader[t].nonce |-> IntentAt(t, n - 1)]]
  <1>1. ServerInv /\ SlotsFilled /\ [ServerNext]_serverVars => SlotsFilled'
    BY ServerStepInEngine, FilledNext
  <1>2. ServerInv /\ ServerInv' /\ SlotsFilled /\ [ServerNext]_serverVars
          => [Ledger!Next]_<<signed, list>>
    <2> SUFFICES ASSUME ServerInv, ServerInv', SlotsFilled,
                        [ServerNext]_serverVars
                 PROVE  Ledger!Next
      OBVIOUS
    <2>1. [Next]_vars /\ TypeInv /\ SigningInv
      BY ServerStepInEngine
    <2>2. SigningInv'
      BY DEF ServerInv, EngineInv
    <2> QED
      BY <2>1, <2>2, StepRefines
  <1> QED
    BY <1>1, <1>2, StartOfLedger, ServerInvHolds, PTL
    DEF ServerSpec, ImplementsLedger, Ledger!Spec
=============================================================================
