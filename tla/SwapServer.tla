----------------------------- MODULE SwapServer -----------------------------
(***************************************************************************)
(* The swap backend (agent/server.ts, pipeline.ts, policy.ts, sdk.ts)      *)
(* above the agent wallet of PorstAgent.  A swap is planned from a quote,  *)
(* checked against the policy, signed at the slot just read from the chain *)
(* by the isolated signer, staged, sent and measured; every await is a     *)
(* step, so that requests interleave with each other and with the traders  *)
(* of the pool.  Two paths lead to a signature: /api/interpret offers an   *)
(* intent that /api/execute takes back (handleInterpret, handleExecute),   *)
(* and runSwap does both at once and keeps count of what it spent.         *)
(***************************************************************************)
EXTENDS PorstAgent

CONSTANTS
  Self,             \* the backend's agent
  Route,            \* the pool it trades in
  Liquidity,        \* what bootstrap puts into each vault of the pool
  AgentFunds,       \* what it gives the agent of each token
  Float,            \* what other traders hold of each token
  Requests,         \* concurrent requests, each with a buffer of its own
  Kinds,            \* ways in: "interpret" and "execute", or "run"
  Directions,       \* directions swaps are asked for, a_to_b or not
  MaxStarted,       \* bound: requests
  SlippageBps,      \* slippage the plan allows
  RequestTTL,       \* lifetime of an intent
  maxAmountInPerTx, \* the policy
  maxAmountInDaily,
  maxSlippageBps,
  maxExpirySeconds

ASSUME ServerAssumption ==
  /\ Self \in Agents /\ Route \in Pools
  /\ Requests \subseteq Buffers /\ IsFiniteSet(Requests) /\ Requests # {}
  /\ {AgentFunds, Float, SlippageBps, RequestTTL, MaxStarted,
      maxAmountInPerTx, maxAmountInDaily, maxSlippageBps,
      maxExpirySeconds} \subseteq Nat
  /\ Liquidity \in Nat \ {0}
  /\ Directions \subseteq BOOLEAN
  /\ SlippageBps <= BpsDenominator

VARIABLES
  req,       \* [Requests -> what the handler holds]
  offers,    \* intents the interface has been shown
  pending,   \* requests whose transaction is under way
  spend,     \* [Mints -> what the SpendTracker has counted]
  missed,    \* history: swaps that executed and that it will never count
  started    \* bound counter: requests

web == <<req, offers, pending, spend, missed, started>>
serverVars == <<vars, web>>

NoAction == [amount |-> 0, a_to_b |-> TRUE, min_out |-> 0, expiry |-> 0]
NoIntent == [root |-> "none"]

Blank ==
  [pc |-> "idle", kind |-> "none", action |-> NoAction, quote |-> 0, va |-> 0,
   epoch |-> 0, nonce |-> 0, intent |-> NoIntent, staged |-> 0,
   before |-> 0, received |-> 0, paid |-> 0]

(* bootstrap: tokens, a funded pool, an agent with both token accounts.    *)
ServerInit ==
  /\ pool = [p \in Pools |->
       IF p = Route
       THEN [live |-> TRUE, vault_a |-> Liquidity, vault_b |-> Liquidity]
       ELSE [live |-> FALSE, vault_a |-> 0, vault_b |-> 0]]
  /\ balance = [h \in Holders |-> [x \in Mints |->
       IF h = Self THEN AgentFunds ELSE IF h \in Agents THEN 0 ELSE Float]]
  /\ minted = [x \in Mints |->
       (IF x \in {Route[1], Route[2]} THEN Liquidity ELSE 0) + AgentFunds
         + Float * Cardinality(Holders \ Agents)]
  /\ agent = [a \in Agents |-> [Created(a) EXCEPT !.live = (a = Self)]]
  /\ now = 0
  /\ signed = {}
  /\ BufferInit
  /\ spent = [a \in Agents |-> << >>]
  /\ req = [r \in Requests |-> Blank]
  /\ offers = {}
  /\ pending = {}
  /\ spend = [x \in Mints |-> 0]
  /\ missed = 0
  /\ started = 0
-----------------------------------------------------------------------------
Goto(r, pc) == req' = [req EXCEPT ![r].pc = pc]

Abandon(r) == req' = [req EXCEPT ![r] = [Blank EXCEPT !.pc = "failed"]]

(* The policy at time t.  counts holds the tracker's count of the input    *)
(* token, and is empty where the caller has no tracker.                    *)
TimeAndSlippage(action, t) ==
  /\ SlippageBps <= maxSlippageBps
  /\ action.expiry > t /\ action.expiry - t <= maxExpirySeconds

(* Fault: what was spent before is not looked at.                          *)
CheckPerTxOnly(action, counts, t) ==
  /\ action.amount \in 1 .. maxAmountInPerTx
  /\ TimeAndSlippage(action, t)

CheckSwap(action, counts, t) ==
  /\ action.amount > 0
  /\ action.amount <= maxAmountInPerTx
  /\ \A spentSoFar \in counts : spentSoFar + action.amount <= maxAmountInDaily
  /\ TimeAndSlippage(action, t)

StartPlan(r, kind, a_to_b, amount) ==
  /\ req[r].pc = "idle"
  /\ started < MaxStarted
  /\ started' = started + 1
  /\ req' = [req EXCEPT ![r] = [Blank EXCEPT
       !.pc = "asked", !.kind = kind,
       !.action = [amount |-> amount, a_to_b |-> a_to_b, min_out |-> 0,
                   expiry |-> now + RequestTTL]]]
  /\ UNCHANGED <<vars, offers, pending, spend, missed>>

(* quote reads one vault, then the other.                                  *)
QuoteFirst(r) ==
  /\ req[r].pc = "asked"
  /\ req' = [req EXCEPT ![r].pc = "half", ![r].va = pool[Route].vault_a]
  /\ UNCHANGED <<vars, offers, pending, spend, missed, started>>

Quote(q) ==
  IF q.action.a_to_b
  THEN AmountOut(q.va, pool[Route].vault_b, q.action.amount)
  ELSE AmountOut(pool[Route].vault_b, q.va, q.action.amount)

MinOut(quote) == (quote * (BpsDenominator - SlippageBps)) \div BpsDenominator

(* The sets PorstAgent draws the fields of its intents from have whatever  *)
(* a plan may come to: no quote exceeds what there is of a token.          *)
Supply == Liquidity + AgentFunds + Float * Cardinality(Holders \ Agents)

ASSUME PlanAssumption ==
  /\ \A quote \in 0 .. Supply : MinOut(quote) \in MinOuts
  /\ \A t \in 0 .. MaxTime : t + RequestTTL \in Expiries

InputOf(action) == InOf(Route, action.a_to_b)

(* The plan is complete with the second read.  An interpreted plan is      *)
(* shown whatever the policy says of it; a run goes on if it is allowed at *)
(* the time it was asked for, which is what its expiry counts from.        *)
QuoteSecond(r) ==
  LET q == req[r]
      action == [q.action EXCEPT !.min_out = MinOut(Quote(q))]
      asked == action.expiry - RequestTTL
      planned == [q EXCEPT !.action = action, !.quote = Quote(q), !.va = 0]
  IN
  /\ q.pc = "half"
  /\ IF q.kind = "interpret"
     THEN /\ req' = [req EXCEPT ![r] = [planned EXCEPT !.pc = "done"]]
          /\ offers' = offers \cup {[action |-> action, quote |-> Quote(q)]}
     ELSE /\ IF CheckSwap(action, {spend[InputOf(action)]}, asked)
             THEN req' = [req EXCEPT ![r] = [planned EXCEPT !.pc = "allowed"]]
             ELSE Abandon(r)
          /\ UNCHANGED offers
  /\ UNCHANGED <<vars, pending, spend, missed, started>>

(* Fault: an offer is taken at its word.                                   *)
StartExecuteUnchecked(r, offer) ==
  /\ req[r].pc = "idle"
  /\ started < MaxStarted
  /\ started' = started + 1
  /\ req' = [req EXCEPT ![r] = [Blank EXCEPT
       !.pc = "allowed", !.kind = "execute", !.action = offer.action,
       !.quote = offer.quote]]
  /\ UNCHANGED <<vars, offers, pending, spend, missed>>

(* handleExecute checks the policy again, without the tracker.  The        *)
(* interface may send back the same intent as often as it likes.           *)
StartExecute(r, offer) ==
  /\ req[r].pc = "idle"
  /\ started < MaxStarted
  /\ started' = started + 1
  /\ IF CheckSwap(offer.action, {}, now)
     THEN req' = [req EXCEPT ![r] = [Blank EXCEPT
            !.pc = "allowed", !.kind = "execute", !.action = offer.action,
            !.quote = offer.quote]]
     ELSE Abandon(r)
  /\ UNCHANGED <<vars, offers, pending, spend, missed>>

ReadState(r) ==
  /\ req[r].pc = "allowed"
  /\ req' = [req EXCEPT ![r].pc = "slotted",
       ![r].epoch = agent[Self].epoch, ![r].nonce = agent[Self].nonce]
  /\ UNCHANGED <<vars, offers, pending, spend, missed, started>>

(* Faults: the slot after the one read; no minimum output.                 *)
RequestAhead(q) ==
  [root |-> KeyOf[Self], epoch |-> q.epoch, nonce |-> q.nonce + 1,
   input_mint |-> InOf(Route, q.action.a_to_b),
   output_mint |-> OutOf(Route, q.action.a_to_b),
   amount_in |-> q.action.amount, min_out |-> q.action.min_out,
   route |-> Route, expiry |-> q.action.expiry]

RequestNoMinimum(q) ==
  [RequestAhead(q) EXCEPT !.nonce = q.nonce, !.min_out = 0]

RequestedIntent(q) ==
  [root |-> KeyOf[Self], epoch |-> q.epoch, nonce |-> q.nonce,
   input_mint |-> InOf(Route, q.action.a_to_b),
   output_mint |-> OutOf(Route, q.action.a_to_b),
   amount_in |-> q.action.amount, min_out |-> q.action.min_out,
   route |-> Route, expiry |-> q.action.expiry]

(* The daemon signs any slot it is asked for, but has no key past the last *)
(* epoch.                                                                  *)
SignRequest(r) ==
  /\ req[r].pc = "slotted"
  /\ IF req[r].epoch < NumEpochs
     THEN /\ Cardinality(signed) < MaxSigned
          /\ signed' = signed \cup {RequestedIntent(req[r])}
          /\ req' = [req EXCEPT ![r].pc = "signed",
                                ![r].intent = RequestedIntent(req[r])]
     ELSE Abandon(r) /\ UNCHANGED signed
  /\ UNCHANGED <<ammVars, buffer, now, agent, spent>>
  /\ UNCHANGED <<offers, pending, spend, missed, started>>

(* Chunk after chunk, in a buffer that no request under way uses.          *)
StageSignature(r) ==
  /\ req[r].pc = "signed"
  /\ req[r].staged < NumChunks
  /\ WriteBuffer(r, req[r].staged + 1,
                 Piece(req[r].intent, req[r].staged + 1))
  /\ req' = [req EXCEPT ![r].staged = @ + 1]
  /\ UNCHANGED <<ammVars, now, keyVars>>
  /\ UNCHANGED <<offers, pending, spend, missed, started>>

OutputBalance(q) == balance[Self][OutOf(Route, q.action.a_to_b)]

ReadBefore(r) ==
  /\ req[r].pc = "signed" /\ req[r].staged = NumChunks
  /\ req' = [req EXCEPT ![r].before = OutputBalance(req[r]),
                        ![r].pc = "measured"]
  /\ UNCHANGED <<vars, offers, pending, spend, missed, started>>

Send(r) ==
  /\ req[r].pc = "measured"
  /\ Goto(r, "sent")
  /\ pending' = pending \cup {r}
  /\ UNCHANGED <<vars, offers, spend, missed, started>>

(* The client stops waiting; the transaction may land all the same.        *)
GiveUp(r) ==
  /\ req[r].pc = "sent"
  /\ Goto(r, "unknown")
  /\ UNCHANGED <<vars, offers, pending, spend, missed, started>>

(* Only a run still waiting for its swap goes on to count it.              *)
Land(r) ==
  LET i == req[r].intent
      out == OutOf(Route, req[r].action.a_to_b)
  IN
  /\ r \in pending
  /\ ExecuteSwap(Self, r, i.route, i.input_mint, i.output_mint, i.amount_in,
                 i.min_out, i.expiry)
  /\ pending' = pending \ {r}
  /\ req' = [req EXCEPT ![r].pc = IF @ = "sent" THEN "confirmed" ELSE "late",
                        ![r].paid = balance'[Self][out] - balance[Self][out]]
  /\ missed' = IF req[r].kind = "run" /\ req[r].pc = "sent"
               THEN missed ELSE missed + 1
  /\ UNCHANGED <<offers, spend, started>>

(* Refused by a program, or lost: either way it has no effect.             *)
Drop(r) ==
  /\ r \in pending
  /\ pending' = pending \ {r}
  /\ IF req[r].pc = "sent" THEN Abandon(r) ELSE req' = req
  /\ UNCHANGED <<vars, offers, spend, missed, started>>

(* A run counts what it spent, last of all.                                *)
Finish(r) ==
  LET q == req[r]
  IN
  /\ q.pc = "confirmed"
  /\ req' = [req EXCEPT ![r].pc = "done",
                        ![r].received = OutputBalance(q) - q.before]
  /\ spend' = IF q.kind = "run"
              THEN [spend EXCEPT ![InputOf(q.action)] = @ + q.action.amount]
              ELSE spend
  /\ UNCHANGED <<vars, offers, pending, missed, started>>

(* Any await may throw, the balance read after the swap was confirmed too, *)
(* which comes before the count.                                           *)
RequestFails(r) ==
  /\ req[r].pc \in {"asked", "half", "allowed", "slotted", "signed",
                    "measured", "confirmed"}
  /\ Abandon(r)
  /\ missed' = IF req[r].kind = "run" /\ req[r].pc = "confirmed"
               THEN missed + 1 ELSE missed
  /\ UNCHANGED <<vars, offers, pending, spend, started>>

(* The next request of this sort.                                          *)
Answer(r) ==
  /\ req[r].pc \in {"done", "failed", "unknown", "late"} /\ r \notin pending
  /\ req' = [req EXCEPT ![r] = Blank]
  /\ UNCHANGED <<vars, offers, pending, spend, missed, started>>
-----------------------------------------------------------------------------
Handle(r) ==
  \/ \E kind \in Kinds \ {"execute"}, a_to_b \in Directions, d \in AmountsIn :
       StartPlan(r, kind, a_to_b, d)
  \/ QuoteFirst(r) \/ QuoteSecond(r)
  \/ \E offer \in offers : StartExecute(r, offer)
  \/ ReadState(r) \/ SignRequest(r) \/ StageSignature(r) \/ ReadBefore(r)
  \/ Send(r) \/ GiveUp(r) \/ Finish(r) \/ RequestFails(r) \/ Answer(r)

Network(r) == Land(r) \/ Drop(r)

Market ==
  \E h \in Holders \ Agents, d \in Trades, a_to_b \in BOOLEAN :
    Swap(h, Route, d, 0, a_to_b)

ServerNext ==
  \/ \E r \in Requests : Handle(r) \/ Network(r)
  \/ Market /\ UNCHANGED <<buffer, now, keyVars, web>>
  \/ Tick /\ UNCHANGED web

ServerSpec == ServerInit /\ [][ServerNext]_serverVars
-----------------------------------------------------------------------------
(* PROPERTIES                                                              *)

ServerTypeOK ==
  /\ AgentTypeOK
  /\ \A r \in Requests :
       /\ r \in pending => req[r].pc \in {"sent", "unknown"}
       /\ req[r].intent \in signed \cup {NoIntent}
       /\ req[r].quote \in Nat /\ req[r].paid \in Nat
       /\ req[r].received \in Int
  /\ pending \subseteq Requests
  /\ spend \in [Mints -> Nat]
  /\ \A o \in offers : o.action.min_out \in Nat

(* Whatever the handlers, the network and the market do, the chain and the *)
(* signer take only the steps PorstAgent allows: what holds of its swaps   *)
(* holds of the backend's, which never asks for a signature at a slot the  *)
(* agent has not reached (handleExecute, runSwap).                         *)
AgentSteps == [][UNCHANGED vars \/ Next]_vars

(* The policy decides before the signer is asked (checkSwap): every swap   *)
(* it has ever signed is within the limits of one transaction and expires  *)
(* no later than the policy allows.  An interpreted intent is offered      *)
(* whatever the policy says of it and comes back at any later time, to be  *)
(* checked against the clock of then (handleExecute).                      *)
SignedWithinLimits ==
  \A i \in signed :
    /\ i.amount_in \in 1 .. maxAmountInPerTx
    /\ i.expiry <= now + maxExpirySeconds

(* A swap that executed paid out what its plan promised, less the slippage *)
(* at most, however the pool moved between quote and execution and however *)
(* long the transaction took (planSwap, execute_swap).                     *)
FilledWithinSlippage ==
  \A r \in Requests :
    req[r].pc \in {"confirmed", "late"} =>
      BpsDenominator * req[r].paid
        > (BpsDenominator - SlippageBps) * req[r].quote - BpsDenominator

(* What the agent has spent of a token, by the swaps that executed.        *)
SpentOf(x) ==
  SumOver([n \in 1 .. Len(spent[Self]) |-> spent[Self][n].amount_in],
          {n \in 1 .. Len(spent[Self]) : spent[Self][n].input_mint = x})

(* What the agent really spends overruns the daily limit by two things     *)
(* only.  Runs are checked against a count that those under way have not   *)
(* entered yet: each request but the last to be checked brings one swap    *)
(* too many at most.  And swaps execute that are never counted: those of   *)
(* /api/execute, those that land after their run stopped waiting, and      *)
(* those whose run throws between confirmation and count.  Each brings one *)
(* more at most, and there is no other way (runSwap, SpendTracker).        *)
SpendingBounded ==
  \A x \in Mints :
    SpentOf(x) <= maxAmountInDaily
                    + (Cardinality(Requests) - 1 + missed) * maxAmountInPerTx

(* The agent spends no more of a token than the daily limit.               *)
DailyLimit == \A x \in Mints : SpentOf(x) <= maxAmountInDaily
=============================================================================
