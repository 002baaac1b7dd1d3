----------------------------- MODULE PerpIntent -----------------------------
(***************************************************************************)
(* What the co-pilot makes of a message (agent/perp-llm.ts): the language  *)
(* model's JSON, normalized, or without a model, or when it fails, the     *)
(* words and numbers that the regular expressions of the fallback find.    *)
(* Amounts are whole USDT, leverage is what Math.round leaves of it, and 0 *)
(* is a number that is missing: the code tells the two apart nowhere.      *)
(***************************************************************************)
EXTENDS Integers, Sequences

(* A message as the regular expressions see it: whether it asks the agent  *)
(* to decide, which side words it has, and its numbers in their order,     *)
(* each with an "x" behind it or not.                                      *)
Messages ==
  [decide : BOOLEAN, words : SUBSET {"long", "short"},
   numbers : Seq([value : Nat, x : BOOLEAN])]

(* The market snapshot: the trader's balance, the sign of the momentum and *)
(* the market's maximal leverage.                                          *)
Snapshots == [balance : Nat, rising : BOOLEAN, maxLeverage : Nat \ {0}]

(* What the model may answer, fields that are no numbers counting as 0 and *)
(* sides that are not "short" as "long".                                   *)
ModelAnswers ==
  [kind : {"ask", "propose"}, side : {"long", "short"},
   leverage : Int, collateral : Int, stop : BOOLEAN, target : BOOLEAN]

Plans ==
  [side : {"long", "short"}, collateral : Nat, leverage : Nat,
   stop : BOOLEAN, target : BOOLEAN]

Ask(what) == [kind |-> "ask", what |-> what]

Propose(x) == [kind |-> "propose", plan |-> x]

Least(a, b) == IF a <= b THEN a ELSE b

Most(a, b) == IF a >= b THEN a ELSE b
-----------------------------------------------------------------------------
(* normalize: the model's numbers are clamped, its kind is taken.          *)
Normalize(a, s) ==
  IF a.kind = "propose"
  THEN Propose([side |-> a.side,
         collateral |-> Most(0, a.collateral),
         leverage |-> Most(1, Least(s.maxLeverage,
                        IF a.leverage = 0 THEN 1 ELSE a.leverage)),
         stop |-> a.stop, target |-> a.target])
  ELSE Ask("model")

(* "long" is looked for first.                                             *)
SideOf(msg) ==
  IF "long" \in msg.words THEN "long"
  ELSE IF "short" \in msg.words THEN "short" ELSE "none"

(* The first number with an x behind it.                                   *)
LeverageOf(msg) ==
  LET factors == SelectSeq(msg.numbers, LAMBDA n : n.x)
  IN  IF factors = << >> THEN 0 ELSE Head(factors).value

(* The first number of all: the unit behind it is optional.                *)
AmountOf(msg) == IF msg.numbers = << >> THEN 0 ELSE Head(msg.numbers).value

(* The agent's own choice: with the momentum, a tenth of the balance       *)
(* (rounded, at least 1 and at most 250 USDT) at 3x, with both exits.      *)
Decide(s) ==
  [side |-> IF s.rising THEN "long" ELSE "short",
   collateral |-> Most(1, Least((s.balance + 5) \div 10, 250)),
   leverage |-> 3, stop |-> TRUE, target |-> TRUE]

Requested(msg) ==
  [side |-> SideOf(msg), collateral |-> AmountOf(msg),
   leverage |-> LeverageOf(msg), stop |-> LeverageOf(msg) > 10,
   target |-> FALSE]

(* fallback.                                                               *)
Fallback(msg, s) ==
  CASE msg.decide -> Propose(Decide(s))
    [] ~msg.decide /\ SideOf(msg) = "none" -> Ask("side")
    [] ~msg.decide /\ SideOf(msg) # "none" /\ AmountOf(msg) = 0 ->
         Ask("amount")
    [] ~msg.decide /\ SideOf(msg) # "none" /\ AmountOf(msg) # 0
         /\ LeverageOf(msg) = 0 -> Ask("leverage")
    [] OTHER -> Propose(Requested(msg))

(* interpretPerp: without a provider there are no model answers, and with  *)
(* one the call may fail or answer no JSON.                                *)
Interpretations(msg, s, answers) ==
  {Fallback(msg, s)} \cup {Normalize(a, s) : a \in answers}
-----------------------------------------------------------------------------
(* What checkOpen says of a plan's figures (the levels against the price    *)
(* are in PerpServer).                                                     *)
Allowed(x, limits, balance, openCount) ==
  /\ x.leverage >= 1 /\ x.leverage <= limits.maxLeverage
  /\ x.collateral >= limits.minCollateral
  /\ x.collateral <= limits.maxCollateral
  /\ x.collateral <= balance
  /\ x.collateral * x.leverage <= limits.maxNotional
  /\ x.leverage > limits.requireSlAboveLeverage => x.stop
  /\ openCount < limits.maxOpenPositions
=============================================================================
