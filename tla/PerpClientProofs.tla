-------------------------- MODULE PerpClientProofs --------------------------
(***************************************************************************)
(* What the co-pilot proposes when it decides by itself, and what is left  *)
(* of a language model's figures, for every balance, market and message;   *)
(* and that what the view says of a click is true, for any number of       *)
(* clicks, views and failures.  TLC sees the one message and the few       *)
(* clicks of MCPerpClient; these hold of all.                              *)
(***************************************************************************)
EXTENDS PerpClient, TLAPS

(* A tenth of the balance, rounded, is no more than the balance.           *)
LEMMA TenthFits ==
  ASSUME NEW b \in Nat, b >= 1
  PROVE  (b + 5) \div 10 \in Nat /\ (b + 5) \div 10 <= b
BY SMT

(* The policy allows what the agent decides by itself, on any account with *)
(* money in it and room for a position, under limits no tighter than 3x,   *)
(* 250 USDT and 750 USDT of notional: "decide for me" is not refused for   *)
(* its figures (fallback of perp-llm.ts against checkOpen of               *)
(* perp-policy.ts).                                                        *)
THEOREM DecidedAllowed ==
  ASSUME NEW s \in Snapshots, s.balance >= 1,
         NEW limits, NEW openCount \in Nat,
         limits.maxLeverage \in Nat, limits.maxLeverage >= 3,
         limits.minCollateral \in Nat, limits.minCollateral <= 1,
         limits.maxCollateral \in Nat, limits.maxCollateral >= 250,
         limits.maxNotional \in Nat, limits.maxNotional >= 750,
         limits.maxOpenPositions \in Nat, openCount < limits.maxOpenPositions
  PROVE  Allowed(Decide(s), limits, s.balance, openCount)
PROOF
<1> DEFINE tenth == (s.balance + 5) \div 10
           amount == Most(1, Least(tenth, 250))
<1>1. s.balance \in Nat
  BY DEF Snapshots
<1>2. tenth \in Nat /\ tenth <= s.balance
  BY <1>1, TenthFits
<1> HIDE DEF tenth
<1>3. amount \in Nat /\ 1 <= amount /\ amount <= 250 /\ amount <= s.balance
  BY <1>1, <1>2 DEF Most, Least
<1>4. /\ Decide(s).collateral = amount
      /\ Decide(s).leverage = 3 /\ Decide(s).stop = TRUE
  BY DEF Decide, tenth
<1> HIDE DEF amount
<1>5. amount * 3 <= limits.maxNotional
  BY <1>3
<1> QED BY <1>1, <1>3, <1>4, <1>5 DEF Allowed

(* A model's proposal is brought to a leverage the market knows and to an  *)
(* amount that is no debt, whatever numbers it made up (normalize).        *)
THEOREM NormalizedClamped ==
  ASSUME NEW s \in Snapshots, NEW a \in ModelAnswers, a.kind = "propose"
  PROVE  /\ Normalize(a, s).plan \in Plans
         /\ Normalize(a, s).plan.leverage \in 1..s.maxLeverage
PROOF
<1> DEFINE leverage ==
             Most(1, Least(s.maxLeverage,
                           IF a.leverage = 0 THEN 1 ELSE a.leverage))
<1>1. leverage \in 1..s.maxLeverage
  BY DEF Snapshots, ModelAnswers, Most, Least
<1>2. Most(0, a.collateral) \in Nat
  BY DEF ModelAnswers, Most
<1>3. Normalize(a, s).plan =
        [side |-> a.side, collateral |-> Most(0, a.collateral),
         leverage |-> leverage, stop |-> a.stop, target |-> a.target]
  BY DEF Normalize, Propose
<1>4. leverage \in Nat
  BY <1>1 DEF Snapshots
<1> HIDE DEF leverage
<1> QED BY <1>1, <1>2, <1>3, <1>4 DEF Plans, ModelAnswers
-----------------------------------------------------------------------------
(* THE VIEW'S ANSWERS                                                      *)

Fields == DOMAIN NoOp

(* What a request has come to.  Only a landed transaction is waited for,   *)
(* and what was said of it stays: the sequence number is not read again.   *)
TrueSoFar(x) ==
  /\ DOMAIN x = Fields
  /\ x.pc = "chat" => x.kind = "chat"
  /\ x.pc \in {"read", "positions", "answered"} =>
       x.kind = "chat" \/ x.effect = x.seq
  /\ x.said \in {"open", "close"} => x.pc = "over" /\ x.effect = x.seq
  /\ x.effect # None => x.sent

ClientInv ==
  /\ DOMAIN op = Ops
  /\ \A i \in Ops : TrueSoFar(op[i])

LEMMA FieldNames ==
  Fields = {"pc", "kind", "mount", "text", "plan", "seq", "nonce", "state",
            "effect", "sent", "said"}
  BY DEF Fields, NoOp

(* A request in its new state; those of the others are as they were.       *)
LEMMA OneOperation ==
  ASSUME ClientInv, NEW i \in Ops, NEW x, TrueSoFar(x),
         op' = [op EXCEPT ![i] = x]
  PROVE  ClientInv'
  <1>1. DOMAIN op' = Ops
    BY DEF ClientInv
  <1>2. op'[i] = x /\ \A j \in Ops \ {i} : op'[j] = op[j]
    BY DEF ClientInv
  <1>3. \A j \in Ops : TrueSoFar(op'[j])
    BY <1>2 DEF ClientInv
  <1> QED
    BY <1>1, <1>3 DEF ClientInv

(* Step leaves the fields it does not name.                                *)
LEMMA StepFields ==
  ASSUME ClientInv, NEW i \in Ops, NEW from, NEW fields, Step(i, from, fields)
  PROVE  \E x :
           /\ op[i].pc = from /\ op' = [op EXCEPT ![i] = x]
           /\ DOMAIN x = Fields
           /\ \A f \in Fields :
                x[f] = IF f \in DOMAIN fields THEN fields[f] ELSE op[i][f]
  <1> DEFINE x == [f \in DOMAIN NoOp |->
                     IF f \in DOMAIN fields THEN fields[f] ELSE op[i][f]]
  <1>1. op[i].pc = from /\ op' = [op EXCEPT ![i] = x]
    BY DEF Step
  <1>2. /\ DOMAIN x = Fields
        /\ \A f \in Fields :
             x[f] = IF f \in DOMAIN fields THEN fields[f] ELSE op[i][f]
    BY DEF Fields
  <1> HIDE DEF x
  <1> QED
    BY <1>1, <1>2

(* A step to a stage that says nothing, from one that had said nothing.    *)
LEMMA QuietStep ==
  ASSUME ClientInv, NEW i \in Ops, NEW from, NEW fields, Step(i, from, fields),
         from # "over",
         DOMAIN fields \cap {"effect", "said"} = {},
         "pc" \in DOMAIN fields,
         fields["pc"] = "chat" =>
           "kind" \in DOMAIN fields /\ fields["kind"] = "chat",
         "sent" \in DOMAIN fields => fields["sent"],
         \/ fields["pc"] \notin {"read", "positions", "answered"}
         \/ from \in {"chat", "read", "positions"}
              /\ DOMAIN fields \cap {"kind", "seq"} = {}
  PROVE  ClientInv'
  <1>1. PICK x :
          /\ op[i].pc = from /\ op' = [op EXCEPT ![i] = x]
          /\ DOMAIN x = Fields
          /\ \A f \in Fields :
               x[f] = IF f \in DOMAIN fields THEN fields[f] ELSE op[i][f]
    BY StepFields
  <1>2. TrueSoFar(op[i])
    BY DEF ClientInv
  <1>3. /\ x.pc = fields["pc"]
        /\ x.effect = op[i].effect /\ x.said = op[i].said
    BY <1>1, FieldNames
  <1>4. x.said \notin {"open", "close"}
    BY <1>1, <1>2, <1>3 DEF TrueSoFar
  <1>5. x.effect # None => x.sent
    BY <1>1, <1>2, <1>3, FieldNames DEF TrueSoFar
  <1>6. x.pc = "chat" => x.kind = "chat"
    BY <1>1, <1>3, FieldNames
  <1>7. x.pc \in {"read", "positions", "answered"} =>
          x.kind = "chat" \/ x.effect = x.seq
    <2> SUFFICES ASSUME x.pc \in {"read", "positions", "answered"}
                 PROVE  x.kind = "chat" \/ x.effect = x.seq
      OBVIOUS
    <2>1. x.kind = op[i].kind /\ x.seq = op[i].seq
      BY <1>1, <1>3, FieldNames
    <2> QED
      BY <1>1, <1>2, <1>3, <2>1 DEF TrueSoFar
  <1>8. TrueSoFar(x)
    BY <1>1, <1>4, <1>5, <1>6, <1>7 DEF TrueSoFar
  <1> QED
    BY <1>1, <1>8, OneOperation

LEMMA LandTells ==
  ASSUME ClientInv, NEW i \in Ops, Land(i)
  PROVE  ClientInv'
  <1> DEFINE pc == IF op[i].pc = "sent" THEN "read" ELSE op[i].pc
             x == [op[i] EXCEPT !.effect = op[i].seq, !.pc = pc]
  <1>1. /\ op' = [op EXCEPT ![i] = x] /\ op[i].sent
        /\ op[i].pc \in {"sent", "failed", "over"}
    BY DEF Land
  <1>2. TrueSoFar(op[i])
    BY DEF ClientInv
  <1>3. pc \in {"read", "failed", "over"} /\ (op[i].pc = "over" => pc = "over")
    BY <1>1
  <1> HIDE DEF pc
  <1>4. /\ DOMAIN x = Fields /\ x.pc = pc /\ x.effect = op[i].seq
        /\ x.seq = op[i].seq /\ x.kind = op[i].kind
        /\ x.sent = op[i].sent /\ x.said = op[i].said
    BY <1>2, FieldNames DEF TrueSoFar
  <1> HIDE DEF x
  <1>5. TrueSoFar(x)
    BY <1>1, <1>2, <1>3, <1>4 DEF TrueSoFar
  <1> QED
    BY <1>1, <1>5, OneOperation

LEMMA ReceiveTells ==
  ASSUME ClientInv, NEW i \in Ops, Receive(i)
  PROVE  ClientInv'
  <1> DEFINE result == IF op[i].pc = "failed" THEN "rejected" ELSE op[i].kind
             said == IF Mine(op[i]) THEN result ELSE None
             x == [op[i] EXCEPT !.pc = "over", !.state = None, !.said = said]
  <1>1. /\ op' = [op EXCEPT ![i] = x] /\ op[i].pc \in {"answered", "failed"}
    BY DEF Receive, ReceiveWith
  <1>2. TrueSoFar(op[i])
    BY DEF ClientInv
  <1>3. said \in {"open", "close"} => op[i].effect = op[i].seq
    BY <1>1, <1>2, ClientAssumption DEF TrueSoFar
  <1> HIDE DEF said
  <1>4. /\ DOMAIN x = Fields /\ x.pc = "over" /\ x.effect = op[i].effect
        /\ x.seq = op[i].seq /\ x.kind = op[i].kind
        /\ x.sent = op[i].sent /\ x.said = said
    BY <1>2, FieldNames DEF TrueSoFar
  <1> HIDE DEF x
  <1>5. TrueSoFar(x)
    BY <1>2, <1>3, <1>4 DEF TrueSoFar
  <1> QED
    BY <1>1, <1>5, OneOperation

LEMMA FailsTells ==
  ASSUME ClientInv, NEW i \in Ops, Fails(i)
  PROVE  ClientInv'
  <1> DEFINE plan == IF op[i].kind = "chat" THEN None ELSE op[i].plan
             x == [op[i] EXCEPT !.pc = "failed", !.plan = plan,
                                !.state = None, !.text = None]
  <1>1. op' = [op EXCEPT ![i] = x] /\ op[i].pc # "over"
    BY DEF Fails
  <1>2. TrueSoFar(op[i])
    BY DEF ClientInv
  <1> HIDE DEF plan
  <1>3. /\ DOMAIN x = Fields /\ x.pc = "failed" /\ x.effect = op[i].effect
        /\ x.sent = op[i].sent /\ x.said = op[i].said
    BY <1>2, FieldNames DEF TrueSoFar
  <1> HIDE DEF x
  <1>4. TrueSoFar(x)
    BY <1>1, <1>2, <1>3 DEF TrueSoFar
  <1> QED
    BY <1>1, <1>4, OneOperation

LEMMA ClickTells ==
  ASSUME ClientInv, NEW i \in Ops, Send(i) \/ Approve(i) \/ Close(i)
  PROVE  ClientInv'
  <1>1. CASE Send(i)
    <2>1. PICK t \in Texts :
            Step(i, "idle", [pc |-> "chat", kind |-> "chat",
                             mount |-> mount, text |-> t])
      BY <1>1 DEF Send, Click
    <2> QED
      BY <2>1, QuietStep
  <1>2. CASE Approve(i)
    <2>1. PICK x \in cards :
            Step(i, "idle", [pc |-> "check", kind |-> "open",
                             mount |-> mount, plan |-> x])
      BY <1>2 DEF Approve, Click
    <2> QED
      BY <2>1, QuietStep
  <1>3. CASE Close(i)
    <2>1. PICK p \in shown.book :
            Step(i, "idle", [pc |-> "slot", kind |-> "close",
                             mount |-> mount, seq |-> p.seq])
      BY <1>3 DEF Close, Click
    <2> QED
      BY <2>1, QuietStep
  <1> QED
    BY <1>1, <1>2, <1>3

LEMMA HandlerTells ==
  ASSUME ClientInv, NEW i \in Ops, Handler(i)
  PROVE  ClientInv'
  <1>1. CASE Chat(i)
    <2>1. \E plan : Step(i, "chat", [pc |-> "answered", text |-> None,
                                     plan |-> plan])
      BY <1>1 DEF Chat, Handling
    <2>2. PICK plan : Step(i, "chat", [pc |-> "answered", text |-> None,
                                       plan |-> plan])
      BY <2>1
    <2> QED
      BY <2>2, QuietStep
  <1>2. CASE Check(i)
    <2>1. \E pc \in {"slot", "failed"} : Step(i, "check", [pc |-> pc])
      BY <1>2 DEF Check, Handling
    <2>2. PICK pc \in {"slot", "failed"} : Step(i, "check", [pc |-> pc])
      BY <2>1
    <2> QED
      BY <2>2, QuietStep
  <1>3. CASE ReadSlot(i)
    <2>1. \E s : Step(i, "slot", [pc |-> "sign", nonce |-> nonce, seq |-> s])
      BY <1>3 DEF ReadSlot, Handling
    <2>2. PICK s : Step(i, "slot", [pc |-> "sign", nonce |-> nonce, seq |-> s])
      BY <2>1
    <2> QED
      BY <2>2, QuietStep
  <1>4. CASE Connect(i)
    <2>1. \E pc \in {"signing", "failed"} : Step(i, "sign", [pc |-> pc])
      BY <1>4 DEF Connect, Handling
    <2>2. PICK pc \in {"signing", "failed"} : Step(i, "sign", [pc |-> pc])
      BY <2>1
    <2> QED
      BY <2>2, QuietStep
  <1>5. CASE SignAndSend(i)
    <2>1. Step(i, "signing", [pc |-> "sent", sent |-> TRUE])
      BY <1>5 DEF SignAndSend, Handling
    <2> QED
      BY <2>1, QuietStep
  <1>6. CASE Orphaned(i)
    <2>1. PICK how \in {"failed", "hung"} : Step(i, "signing", [pc |-> how])
      BY <1>6 DEF Orphaned, Handling
    <2> QED
      BY <2>1, QuietStep
  <1>7. CASE Unconfirmed(i)
    <2>1. Step(i, "sent", [pc |-> "failed"])
      BY <1>7 DEF Unconfirmed, Handling
    <2> QED
      BY <2>1, QuietStep
  <1>8. CASE ReadTrader(i)
    <2>1. Step(i, "read", [pc |-> "positions", state |-> TraderRead])
      BY <1>8 DEF ReadTrader, Handling
    <2> QED
      BY <2>1, QuietStep
  <1>9. CASE Answer(i)
    <2>1. \E s : Step(i, "positions", [pc |-> "answered", state |-> s])
      BY <1>9 DEF Answer, Handling
    <2>2. PICK s : Step(i, "positions", [pc |-> "answered", state |-> s])
      BY <2>1
    <2> QED
      BY <2>2, QuietStep
  <1> QED
    BY <1>1, <1>2, <1>3, <1>4, <1>5, <1>6, <1>7, <1>8, <1>9, ReceiveTells
    DEF Handler

LEMMA ClientInvNext == ClientInv /\ [Next]_vars => ClientInv'
  <1> SUFFICES ASSUME ClientInv, [Next]_vars PROVE ClientInv'
    OBVIOUS
  <1>1. CASE op' = op
    BY <1>1 DEF ClientInv
  <1>2. CASE \E i \in Ops : \/ Send(i) \/ Approve(i) \/ Close(i)
                            \/ Handler(i) \/ Land(i) \/ Fails(i)
    BY <1>2, ClickTells, HandlerTells, LandTells, FailsTells
  <1>3. \/ op' = op
        \/ \E i \in Ops : \/ Send(i) \/ Approve(i) \/ Close(i)
                          \/ Handler(i) \/ Land(i) \/ Fails(i)
    BY DEF Next, Polling, Poll, PollPositions, PollAnswer, Leave, Return,
           DaemonDies, KeeperCloses, vars
  <1> QED
    BY <1>1, <1>2, <1>3

LEMMA ClientInvInit == Init => ClientInv
  <1> SUFFICES ASSUME Init PROVE ClientInv
    OBVIOUS
  <1>1. DOMAIN op = Ops /\ \A i \in Ops : op[i] = NoOp
    BY DEF Init
  <1>2. TrueSoFar(NoOp)
    <2>1. /\ NoOp.pc = "idle" /\ NoOp.effect = None /\ NoOp.said = None
      BY DEF NoOp
    <2> QED
      BY <2>1, ClientAssumption DEF TrueSoFar, Fields
  <1> QED
    BY <1>1, <1>2 DEF ClientInv

(* Whatever else is under way, fails or lands late, "opened" and "closed"  *)
(* are said of a transaction that executed for that very position, and of  *)
(* a rejected request only one that had been sent has any effect (approve  *)
(* and close of Perp.tsx, perpOpen, perpClose).                            *)
THEOREM AnswersHold == Spec => []AnswersAreTrue
  <1>1. ClientInv => AnswersAreTrue
    BY DEF ClientInv, TrueSoFar, AnswersAreTrue
  <1> QED
    BY <1>1, ClientInvInit, ClientInvNext, PTL DEF Spec
=============================================================================
