----------------------------- MODULE PorstAgent -----------------------------
(***************************************************************************)
(* The agent wallet (programs/porst_agent/src/lib.rs): token accounts that *)
(* only a many-time signature over an exact swap intent can move, and only *)
(* through the pool the intent names, into the market maker of CpSwap that *)
(* everybody else trades with as well.                                     *)
(***************************************************************************)
EXTENDS CpSwap, SignatureBuffer, Sequences

CONSTANTS
  Agents,           \* agents, among the holders of token accounts
  Roots,            \* XMSS public keys
  KeyOf,            \* the key each agent is created with
  NumEpochs,        \* NUM_EPOCHS
  SigningCapacity,  \* SIGNING_CAPACITY
  AmountsIn,        \* inputs intents are signed for
  MinOuts,          \* minimum outputs
  Expiries,         \* expiries
  MaxTime,          \* bound: the clock
  MaxSigned         \* bound: signatures produced

ASSUME AgentAssumption ==
  /\ Agents \subseteq Holders
  /\ NumEpochs \in Nat \ {0} /\ SigningCapacity \in Nat \ {0}
  /\ KeyOf \in [Agents -> Roots]
  /\ AmountsIn \subseteq Nat /\ MinOuts \subseteq Nat
  /\ Expiries \subseteq Nat /\ MaxTime \in Nat

VARIABLES
  agent,    \* [Agents -> Agent account]
  now,      \* the clock
  signed,   \* intents the signer has put its name to
  spent     \* history: [Agents -> the intents the program executed, in order]

keyVars == <<agent, signed, spent>>
vars == <<ammVars, buffer, now, keyVars>>

AgentState ==
  [live : BOOLEAN, xmss_root : Roots, epoch : 0 .. NumEpochs,
   used : 0 .. SigningCapacity - 1, nonce : Nat]

(* The route is the pool; there is one market maker program.               *)
Intents ==
  [root : Roots, epoch : Nat, nonce : Nat, input_mint : Mints,
   output_mint : Mints, amount_in : AmountsIn, min_out : MinOuts,
   route : Pools, expiry : Expiries]

AgentTypeOK ==
  /\ AmmTypeOK
  /\ agent \in [Agents -> AgentState]
  /\ now \in 0 .. MaxTime
  /\ signed \subseteq Intents
  /\ BuffersHold(signed)
  /\ \A a \in Agents : \A n \in 1 .. Len(spent[a]) : spent[a][n] \in signed

Created(a) ==
  [live |-> TRUE, xmss_root |-> KeyOf[a], epoch |-> 0, used |-> 0, nonce |-> 0]

Init ==
  /\ AmmInit
  /\ agent = [a \in Agents |-> [Created(a) EXCEPT !.live = FALSE]]
  /\ now = 0
  /\ signed = {}
  /\ BufferInit
  /\ spent = [a \in Agents |-> << >>]
-----------------------------------------------------------------------------
CreateAgent(a) ==
  /\ ~agent[a].live
  /\ agent' = [agent EXCEPT ![a] = Created(a)]
  /\ UNCHANGED <<ammVars, buffer, now, signed, spent>>

(* The slots a client may have read: the agent's and those before it.      *)
Slot(x) == [epoch |-> x.epoch, nonce |-> x.nonce]

SlotsRead(a) ==
  {Slot(agent[a])} \cup {Slot(spent[a][n]) : n \in 1 .. Len(spent[a])}

(* sign_swap puts the key's name to whatever digest its fields make.       *)
SignSwap(a, slot, p, a_to_b, amount_in, min_out, expiry) ==
  /\ agent[a].live
  /\ slot.epoch < NumEpochs
  /\ Cardinality(signed) < MaxSigned
  /\ signed' = signed \cup
       {[root |-> KeyOf[a], epoch |-> slot.epoch, nonce |-> slot.nonce,
         input_mint |-> InOf(p, a_to_b), output_mint |-> OutOf(p, a_to_b),
         amount_in |-> amount_in, min_out |-> min_out, route |-> p,
         expiry |-> expiry]}
  /\ UNCHANGED <<ammVars, buffer, now, agent, spent>>

(* The direction is the one in which the pool trades the two mints; no     *)
(* other pair is a route.                                                  *)
RouteTrades(p, input_mint, output_mint, a_to_b) ==
  input_mint = InOf(p, a_to_b) /\ output_mint = OutOf(p, a_to_b)

(* Fault: the digest leaves the route out.                                 *)
AnyRoute(a, i, b) ==
  \E j \in signed :
    /\ Holds(b, j)
    /\ [j EXCEPT !.route = i.route] = i

(* verify_wallet_sig accepts the buffer for the digest recomputed from the *)
(* agent's state, the accounts and the instruction's arguments.            *)
Authorised(a, i, b) == Holds(b, i)

(* Fault: the rollover comes one signature late.                           *)
RolloverLate(w) ==
  IF w.used + 1 > SigningCapacity
  THEN [w EXCEPT !.nonce = @ + 1, !.used = 0, !.epoch = @ + 1]
  ELSE [w EXCEPT !.nonce = @ + 1, !.used = @ + 1]

AdvanceSigning(w) ==
  IF w.used + 1 >= SigningCapacity
  THEN [w EXCEPT !.nonce = @ + 1, !.used = 0, !.epoch = @ + 1]
  ELSE [w EXCEPT !.nonce = @ + 1, !.used = @ + 1]

Unexpired(expiry) == now <= expiry

(* The digest's fields, as execute_swap finds them.                        *)
IntentOf(a, p, input_mint, output_mint, amount_in, min_out, expiry) ==
  [root |-> agent[a].xmss_root, epoch |-> agent[a].epoch,
   nonce |-> agent[a].nonce, input_mint |-> input_mint,
   output_mint |-> output_mint, amount_in |-> amount_in, min_out |-> min_out,
   route |-> p, expiry |-> expiry]

ExecuteSwap(a, b, p, input_mint, output_mint, amount_in, min_out, expiry) ==
  /\ Unexpired(expiry)
  /\ agent[a].live
  /\ agent[a].epoch < NumEpochs
  /\ \E a_to_b \in BOOLEAN :
       /\ RouteTrades(p, input_mint, output_mint, a_to_b)
       /\ Authorised(a, IntentOf(a, p, input_mint, output_mint, amount_in,
                                 min_out, expiry), b)
       /\ Swap(a, p, amount_in, min_out, a_to_b)
  /\ balance'[a][output_mint] - balance[a][output_mint] >= min_out
  /\ agent' = [agent EXCEPT ![a] = AdvanceSigning(@)]
  /\ spent' = [spent EXCEPT ![a] = Append(@, IntentIn(b))]
  /\ UNCHANGED <<buffer, now, signed>>

Tick ==
  /\ now < MaxTime
  /\ now' = now + 1
  /\ UNCHANGED <<ammVars, buffer, keyVars>>
-----------------------------------------------------------------------------
Sign ==
  \E a \in Agents, p \in Pools, a_to_b \in BOOLEAN, amount_in \in AmountsIn,
     min_out \in MinOuts, expiry \in Expiries :
    \E slot \in SlotsRead(a) :
      SignSwap(a, slot, p, a_to_b, amount_in, min_out, expiry)

Submit ==
  \E a \in Agents, b \in Buffers, p \in Pools, x, y \in Mints,
     amount_in \in AmountsIn, min_out \in MinOuts, expiry \in Expiries :
    ExecuteSwap(a, b, p, x, y, amount_in, min_out, expiry)

Next ==
  \/ \E a \in Agents : CreateAgent(a)
  \/ Sign
  \/ Stage(signed) /\ UNCHANGED <<ammVars, now, keyVars>>
  \/ Submit
  \/ AmmNext(Holders \ Agents) /\ UNCHANGED <<buffer, now, keyVars>>
  \/ Tick

Spec == Init /\ [][Next]_vars
-----------------------------------------------------------------------------
(* PROPERTIES                                                              *)

(* An agent's tokens leave its accounts only as an intent of its key says  *)
(* that was signed for its current slot and has not expired: exactly       *)
(* amount_in of the input goes to the pool of the signed route and at      *)
(* least min_out of the output comes from it, whoever traded there between *)
(* signature and execution (execute_swap).                                 *)
SwappedAs(i, a) ==
  /\ balance'[a][i.input_mint] = balance[a][i.input_mint] - i.amount_in
  /\ balance'[a][i.output_mint] >= balance[a][i.output_mint] + i.min_out
  /\ \A x \in Mints \ {i.input_mint, i.output_mint} :
       balance'[a][x] = balance[a][x]
  /\ pool'[i.route] # pool[i.route]
  /\ \A p \in Pools \ {i.route} : pool'[p] = pool[p]

AgentTokensMoveAsSigned ==
  \A a \in Agents :
    \/ \A x \in Mints : balance'[a][x] >= balance[a][x]
    \/ \E i \in signed :
         /\ i.root = KeyOf[a] /\ i.nonce = agent[a].nonce
         /\ i.epoch = agent[a].epoch /\ now <= i.expiry
         /\ SwappedAs(i, a)

SwapsAsSigned == [][AgentTokensMoveAsSigned]_balance

(* The agent's counters implement the ledger of a many-time key: its n-th  *)
(* swap is one signed for nonce n in epoch n \div SigningCapacity, and the *)
(* lifetime of the key is never exceeded (execute_swap).                   *)
Ledger ==
  INSTANCE FewTimeLedger WITH Accounts <- Agents, ledger <- spent

ImplementsLedger == Ledger!Spec
=============================================================================
