----------------------------- MODULE PerpClient -----------------------------
(***************************************************************************)
(* The perps view in the browser (web/src/Perp.tsx under the tabs of       *)
(* App.tsx) and what it talks to: chat, open and close requests, one at a  *)
(* time behind the busy flag, and a poll of the state every four seconds   *)
(* whose answers may overtake each other.  Leaving the tab unmounts the    *)
(* view: what it had under way goes on in the backend, its answers are     *)
(* dropped, and the view that is mounted next knows nothing of it.         *)
(*                                                                         *)
(* The backend is PerpServer's, reduced to what the view can tell: its     *)
(* handlers with every await that can fail, the signer daemon, which may   *)
(* die, and of the chain the positions and the nonce.                      *)
(***************************************************************************)
EXTENDS PerpIntent, FiniteSets

CONSTANTS
  Texts,       \* messages the user types
  Answers,     \* what the language model may answer
  Balances,    \* balances of the trader, as the handlers read them
  MaxLeverage, \* of the market
  Limits,      \* PerpLimits
  None,        \* no state, no plan, no position
  MaxOps,      \* requests the view may make: a bound, with the next three
  Slots,       \* polls that may be under way at the same time
  MaxMounts,   \* how often the view is mounted
  MaxFaults    \* calls that fail, and the death of the daemon

ASSUME ClientAssumption ==
  /\ Texts \subseteq Messages /\ Answers \subseteq ModelAnswers
  /\ Balances \subseteq Nat /\ MaxLeverage \in Nat \ {0}
  /\ MaxOps \in Nat /\ MaxMounts \in Nat /\ MaxFaults \in Nat
  /\ None \notin {"chat", "open", "close", "rejected"}

VARIABLES
  tab,     \* "perps" or "swap"
  mount,   \* how often Perp has been mounted
  busy,    \* the flag of the present view
  shown,   \* its state: None before the first answer
  cards,   \* plans with an approve button among its messages
  op,      \* [Ops -> the request, from the click to the message]
  poll,    \* [Slots -> the poll under way]
  alive,   \* the signer daemon runs
  nonce,   \* the trader account's nonce
  count,   \* its position_count
  book,    \* open positions: their numbers and plans
  faults   \* bound counter

Ops == 1..MaxOps

view == <<tab, mount, busy, shown, cards>>
chain == <<nonce, count, book>>
vars == <<view, op, poll, alive, chain, faults>>

NoOp ==
  [pc |-> "idle", kind |-> None, mount |-> 0, text |-> None, plan |-> None,
   seq |-> None, nonce |-> 0, state |-> None, effect |-> None,
   sent |-> FALSE, said |-> None]

NoPoll == [pc |-> "idle", state |-> None]

Init ==
  /\ tab = "perps" /\ mount = 1 /\ busy = FALSE
  /\ shown = None /\ cards = {}
  /\ op = [i \in Ops |-> NoOp]
  /\ poll = [k \in Slots |-> NoPoll]
  /\ alive = TRUE
  /\ nonce = 0 /\ count = 0 /\ book = {}
  /\ faults = 0

(* perpState reads the trader account first and the positions later.       *)
TraderRead == [nonce |-> nonce, book |-> None]

ChainState == [nonce |-> nonce, book |-> book]
-----------------------------------------------------------------------------
(* THE VIEW                                                                *)

Step(i, from, fields) ==
  /\ op[i].pc = from
  /\ op' = [op EXCEPT ![i] =
       [f \in DOMAIN NoOp |-> IF f \in DOMAIN fields THEN fields[f]
                                                     ELSE op[i][f]]]

(* A click or an Enter: the buttons and the input are disabled while busy. *)
Click(i, fields) ==
  /\ tab = "perps" /\ ~busy
  /\ \A j \in 1..(i - 1) : op[j].pc # "idle"
  /\ Step(i, "idle", fields)
  /\ busy' = TRUE
  /\ UNCHANGED <<tab, mount, shown, cards, poll, alive, chain, faults>>

Send(i) == \E t \in Texts :
  Click(i, [pc |-> "chat", kind |-> "chat", mount |-> mount, text |-> t])

Approve(i) == \E x \in cards :
  Click(i, [pc |-> "check", kind |-> "open", mount |-> mount, plan |-> x])

Close(i) ==
  /\ shown # None
  /\ \E p \in shown.book :
       Click(i, [pc |-> "slot", kind |-> "close", mount |-> mount,
                 seq |-> p.seq])

Mine(x) == tab = "perps" /\ x.mount = mount

(* The answer, or the error: a message, a state if one came with it, a     *)
(* card if it is a proposal the policy allows, and the flag.               *)
ReceiveWith(i, idle) ==
  LET x == op[i]
      result == IF x.pc = "failed" THEN "rejected" ELSE x.kind
  IN
  /\ x.pc \in {"answered", "failed"}
  /\ op' = [op EXCEPT ![i] =
       [x EXCEPT !.pc = "over", !.state = None,
                 !.said = IF Mine(x) THEN result ELSE None]]
  /\ busy' = (busy /\ ~(Mine(x) /\ idle))
  /\ shown' = IF Mine(x) /\ x.state # None THEN x.state ELSE shown
  /\ cards' = IF Mine(x) /\ x.kind = "chat" /\ x.plan # None
              THEN cards \cup {x.plan} ELSE cards
  /\ UNCHANGED <<tab, mount, poll, alive, chain, faults>>

(* Fault: an error leaves the flag set.                                    *)
ReceiveWithoutFinally(i) == ReceiveWith(i, op[i].pc = "answered")

(* finally setBusy(false).                                                 *)
Receive(i) == ReceiveWith(i, TRUE)

(* The tabs: leaving unmounts the view, with its interval and the polls    *)
(* whose answers nobody will see; coming back mounts a new one.            *)
Leave ==
  /\ tab = "perps" /\ mount < MaxMounts
  /\ tab' = "swap" /\ busy' = FALSE /\ shown' = None /\ cards' = {}
  /\ poll' = [k \in Slots |-> NoPoll]
  /\ UNCHANGED <<mount, op, alive, chain, faults>>

Return ==
  /\ tab = "swap"
  /\ tab' = "perps" /\ mount' = mount + 1
  /\ UNCHANGED <<busy, shown, cards, op, poll, alive, chain, faults>>
-----------------------------------------------------------------------------
(* POLLS                                                                   *)

PollStep(k, from, new) ==
  /\ poll[k].pc = from
  /\ poll' = [poll EXCEPT ![k] = new]

(* Fault: the state is asked for when the view is mounted, and never again.*)
PollOnMount(k) ==
  /\ tab = "perps" /\ shown = None
  /\ PollStep(k, "idle",
       [pc |-> "half", state |-> TraderRead])
  /\ UNCHANGED <<view, op, alive, chain, faults>>

(* refresh, on mounting and at every interval; the backend reads the       *)
(* trader account.                                                         *)
Poll(k) ==
  /\ tab = "perps"
  /\ PollStep(k, "idle",
       [pc |-> "half", state |-> TraderRead])
  /\ UNCHANGED <<view, op, alive, chain, faults>>

PollPositions(k) ==
  /\ PollStep(k, "half", [poll[k] EXCEPT !.pc = "answered",
                             !.state = [poll[k].state EXCEPT !.book = book]])
  /\ UNCHANGED <<view, op, alive, chain, faults>>

(* Whichever answer comes last is shown.  A poll that fails changes        *)
(* nothing (.catch(() => {})) and is left out: fairness says that not all  *)
(* do.                                                                     *)
PollAnswer(k) ==
  /\ PollStep(k, "answered", NoPoll)
  /\ shown' = poll[k].state
  /\ UNCHANGED <<tab, mount, busy, cards, op, alive, chain, faults>>
-----------------------------------------------------------------------------
(* THE HANDLERS                                                            *)

Handling(i, from, fields) ==
  /\ Step(i, from, fields)
  /\ UNCHANGED <<view, poll, alive, chain, faults>>

(* perpChat: interprets the message and has the policy judge the plan.     *)
Chat(i) ==
  /\ op[i].pc = "chat"
  /\ \E b \in Balances, rising \in BOOLEAN :
       LET s == [balance |-> b, rising |-> rising,
                 maxLeverage |-> MaxLeverage]
       IN  \E r \in Interpretations(op[i].text, s, Answers) :
             Handling(i, "chat", [pc |-> "answered", text |-> None,
               plan |-> IF r.kind = "propose"
                           /\ Allowed(r.plan, Limits, b, Cardinality(book))
                        THEN r.plan ELSE None])

(* perpOpen checks the plan once more.                                     *)
Check(i) ==
  /\ op[i].pc = "check"
  /\ \E b \in Balances :
       Handling(i, "check",
         [pc |-> IF Allowed(op[i].plan, Limits, b, Cardinality(book))
                 THEN "slot" ELSE "failed"])

(* The slot: the nonce and, to open, the number of the next position.      *)
ReadSlot(i) ==
  Handling(i, "slot", [pc |-> "sign", nonce |-> nonce,
    seq |-> IF op[i].kind = "open" THEN count ELSE op[i].seq])

(* A connection to the daemon, refused when there is none.                 *)
Connect(i) ==
  Handling(i, "sign", [pc |-> IF alive THEN "signing" ELSE "failed"])

(* Signed, staged in an account of its own, and sent.                      *)
SignAndSend(i) ==
  alive /\ Handling(i, "signing", [pc |-> "sent", sent |-> TRUE])

(* The daemon died with the request in its hands: the connection is reset, *)
(* or it just ends, which the client does not listen for.                  *)
Orphaned(i) ==
  ~alive /\ \E how \in {"failed", "hung"} :
    Handling(i, "signing", [pc |-> how])

(* What the program requires of the slot; for other reasons it may refuse  *)
(* as well.                                                                *)
CurrentSlot(i) ==
  /\ op[i].nonce = nonce
  /\ op[i].kind = "open" => op[i].seq = count
  /\ op[i].kind = "close" => \E p \in book : p.seq = op[i].seq

(* Executes, under the eyes of the client or after it has given up.        *)
Land(i) ==
  /\ op[i].sent /\ op[i].effect = None /\ CurrentSlot(i)
  /\ op[i].pc \in {"sent", "failed", "over"}
  /\ op' = [op EXCEPT ![i] = [op[i] EXCEPT !.effect = op[i].seq,
              !.pc = IF op[i].pc = "sent" THEN "read" ELSE op[i].pc]]
  /\ nonce' = nonce + 1
  /\ \/ op[i].kind = "open" /\ count' = count + 1
        /\ book' = book \cup {[seq |-> count, plan |-> op[i].plan]}
     \/ op[i].kind = "close" /\ UNCHANGED count
        /\ book' = {p \in book : p.seq # op[i].seq}
  /\ UNCHANGED <<view, poll, alive, faults>>

(* Fault: a transaction is taken for confirmed without its having landed.  *)
Unwatched(i) == Handling(i, "sent", [pc |-> "read"])

(* Refused, or no confirmation in time: the handler throws.                *)
Unconfirmed(i) == Handling(i, "sent", [pc |-> "failed"])

(* The state that goes with the answer, in the two parts of perpState.     *)
ReadTrader(i) ==
  Handling(i, "read", [pc |-> "positions", state |-> TraderRead])

Answer(i) ==
  /\ op[i].state # None
  /\ Handling(i, "positions", [pc |-> "answered",
       state |-> [op[i].state EXCEPT !.book = book]])

(* Any await may throw, those after the transaction too.                   *)
Fails(i) ==
  /\ op[i].pc \in {"chat", "check", "slot", "sign", "signing", "read",
                   "positions"}
  /\ faults < MaxFaults
  /\ op' = [op EXCEPT ![i] = [op[i] EXCEPT !.pc = "failed", !.plan =
              IF op[i].kind = "chat" THEN None ELSE op[i].plan,
              !.state = None, !.text = None]]
  /\ faults' = faults + 1
  /\ UNCHANGED <<view, poll, alive, chain>>

DaemonDies ==
  /\ alive /\ faults < MaxFaults
  /\ alive' = FALSE /\ faults' = faults + 1
  /\ UNCHANGED <<view, op, poll, chain>>

(* The keeper closes a position: no signature, no nonce.                   *)
KeeperCloses ==
  /\ \E p \in book : book' = book \ {p}
  /\ UNCHANGED <<view, op, poll, alive, nonce, count, faults>>
-----------------------------------------------------------------------------
Handler(i) ==
  \/ Chat(i) \/ Check(i) \/ ReadSlot(i)
  \/ Connect(i) \/ SignAndSend(i) \/ Orphaned(i) \/ Unconfirmed(i)
  \/ ReadTrader(i) \/ Answer(i) \/ Receive(i)

Polling(k) ==
  Poll(k) \/ PollPositions(k) \/ PollAnswer(k)

Next ==
  \/ \E i \in Ops : \/ Send(i) \/ Approve(i) \/ Close(i)
                    \/ Handler(i) \/ Land(i) \/ Fails(i)
  \/ \E k \in Slots : Polling(k)
  \/ Leave \/ Return \/ DaemonDies \/ KeeperCloses

(* Awaits return or throw, answers arrive, the interval fires.             *)
Fairness ==
  /\ \A i \in Ops : WF_vars(Handler(i))
  /\ \A k \in Slots : WF_vars(Polling(k))

Spec == Init /\ [][Next]_vars /\ Fairness
-----------------------------------------------------------------------------
(* PROPERTIES                                                              *)

(* What the view says of a click is true of that click's own transaction:  *)
(* "position #s opened" and "closed" that it executed, for position s,     *)
(* with whatever else was under way, and "rejected" that it did not and    *)
(* will not, unless it had been sent (approve and close of Perp.tsx, the   *)
(* answers of perpOpen and perpClose).                                     *)
AnswersAreTrue == \A i \in Ops :
  /\ op[i].said \in {"open", "close"} => op[i].effect = op[i].seq
  /\ op[i].said = "rejected" /\ op[i].effect # None => op[i].sent

(* The view becomes idle again after every click, or a request of its own  *)
(* hangs in a signer that died while it had it (busy of Perp.tsx, request  *)
(* of signer/client.ts).                                                   *)
Hung == \E i \in Ops : op[i].pc = "hung" /\ Mine(op[i])

OperationsEnd == busy ~> (~busy \/ Hung)

(* Whatever failed, overtook or was dropped, the view comes to show the    *)
(* chain: also the position of an open it reported as rejected, or that    *)
(* an earlier view had asked for (refresh of Perp.tsx).                    *)
DisplayConverges == <>[](tab = "perps" => shown = ChainState)
=============================================================================
