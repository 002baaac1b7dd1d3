--------------------------- MODULE FewTimeLedger ---------------------------
(***************************************************************************)
(* What an account guarded by a many-time key promises, whatever it is     *)
(* used for (porst_wallet, porst_agent, porst_perp): its owner's intents   *)
(* execute one after another, the n-th of them one signed for nonce n      *)
(* under the key of epoch n \div SigningCapacity, and there are never more *)
(* than the key can bear.  The programs keep three counters for it; here   *)
(* is nothing but the list of what was executed.                           *)
(***************************************************************************)
EXTENDS Naturals, Sequences

CONSTANTS
  Accounts,         \* the accounts
  KeyOf,            \* the key each account is created with
  NumEpochs,        \* NUM_EPOCHS
  SigningCapacity   \* SIGNING_CAPACITY

VARIABLES
  signed,   \* the intents that have been signed
  ledger    \* [Accounts -> the intents executed, in order]

Lifetime == NumEpochs * SigningCapacity

Init ==
  /\ signed = {}
  /\ ledger = [a \in Accounts |-> << >>]

(* A signature may be asked for at any slot, and never be used.            *)
Sign ==
  /\ signed \subseteq signed'
  /\ UNCHANGED ledger

Execute(a, i) ==
  LET n == Len(ledger[a])
  IN
  /\ n < Lifetime
  /\ i.root = KeyOf[a]
  /\ i.nonce = n /\ i.epoch = n \div SigningCapacity
  /\ ledger' = [ledger EXCEPT ![a] = Append(@, i)]
  /\ UNCHANGED signed

Next == Sign \/ \E a \in Accounts, i \in signed : Execute(a, i)

Spec == Init /\ [][Next]_<<signed, ledger>>
=============================================================================
