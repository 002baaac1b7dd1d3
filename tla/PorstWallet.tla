---------------------------- MODULE PorstWallet ----------------------------
(***************************************************************************)
(* The SOL wallet (programs/porst_wallet/src/lib.rs) and the client that   *)
(* drives it (app/porstWallet.ts).  A wallet holds lamports in a vault; a  *)
(* transfer out of it is authorised by one many-time signature over the    *)
(* wallet's key, signing state, recipient and amount.  Anybody may submit  *)
(* the transfer, naming the buffer that holds the signature.               *)
(***************************************************************************)
EXTENDS SignatureBuffer, FiniteSets, Sequences

CONSTANTS
  Owners,           \* authorities, one wallet and one vault each
  Strangers,        \* system accounts that belong to no wallet
  Roots,            \* XMSS public keys
  KeyOf,            \* the key each wallet is created with
  NumEpochs,        \* NUM_EPOCHS
  SigningCapacity,  \* SIGNING_CAPACITY
  Amounts,          \* lamports transfers and top-ups move
  RentMinimum,      \* lamports below which an account may not be left
  MaxSigned,        \* bound: signatures produced
  MaxToppedUp       \* bound: lamports put into vaults

ASSUME WalletAssumption ==
  /\ NumEpochs \in Nat \ {0} /\ SigningCapacity \in Nat \ {0}
  /\ KeyOf \in [Owners -> Roots]
  /\ Amounts \subseteq Nat
  /\ RentMinimum \in Nat /\ MaxToppedUp \in Nat
  /\ Owners \cap Strangers = {}

VARIABLES
  wallet,     \* [Owners -> Wallet account]
  lamports,   \* [Owners \cup Strangers -> balance], an owner's being its vault's
  signed,     \* intents the signer has put its name to
  spent,      \* history: [Owners -> the intents the program executed, in order]
  toppedUp    \* bound counter: lamports put into vaults

vars == <<wallet, lamports, buffer, signed, spent, toppedUp>>

Recipients == Owners \cup Strangers

WalletState ==
  [live : BOOLEAN, xmss_root : Roots, epoch : 0 .. NumEpochs,
   used : 0 .. SigningCapacity - 1, nonce : Nat]

Intents ==
  [root : Roots, epoch : Nat, nonce : Nat, recipient : Recipients,
   amount : Amounts]

TypeOK ==
  /\ wallet \in [Owners -> WalletState]
  /\ lamports \in [Recipients -> Nat]
  /\ BuffersHold(signed)
  /\ signed \subseteq Intents
  /\ \A o \in Owners : \A n \in 1 .. Len(spent[o]) : spent[o][n] \in signed
  /\ toppedUp \in 0 .. MaxToppedUp

Init ==
  /\ wallet = [o \in Owners |->
       [live |-> FALSE, xmss_root |-> KeyOf[o], epoch |-> 0, used |-> 0,
        nonce |-> 0]]
  /\ lamports = [a \in Recipients |-> 0]
  /\ BufferInit
  /\ signed = {}
  /\ spent = [o \in Owners |-> << >>]
  /\ toppedUp = 0
-----------------------------------------------------------------------------
CreateWallet(o) ==
  /\ ~wallet[o].live
  /\ wallet' = [wallet EXCEPT ![o] =
       [live |-> TRUE, xmss_root |-> KeyOf[o], epoch |-> 0, used |-> 0,
        nonce |-> 0]]
  /\ UNCHANGED <<lamports, buffer, signed, spent, toppedUp>>

(* The runtime refuses a transaction that leaves an account with lamports  *)
(* but fewer than rent asks for.                                           *)
RentPaid(x) == x = 0 \/ x >= RentMinimum

(* A vault is topped up by a plain transfer, before its wallet exists too. *)
FundVault(o, amount) ==
  /\ toppedUp + amount <= MaxToppedUp
  /\ RentPaid(lamports[o] + amount)
  /\ lamports' = [lamports EXCEPT ![o] = @ + amount]
  /\ toppedUp' = toppedUp + amount
  /\ UNCHANGED <<wallet, buffer, signed, spent>>

(* The slots a client may have read: the wallet's and those before it.     *)
Slot(x) == [epoch |-> x.epoch, nonce |-> x.nonce]

SlotsRead(o) ==
  {Slot(wallet[o])} \cup {Slot(spent[o][n]) : n \in 1 .. Len(spent[o])}

SignTransfer(o, slot, recipient, amount) ==
  /\ wallet[o].live
  /\ slot.epoch < NumEpochs
  /\ Cardinality(signed) < MaxSigned
  /\ signed' = signed \cup
       {[root |-> KeyOf[o], epoch |-> slot.epoch, nonce |-> slot.nonce,
         recipient |-> recipient, amount |-> amount]}
  /\ UNCHANGED <<wallet, lamports, buffer, spent, toppedUp>>

(* Fault: the digest leaves the recipient out.                             *)
AnyRecipient(o, recipient, amount, b) ==
  \E i \in signed :
    /\ Holds(b, i)
    /\ i.root = wallet[o].xmss_root
    /\ i.epoch = wallet[o].epoch /\ i.nonce = wallet[o].nonce
    /\ i.amount = amount

(* verify_wallet_sig accepts the buffer for the digest recomputed from the *)
(* wallet's state and the instruction's arguments.                         *)
Authorised(o, recipient, amount, b) ==
  Holds(b, [root |-> wallet[o].xmss_root, epoch |-> wallet[o].epoch,
            nonce |-> wallet[o].nonce, recipient |-> recipient,
            amount |-> amount])

(* Faults: the rollover comes one signature late, or keeps the counter.    *)
RolloverLate(w) ==
  IF w.used + 1 > SigningCapacity
  THEN [w EXCEPT !.nonce = @ + 1, !.used = 0, !.epoch = @ + 1]
  ELSE [w EXCEPT !.nonce = @ + 1, !.used = @ + 1]

RolloverKeepsUsed(w) ==
  [w EXCEPT !.nonce = @ + 1, !.used = @ + 1,
            !.epoch = IF w.used + 1 >= SigningCapacity THEN @ + 1 ELSE @]

AdvanceSigning(w) ==
  IF w.used + 1 >= SigningCapacity
  THEN [w EXCEPT !.nonce = @ + 1, !.used = 0, !.epoch = @ + 1]
  ELSE [w EXCEPT !.nonce = @ + 1, !.used = @ + 1]

ExecuteTransfer(o, recipient, amount, b) ==
  /\ wallet[o].live
  /\ wallet[o].epoch < NumEpochs
  /\ Authorised(o, recipient, amount, b)
  /\ amount <= lamports[o]
  /\ lamports' = [[lamports EXCEPT ![o] = @ - amount]
                     EXCEPT ![recipient] = @ + amount]
  /\ RentPaid(lamports'[o]) /\ RentPaid(lamports'[recipient])
  /\ wallet' = [wallet EXCEPT ![o] = AdvanceSigning(@)]
  /\ spent' = [spent EXCEPT ![o] = Append(@, IntentIn(b))]
  /\ UNCHANGED <<buffer, signed, toppedUp>>
-----------------------------------------------------------------------------
Sign ==
  \E o \in Owners, recipient \in Recipients, amount \in Amounts :
    \E slot \in SlotsRead(o) : SignTransfer(o, slot, recipient, amount)

Submit ==
  \E o \in Owners, recipient \in Recipients, amount \in Amounts,
     b \in Buffers : ExecuteTransfer(o, recipient, amount, b)

Next ==
  \/ \E o \in Owners : CreateWallet(o)
  \/ \E o \in Owners, amount \in Amounts : FundVault(o, amount)
  \/ Sign
  \/ Stage(signed) /\ UNCHANGED <<wallet, lamports, signed, spent, toppedUp>>
  \/ Submit

Spec == Init /\ [][Next]_vars
-----------------------------------------------------------------------------
(* PROPERTIES                                                              *)

(* The counters agree with what was executed: nonce is the number of       *)
(* transfers out of the vault, and epoch and used its quotient and rest by *)
(* SigningCapacity, up to exhaustion (execute_transfer).                   *)
LedgerMatches ==
  \A o \in Owners :
    LET w == wallet[o]
    IN  /\ w.nonce = Len(spent[o])
        /\ w.nonce = w.epoch * SigningCapacity + w.used
        /\ w.nonce <= NumEpochs * SigningCapacity

(* The wallet's counters implement the ledger of a many-time key: whatever *)
(* is staged, resubmitted or delayed, the n-th transfer out of a vault is  *)
(* one its key signed for nonce n in epoch n \div SigningCapacity, and the *)
(* lifetime of the key is never exceeded (execute_transfer).               *)
Ledger ==
  INSTANCE FewTimeLedger WITH Accounts <- Owners, ledger <- spent

ImplementsLedger == Ledger!Spec

(* Lamports leave a vault only as one signed intent says: the vault pays   *)
(* its amount to its recipient and no other account changes, a transfer    *)
(* into the vault itself and an emptied vault included; otherwise balances *)
(* only grow (execute_transfer).                                           *)
Paid(i, o) ==
  \A a \in Recipients :
    lamports'[a] = lamports[a] - (IF a = o THEN i.amount ELSE 0)
                               + (IF a = i.recipient THEN i.amount ELSE 0)

TransferredAsSigned ==
  \/ \A a \in Recipients : lamports'[a] >= lamports[a]
  \/ \E o \in Owners, i \in signed :
       /\ i.root = KeyOf[o] /\ i.nonce = wallet[o].nonce
       /\ i.epoch = wallet[o].epoch
       /\ Paid(i, o)

TransfersAsSigned == [][TransferredAsSigned]_lamports
=============================================================================
