------------------------- MODULE PorstWalletProofs -------------------------
(***************************************************************************)
(* Theorems about the SOL wallet, for any number of wallets, amounts,      *)
(* chunks and epochs: its counters are the ledger of a many-time key, and  *)
(* lamports leave a vault only as one signed intent says.                  *)
(***************************************************************************)
EXTENDS PorstWallet, TLAPS

(* The inductive invariant.  What a buffer holds is a piece of something   *)
(* that was signed, and what was executed was signed; a wallet that was    *)
(* not created has executed nothing, since its creation resets it.         *)
StateTypes ==
  /\ wallet \in [Owners -> WalletState]
  /\ lamports \in [Recipients -> Nat]
  /\ buffer \in [Buffers -> [Chunks -> Pieces(signed)]]
  /\ signed \subseteq Intents
  /\ spent \in [Owners -> Seq(signed)]
  /\ toppedUp \in 0 .. MaxToppedUp

Counts(o) ==
  /\ wallet[o].xmss_root = KeyOf[o]
  /\ wallet[o].nonce = Len(spent[o])
  /\ wallet[o].nonce = wallet[o].epoch * SigningCapacity + wallet[o].used
  /\ wallet[o].epoch = NumEpochs => wallet[o].used = 0
  /\ ~wallet[o].live => spent[o] = << >>

WalletInv == StateTypes /\ \A o \in Owners : Counts(o)

LEMMA InvInit == Init => WalletInv
  <1> SUFFICES ASSUME Init PROVE WalletInv
    OBVIOUS
  <1>1. wallet \in [Owners -> WalletState]
    BY WalletAssumption DEF Init, WalletState
  <1>2. buffer \in [Buffers -> [Chunks -> Pieces(signed)]]
    BY DEF Init, BufferInit, Pieces
  <1>3. spent \in [Owners -> Seq(signed)]
    BY DEF Init
  <1>4. ASSUME NEW o \in Owners PROVE Counts(o)
    BY WalletAssumption DEF Init, Counts
  <1> QED
    BY <1>1, <1>2, <1>3, <1>4, WalletAssumption DEF Init, WalletInv, StateTypes

(* The signing state after one more signature, while an epoch is left.     *)
LEMMA AdvanceCounts ==
  ASSUME NEW w \in WalletState, w.epoch < NumEpochs,
         w.nonce = w.epoch * SigningCapacity + w.used
  PROVE  LET new == AdvanceSigning(w)
         IN  /\ new \in WalletState
             /\ new.live = w.live /\ new.xmss_root = w.xmss_root
             /\ new.nonce = w.nonce + 1
             /\ new.nonce = new.epoch * SigningCapacity + new.used
             /\ new.epoch = NumEpochs => new.used = 0
  <1>1. /\ w.nonce \in Nat /\ w.epoch \in Nat /\ w.used \in Nat
        /\ w.used < SigningCapacity
        /\ NumEpochs \in Nat /\ SigningCapacity \in Nat \ {0}
    BY WalletAssumption DEF WalletState
  <1>2. CASE w.used + 1 >= SigningCapacity
    <2>1. (w.epoch + 1) * SigningCapacity
            = w.epoch * SigningCapacity + SigningCapacity
      BY <1>1
    <2>2. AdvanceSigning(w)
            = [w EXCEPT !.nonce = w.nonce + 1, !.used = 0,
                        !.epoch = w.epoch + 1]
      BY <1>2 DEF AdvanceSigning
    <2>3. /\ w.nonce + 1 \in Nat /\ 0 \in 0 .. SigningCapacity - 1
          /\ w.epoch + 1 \in 0 .. NumEpochs
      BY <1>1
    <2>4. AdvanceSigning(w) \in WalletState
      BY <2>2, <2>3 DEF WalletState
    <2> QED
      BY <1>1, <1>2, <2>1, <2>2, <2>4 DEF WalletState
  <1>3. CASE ~(w.used + 1 >= SigningCapacity)
    <2>1. AdvanceSigning(w)
            = [w EXCEPT !.nonce = w.nonce + 1, !.used = w.used + 1]
      BY <1>3 DEF AdvanceSigning
    <2>2. w.nonce + 1 \in Nat /\ w.used + 1 \in 0 .. SigningCapacity - 1
      BY <1>1, <1>3
    <2>3. AdvanceSigning(w) \in WalletState
      BY <2>1, <2>2 DEF WalletState
    <2> QED
      BY <1>1, <2>1, <2>3 DEF WalletState
  <1> QED
    BY <1>2, <1>3

(* The intent of the transfer that a wallet's state and the arguments of   *)
(* the instruction name.                                                   *)
Named(o, recipient, amount) ==
  [root |-> wallet[o].xmss_root, epoch |-> wallet[o].epoch,
   nonce |-> wallet[o].nonce, recipient |-> recipient, amount |-> amount]

(* A buffer that holds a signature of an intent tells which, and that it   *)
(* was signed.                                                             *)
LEMMA BufferTells ==
  ASSUME StateTypes, NEW b \in Buffers, NEW i, Holds(b, i)
  PROVE  IntentIn(b) = i /\ i \in signed
  <1>1. 1 \in Chunks
    BY BufferAssumption DEF Chunks
  <1>2. buffer[b][1] = Piece(i, 1) /\ buffer[b][1] \in Pieces(signed)
    BY <1>1 DEF Holds, StateTypes
  <1>3. IntentIn(b) = i
    BY <1>2 DEF IntentIn, Piece
  <1>4. Piece(i, 1) # Junk
    BY DEF Piece, Junk
  <1>5. PICK j \in signed, n \in Chunks : Piece(i, 1) = Piece(j, n)
    BY <1>2, <1>4 DEF Pieces
  <1>6. i = j
    BY <1>5 DEF Piece
  <1> QED
    BY <1>3, <1>5, <1>6

(* What a transfer that executes has been authorised by.                   *)
LEMMA TransferIntent ==
  ASSUME StateTypes, NEW o \in Owners, Counts(o), NEW recipient \in Recipients,
         NEW amount \in Amounts, NEW b \in Buffers,
         ExecuteTransfer(o, recipient, amount, b)
  PROVE  /\ Named(o, recipient, amount) \in signed
         /\ spent' = [spent EXCEPT ![o] =
                        Append(@, Named(o, recipient, amount))]
  BY BufferTells DEF ExecuteTransfer, Authorised, Named

(* The vault pays, the recipient is paid, and both may be the same.        *)
LEMMA TransferBalances ==
  ASSUME StateTypes, NEW o \in Owners, NEW recipient \in Recipients,
         NEW amount \in Amounts, NEW b \in Buffers,
         ExecuteTransfer(o, recipient, amount, b)
  PROVE  /\ lamports' \in [Recipients -> Nat]
         /\ \A a \in Recipients :
              lamports'[a] = lamports[a] - (IF a = o THEN amount ELSE 0)
                                 + (IF a = recipient THEN amount ELSE 0)
  <1> DEFINE paid == [lamports EXCEPT ![o] = lamports[o] - amount]
  <1>1. /\ amount \in Nat /\ o \in Recipients
        /\ lamports \in [Recipients -> Nat]
    BY WalletAssumption DEF Recipients, StateTypes
  <1>2. /\ amount <= lamports[o]
        /\ lamports' = [paid EXCEPT ![recipient] = @ + amount]
    BY DEF ExecuteTransfer
  <1>3. lamports[o] - amount \in Nat
    BY <1>1, <1>2
  <1>4. paid \in [Recipients -> Nat]
    BY <1>1, <1>3
  <1>6. paid[recipient] + amount \in Nat
    BY <1>1, <1>4
  <1>7. lamports' \in [Recipients -> Nat]
    BY <1>2, <1>4, <1>6
  <1>8. ASSUME NEW a \in Recipients
        PROVE  lamports'[a] = lamports[a] - (IF a = o THEN amount ELSE 0)
                                 + (IF a = recipient THEN amount ELSE 0)
    <2>1. paid[a] = lamports[a] - (IF a = o THEN amount ELSE 0)
      BY <1>1
    <2>2. lamports'[a] = paid[a] + (IF a = recipient THEN amount ELSE 0)
      BY <1>2, <1>4
    <2> QED
      BY <2>1, <2>2
  <1> QED
    BY <1>7, <1>8

LEMMA TransferTypes ==
  ASSUME WalletInv, NEW o \in Owners, NEW recipient \in Recipients,
         NEW amount \in Amounts, NEW b \in Buffers,
         ExecuteTransfer(o, recipient, amount, b)
  PROVE  StateTypes'
  <1>1. wallet[o] \in WalletState /\ Counts(o)
    BY DEF WalletInv, StateTypes
  <1>2. AdvanceSigning(wallet[o]) \in WalletState
    BY <1>1, AdvanceCounts DEF ExecuteTransfer, Counts
  <1>3. wallet' \in [Owners -> WalletState]
    BY <1>2 DEF ExecuteTransfer, WalletInv, StateTypes
  <1>4. lamports' \in [Recipients -> Nat]
    BY TransferBalances DEF WalletInv
  <1>5. spent' \in [Owners -> Seq(signed)]
    <2> DEFINE i == Named(o, recipient, amount)
    <2>1. /\ i \in signed /\ spent' = [spent EXCEPT ![o] = Append(@, i)]
          /\ spent \in [Owners -> Seq(signed)]
      BY <1>1, TransferIntent DEF WalletInv, StateTypes
    <2> HIDE DEF i
    <2>2. Append(spent[o], i) \in Seq(signed)
      BY <2>1
    <2> QED
      BY <2>1, <2>2
  <1>6. buffer' = buffer /\ signed' = signed /\ toppedUp' = toppedUp
    BY DEF ExecuteTransfer
  <1> QED
    BY <1>3, <1>4, <1>5, <1>6 DEF WalletInv, StateTypes

LEMMA TransferCounts ==
  ASSUME WalletInv, NEW o \in Owners, NEW recipient \in Recipients,
         NEW amount \in Amounts, NEW b \in Buffers,
         ExecuteTransfer(o, recipient, amount, b), NEW p \in Owners
  PROVE  Counts(p)'
  <1>1. /\ wallet[o] \in WalletState /\ Counts(o) /\ Counts(p)
        /\ wallet \in [Owners -> WalletState] /\ spent \in [Owners -> Seq(signed)]
    BY DEF WalletInv, StateTypes
  <1>2. /\ wallet' = [wallet EXCEPT ![o] = AdvanceSigning(wallet[o])]
        /\ wallet[o].epoch < NumEpochs /\ wallet[o].live
    BY DEF ExecuteTransfer
  <1>3. CASE p = o
    <2> DEFINE new == AdvanceSigning(wallet[o])
    <2>1. wallet'[p] = new
      BY <1>1, <1>2, <1>3
    <2>2. /\ new.live = wallet[o].live
          /\ new.xmss_root = wallet[o].xmss_root
          /\ new.nonce = wallet[o].nonce + 1
          /\ new.nonce = new.epoch * SigningCapacity + new.used
          /\ new.epoch = NumEpochs => new.used = 0
      BY <1>1, <1>2, AdvanceCounts DEF Counts
    <2>3. Len(spent'[p]) = Len(spent[p]) + 1
      BY <1>1, <1>3, TransferIntent DEF WalletInv
    <2> HIDE DEF new
    <2> QED
      BY <1>1, <1>2, <1>3, <2>1, <2>2, <2>3 DEF Counts
  <1>4. CASE p # o
    <2>1. wallet'[p] = wallet[p] /\ spent'[p] = spent[p]
      BY <1>1, <1>2, <1>4, TransferIntent DEF WalletInv
    <2> QED
      BY <1>1, <2>1 DEF Counts
  <1> QED
    BY <1>3, <1>4

(* Pieces of what was signed stay so when more is signed, and Counts only  *)
(* looks at a wallet and its history.                                      *)
LEMMA MoreSigned ==
  ASSUME StateTypes, NEW S, signed \subseteq S
  PROVE  /\ buffer \in [Buffers -> [Chunks -> Pieces(S)]]
         /\ spent \in [Owners -> Seq(S)]
  <1>1. Pieces(signed) \subseteq Pieces(S)
    BY DEF Pieces
  <1>2. buffer \in [Buffers -> [Chunks -> Pieces(S)]]
    BY <1>1 DEF StateTypes
  <1>3. ASSUME NEW s \in Seq(signed) PROVE s \in Seq(S)
    <2>1. s \in [1 .. Len(s) -> S] /\ Len(s) \in Nat
      OBVIOUS
    <2> QED
      BY <2>1
  <1> QED
    BY <1>2, <1>3 DEF StateTypes

LEMMA CountsKept ==
  ASSUME NEW o \in Owners, Counts(o), UNCHANGED <<wallet, spent>>
  PROVE  Counts(o)'
  BY DEF Counts

(* The slots a client may ask for are slots of an intent.                  *)
LEMMA SlotTypes ==
  ASSUME StateTypes, NEW o \in Owners, NEW slot \in SlotsRead(o)
  PROVE  slot.epoch \in Nat /\ slot.nonce \in Nat
  <1>1. CASE slot = Slot(wallet[o])
    BY <1>1, WalletAssumption DEF Slot, StateTypes, WalletState
  <1>2. CASE \E n \in 1 .. Len(spent[o]) : slot = Slot(spent[o][n])
    <2>1. PICK n \in 1 .. Len(spent[o]) : slot = Slot(spent[o][n])
      BY <1>2
    <2>2. spent[o] \in Seq(signed)
      BY DEF StateTypes
    <2>3. spent[o][n] \in Intents
      BY <2>2 DEF StateTypes
    <2> QED
      BY <2>1, <2>3 DEF Slot, Intents
  <1> QED
    BY <1>1, <1>2 DEF SlotsRead

LEMMA SignTypes ==
  ASSUME StateTypes, NEW o \in Owners, NEW recipient \in Recipients,
         NEW amount \in Amounts, NEW slot \in SlotsRead(o),
         SignTransfer(o, slot, recipient, amount)
  PROVE  StateTypes'
  <1> DEFINE i == [root |-> KeyOf[o], epoch |-> slot.epoch,
                   nonce |-> slot.nonce, recipient |-> recipient,
                   amount |-> amount]
  <1>1. i \in Intents
    BY SlotTypes, WalletAssumption DEF Intents
  <1>2. signed' = signed \cup {i}
    BY DEF SignTransfer
  <1> HIDE DEF i
  <1>3. signed' \subseteq Intents /\ signed \subseteq signed'
    BY <1>1, <1>2 DEF StateTypes
  <1>4. /\ buffer \in [Buffers -> [Chunks -> Pieces(signed')]]
        /\ spent \in [Owners -> Seq(signed')]
    BY <1>3, MoreSigned
  <1>5. UNCHANGED <<wallet, lamports, buffer, spent, toppedUp>>
    BY DEF SignTransfer
  <1> QED
    BY <1>3, <1>4, <1>5 DEF StateTypes, Pieces

LEMMA StageTypes ==
  ASSUME StateTypes, Stage(signed),
         UNCHANGED <<wallet, lamports, signed, spent, toppedUp>>
  PROVE  StateTypes'
  <1>1. PICK b \in Buffers, n \in Chunks :
          \E piece \in Pieces(signed) : WriteBuffer(b, n, piece)
    BY DEF Stage, Pieces
  <1>2. PICK piece \in Pieces(signed) : WriteBuffer(b, n, piece)
    BY <1>1
  <1>3. buffer' \in [Buffers -> [Chunks -> Pieces(signed)]]
    BY <1>2 DEF StateTypes, WriteBuffer
  <1> QED
    BY <1>3 DEF StateTypes, Pieces

LEMMA CreateInv ==
  ASSUME WalletInv, NEW o \in Owners, CreateWallet(o)
  PROVE  WalletInv'
  <1> DEFINE new == [live |-> TRUE, xmss_root |-> KeyOf[o], epoch |-> 0,
                     used |-> 0, nonce |-> 0]
  <1>1. new \in WalletState
    BY WalletAssumption DEF WalletState
  <1>2. /\ wallet' = [wallet EXCEPT ![o] = new]
        /\ UNCHANGED <<lamports, buffer, signed, spent, toppedUp>>
    BY DEF CreateWallet
  <1>3. StateTypes'
    BY <1>1, <1>2 DEF WalletInv, StateTypes, Pieces
  <1>4. spent[o] = << >>
    BY DEF CreateWallet, WalletInv, Counts
  <1>5. ASSUME NEW p \in Owners PROVE Counts(p)'
    <2>1. CASE p = o
      <3>1. wallet'[p] = new /\ spent'[p] = << >>
        BY <1>2, <1>4, <2>1 DEF WalletInv, StateTypes
      <3> QED
        BY <2>1, <3>1, WalletAssumption DEF Counts
    <2>2. CASE p # o
      BY <1>2, <2>2 DEF WalletInv, StateTypes, Counts
    <2> QED
      BY <2>1, <2>2
  <1> QED
    BY <1>3, <1>5 DEF WalletInv

LEMMA FundInv ==
  ASSUME WalletInv, NEW o \in Owners, NEW amount \in Amounts,
         FundVault(o, amount)
  PROVE  WalletInv'
  <1>1. amount \in Nat /\ o \in Recipients
    BY WalletAssumption DEF Recipients
  <1>2. lamports' \in [Recipients -> Nat]
    BY <1>1 DEF FundVault, WalletInv, StateTypes
  <1>3. toppedUp' \in 0 .. MaxToppedUp
    BY <1>1, WalletAssumption DEF FundVault, WalletInv, StateTypes
  <1>4. UNCHANGED <<wallet, buffer, signed, spent>>
    BY DEF FundVault
  <1>5. StateTypes'
    BY <1>2, <1>3, <1>4 DEF WalletInv, StateTypes, Pieces
  <1>6. \A p \in Owners : Counts(p)'
    BY <1>4, CountsKept DEF WalletInv
  <1> QED
    BY <1>5, <1>6 DEF WalletInv

LEMMA InvNext == WalletInv /\ [Next]_vars => WalletInv'
  <1> SUFFICES ASSUME WalletInv, [Next]_vars PROVE WalletInv'
    OBVIOUS
  <1>1. CASE \E o \in Owners : CreateWallet(o)
    BY <1>1, CreateInv
  <1>2. CASE \E o \in Owners, amount \in Amounts : FundVault(o, amount)
    BY <1>2, FundInv
  <1>3. CASE Sign
    <2>1. PICK o \in Owners, recipient \in Recipients, amount \in Amounts :
            \E slot \in SlotsRead(o) : SignTransfer(o, slot, recipient, amount)
      BY <1>3 DEF Sign
    <2>2. PICK slot \in SlotsRead(o) : SignTransfer(o, slot, recipient, amount)
      BY <2>1
    <2>3. StateTypes'
      BY <2>2, SignTypes DEF WalletInv
    <2>4. \A p \in Owners : Counts(p)'
      BY <2>2, CountsKept DEF WalletInv, SignTransfer
    <2> QED
      BY <2>3, <2>4 DEF WalletInv
  <1>4. CASE Stage(signed) /\ UNCHANGED <<wallet, lamports, signed, spent, toppedUp>>
    <2>1. StateTypes'
      BY <1>4, StageTypes DEF WalletInv
    <2>2. \A p \in Owners : Counts(p)'
      BY <1>4, CountsKept DEF WalletInv
    <2> QED
      BY <2>1, <2>2 DEF WalletInv
  <1>5. CASE Submit
    BY <1>5, TransferTypes, TransferCounts DEF Submit, WalletInv
  <1>6. CASE UNCHANGED vars
    <2>1. StateTypes'
      BY <1>6 DEF vars, WalletInv, StateTypes, Pieces
    <2>2. \A p \in Owners : Counts(p)'
      BY <1>6, CountsKept DEF vars, WalletInv
    <2> QED
      BY <2>1, <2>2 DEF WalletInv
  <1> QED
    BY <1>1, <1>2, <1>3, <1>4, <1>5, <1>6 DEF Next

LEMMA InvHolds == Spec => []WalletInv
  BY InvInit, InvNext, PTL DEF Spec
-----------------------------------------------------------------------------
(* Type correctness of the wallet program and its client.                  *)
LEMMA InvTypes == WalletInv => TypeOK
  <1> SUFFICES ASSUME WalletInv PROVE TypeOK
    OBVIOUS
  <1>1. BuffersHold(signed)
    BY DEF BuffersHold, WalletInv, StateTypes
  <1>2. \A o \in Owners : \A n \in 1 .. Len(spent[o]) : spent[o][n] \in signed
    <2> TAKE o \in Owners
    <2>1. spent[o] \in Seq(signed)
      BY DEF WalletInv, StateTypes
    <2> QED
      BY <2>1
  <1> QED
    BY <1>1, <1>2 DEF TypeOK, WalletInv, StateTypes

(* Every wallet, buffer and balance keeps its type, and what a vault paid  *)
(* out was signed (porst_wallet).                                          *)
THEOREM WalletTypeCorrect == Spec => []TypeOK
  BY InvHolds, InvTypes, PTL

LEMMA InvLedger == WalletInv => LedgerMatches
  <1> SUFFICES ASSUME WalletInv, NEW o \in Owners
               PROVE  /\ wallet[o].nonce = Len(spent[o])
                      /\ wallet[o].nonce = wallet[o].epoch * SigningCapacity
                                             + wallet[o].used
                      /\ wallet[o].nonce <= NumEpochs * SigningCapacity
    BY DEF LedgerMatches
  <1> DEFINE e == wallet[o].epoch
             u == wallet[o].used
  <1>1. Counts(o) /\ wallet[o] \in WalletState
    BY DEF WalletInv, StateTypes
  <1>2. /\ e \in Nat /\ u \in Nat /\ e <= NumEpochs /\ u < SigningCapacity
        /\ NumEpochs \in Nat /\ SigningCapacity \in Nat
    BY <1>1, WalletAssumption DEF WalletState
  <1>3. wallet[o].nonce = e * SigningCapacity + u /\ (e = NumEpochs => u = 0)
    BY <1>1 DEF Counts
  <1> HIDE DEF e, u
  <1>4. e * SigningCapacity + u <= NumEpochs * SigningCapacity
    <2>1. CASE e = NumEpochs
      BY <1>2, <1>3, <2>1
    <2>2. CASE e < NumEpochs
      <3>1. (e + 1) * SigningCapacity = e * SigningCapacity + SigningCapacity
        BY <1>2
      <3>2. (e + 1) * SigningCapacity <= NumEpochs * SigningCapacity
        BY <1>2, <2>2
      <3>3. /\ e * SigningCapacity \in Nat /\ NumEpochs * SigningCapacity \in Nat
            /\ (e + 1) * SigningCapacity \in Nat
        BY <1>2
      <3> QED
        BY <1>2, <3>1, <3>2, <3>3
    <2> QED
      BY <1>2, <2>1, <2>2
  <1> QED
    BY <1>1, <1>3, <1>4 DEF Counts, e, u

(* The counters of every wallet are the length of its history, split by    *)
(* the capacity of an epoch, and never exceed the lifetime of its key      *)
(* (execute_transfer).                                                     *)
THEOREM LedgerHolds == Spec => []LedgerMatches
  BY InvHolds, InvLedger, PTL
-----------------------------------------------------------------------------
(* Every step moves lamports as one signed intent says, or only adds some. *)
LEMMA StepTransfersAsSigned ==
  WalletInv /\ [Next]_vars => [TransferredAsSigned]_lamports
  <1> SUFFICES ASSUME WalletInv, [Next]_vars, lamports' # lamports
               PROVE  TransferredAsSigned
    OBVIOUS
  <1>1. CASE \E o \in Owners, amount \in Amounts : FundVault(o, amount)
    <2>1. PICK o \in Owners, amount \in Amounts : FundVault(o, amount)
      BY <1>1
    <2>2. amount \in Nat /\ lamports \in [Recipients -> Nat]
      BY WalletAssumption DEF WalletInv, StateTypes
    <2>3. lamports' = [lamports EXCEPT ![o] = @ + amount]
      BY <2>1 DEF FundVault
    <2>4. \A a \in Recipients : lamports'[a] >= lamports[a]
      BY <2>2, <2>3
    <2> QED
      BY <2>4 DEF TransferredAsSigned
  <1>2. CASE Submit
    <2>1. PICK o \in Owners, recipient \in Recipients, amount \in Amounts,
               b \in Buffers : ExecuteTransfer(o, recipient, amount, b)
      BY <1>2 DEF Submit
    <2> DEFINE i == Named(o, recipient, amount)
    <2>2. i \in signed
      BY <2>1, TransferIntent DEF WalletInv
    <2>3. /\ i.root = KeyOf[o] /\ i.nonce = wallet[o].nonce
          /\ i.epoch = wallet[o].epoch
      BY DEF Named, WalletInv, Counts
    <2>4. Paid(i, o)
      <3>1. i.amount = amount /\ i.recipient = recipient
        BY DEF Named
      <3>2. \A a \in Recipients :
              lamports'[a] = lamports[a] - (IF a = o THEN amount ELSE 0)
                                 + (IF a = recipient THEN amount ELSE 0)
        BY <2>1, TransferBalances DEF WalletInv
      <3> QED
        BY <3>1, <3>2 DEF Paid
    <2> QED
      BY <2>2, <2>3, <2>4 DEF TransferredAsSigned
  <1>3. ~Sign /\ ~(\E o \in Owners : CreateWallet(o)) /\ ~UNCHANGED vars
    BY DEF Sign, SignTransfer, CreateWallet, vars
  <1> QED
    BY <1>1, <1>2, <1>3 DEF Next

(* Lamports leave a vault only as an intent signed for the wallet's key,   *)
(* epoch and nonce says, to its recipient and by its amount                *)
(* (execute_transfer).                                                     *)
THEOREM TransfersFollowSignatures == Spec => TransfersAsSigned
  <1>1. WalletInv /\ [Next]_vars => [TransferredAsSigned]_lamports
    BY StepTransfersAsSigned
  <1> QED
    BY <1>1, InvHolds, PTL DEF Spec, TransfersAsSigned
-----------------------------------------------------------------------------
(* Refinement: the wallet's counters implement the list of executed        *)
(* intents.                                                                *)

LEMMA QuotientAndRest ==
  ASSUME NEW n \in Nat, NEW c \in Nat \ {0}, NEW q \in Nat, NEW r \in Nat,
         n = q * c + r, r < c
  PROVE  n \div c = q
  OBVIOUS

LEMMA InitRefines == Init => Ledger!Init
  BY DEF Init, Ledger!Init

(* A transfer is the execution of the intent it was authorised by, at the  *)
(* slot that the number of transfers before it gives.                      *)
LEMMA TransferRefines ==
  ASSUME WalletInv, NEW o \in Owners, NEW recipient \in Recipients,
         NEW amount \in Amounts, NEW b \in Buffers,
         ExecuteTransfer(o, recipient, amount, b)
  PROVE  \E i \in signed : Ledger!Execute(o, i)
  <1> DEFINE i == Named(o, recipient, amount)
             e == wallet[o].epoch
             u == wallet[o].used
             n == wallet[o].nonce
  <1>1. /\ i \in signed /\ spent' = [spent EXCEPT ![o] = Append(@, i)]
        /\ signed' = signed
    BY TransferIntent DEF WalletInv, ExecuteTransfer
  <1>2. /\ i.root = KeyOf[o] /\ i.nonce = n /\ i.epoch = e
        /\ n = Len(spent[o]) /\ n = e * SigningCapacity + u
    BY DEF Named, WalletInv, Counts
  <1>3. /\ e \in Nat /\ u \in Nat /\ n \in Nat /\ u < SigningCapacity
        /\ e < NumEpochs
        /\ NumEpochs \in Nat /\ SigningCapacity \in Nat \ {0}
    <2>1. wallet[o] \in WalletState
      BY DEF WalletInv, StateTypes
    <2> QED
      BY <2>1, WalletAssumption DEF WalletState, ExecuteTransfer
  <1> HIDE DEF i, e, u, n
  <1>4. n \div SigningCapacity = e
    BY <1>2, <1>3, QuotientAndRest
  <1>5. n < NumEpochs * SigningCapacity
    <2>1. (e + 1) * SigningCapacity = e * SigningCapacity + SigningCapacity
      BY <1>3
    <2>2. (e + 1) * SigningCapacity <= NumEpochs * SigningCapacity
      BY <1>3
    <2>3. /\ e * SigningCapacity \in Nat /\ NumEpochs * SigningCapacity \in Nat
          /\ (e + 1) * SigningCapacity \in Nat
      BY <1>3
    <2> QED
      BY <1>2, <1>3, <2>1, <2>2, <2>3
  <1> QED
    BY <1>1, <1>2, <1>4, <1>5 DEF Ledger!Execute, Ledger!Lifetime

LEMMA NextRefines ==
  WalletInv /\ [Next]_vars => [Ledger!Next]_<<signed, spent>>
  <1> SUFFICES ASSUME WalletInv, [Next]_vars
               PROVE  Ledger!Next \/ UNCHANGED <<signed, spent>>
    OBVIOUS
  <1>1. CASE Sign
    BY <1>1 DEF Sign, SignTransfer, Ledger!Next, Ledger!Sign
  <1>2. CASE Submit
    BY <1>2, TransferRefines DEF Submit, Ledger!Next
  <1>3. CASE \/ \E o \in Owners : CreateWallet(o)
             \/ \E o \in Owners, amount \in Amounts : FundVault(o, amount)
             \/ Stage(signed) /\ UNCHANGED <<wallet, lamports, signed, spent, toppedUp>>
             \/ UNCHANGED vars
    BY <1>3 DEF CreateWallet, FundVault, vars
  <1> QED
    BY <1>1, <1>2, <1>3 DEF Next

(* The wallet implements the ledger of a many-time key: whatever clients   *)
(* sign, stage, resubmit or delay, the n-th transfer out of a vault is one *)
(* signed for nonce n under the key of epoch n \div SigningCapacity, and   *)
(* there are never more than the key can bear (execute_transfer).          *)
THEOREM WalletImplementsLedger == Spec => ImplementsLedger
  <1>1. Init => Ledger!Init
    BY InitRefines
  <1>2. WalletInv /\ [Next]_vars => [Ledger!Next]_<<signed, spent>>
    BY NextRefines
  <1> QED
    BY <1>1, <1>2, InvHolds, PTL DEF Spec, ImplementsLedger, Ledger!Spec
=============================================================================
