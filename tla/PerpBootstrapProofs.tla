------------------------ MODULE PerpBootstrapProofs ------------------------
(***************************************************************************)
(* Restarts of the perp engine keep its market and its key and strand no   *)
(* mint without a cause, for any number of crashes, wipes and removals.    *)
(*                                                                         *)
(* The first two properties speak of a serving backend and of the files.   *)
(* What makes them inductive is what a boot under way holds in memory:     *)
(* once it has read the files, its keys are the one on disk, and if the    *)
(* cluster has the mint that was served first, that mint is the one it     *)
(* goes on with, since neither of the two ways to createUsdt is open.      *)
(***************************************************************************)
EXTENDS PerpBootstrap, FiniteSetTheorems, TLAPS

(* The key in memory is the key on disk, at every stage of a boot.         *)
KeyRead ==
  /\ pc = "keygen" => keystore = Torn
  /\ pc = "spawn" \/ Running => keystore \in Keys
  /\ Running => signerKey = keystore
  /\ Running /\ pc # "read" => xmssRoot = keystore

(* A trader account has the key on disk, and so will one whose creation is *)
(* still to land, unless that key went with the directory.                 *)
KeyOfTrader ==
  ~orphaned =>
    /\ root # Absent => keystore = root
    /\ \A tx \in late : tx.op = "createTrader" =>
         tx.key = keystore /\ keystore \in Keys

(* While the cluster has the mint served first, the environment file names *)
(* it or is being written, and a boot holds it.                            *)
HomeKept ==
  home # Absent =>
    /\ home \in mints
    /\ envFile \in {home, Torn}
    /\ pc # "createMint"
    /\ pc \in WithMint => usdtMint = home

IInv == BootTypeOK /\ KeyRead /\ KeyOfTrader /\ HomeKept

USE DEF Sends, BeforeMint, WithMint, Running
-----------------------------------------------------------------------------
(* The address createMint comes up with is a new one.                      *)
LEMMA NewMintIsNew ==
  ASSUME NewMints # {}
  PROVE  NewMint \in NewMints
BY Zenon DEF NewMint

(* A transaction under way is one of the boot's, under the key it read.    *)
LEMMA UnderWayTyped ==
  ASSUME BootTypeOK, NEW tx \in UnderWay
  PROVE  /\ tx \in Transactions
         /\ tx.op = pc /\ tx.key = xmssRoot
PROOF
<1>1. CASE pc = "createMint"
  BY <1>1 DEF UnderWay, NewMints, Transaction, Transactions, BootTypeOK
<1>2. CASE pc # "createMint"
  BY <1>2 DEF UnderWay, Transaction, Transactions, BootTypeOK
<1> QED BY <1>1, <1>2

(* What executes is typed, and keeps the mints there are.                  *)
LEMMA ExecuteTyped ==
  ASSUME BootTypeOK, NEW tx \in Transactions, Execute(tx),
         tx.op \in {"initMarket", "createAta"} => tx.mint \in Mints
  PROVE  /\ mints' \subseteq Mints /\ markets' \subseteq Mints
         /\ atas' \subseteq Mints
         /\ oracle' \in BOOLEAN /\ root' \in Keys \cup {Absent}
         /\ mints \subseteq mints'
         /\ root' = IF tx.op = "createTrader" THEN tx.key ELSE root
BY DEF BootTypeOK, Transactions, Execute
-----------------------------------------------------------------------------
LEMMA InitIInv == Init => IInv
PROOF
<1> SUFFICES ASSUME Init PROVE IInv
  OBVIOUS
<1>1. BootTypeOK
  <2>1. /\ keystore = Absent /\ envFile = Absent /\ root = Absent
        /\ xmssRoot = Absent /\ signerKey = Absent /\ usdtMint = Absent
        /\ home = Absent /\ pc = "down"
        /\ mints = {} /\ markets = {} /\ atas = {} /\ late = {}
    BY DEF Init, EmptyCluster
  <2>2. /\ oracle = FALSE /\ freshMint = FALSE /\ orphaned = FALSE
        /\ aborted = 0 /\ faults = 0 /\ stops = 0 /\ wipes = 0 /\ losses = 0
    BY DEF Init, EmptyCluster
  <2>3. late \subseteq Transactions
    BY <2>1
  <2>4. oracle \in BOOLEAN /\ freshMint \in BOOLEAN /\ orphaned \in BOOLEAN
    BY <2>2
  <2>5. {aborted, faults, stops, wipes, losses} \subseteq Nat
    BY <2>2
  <2> QED BY <2>1, <2>3, <2>4, <2>5 DEF BootTypeOK
<1>2. KeyRead /\ KeyOfTrader /\ HomeKept
  BY DEF Init, EmptyCluster, KeyRead, KeyOfTrader, HomeKept
<1> QED BY <1>1, <1>2 DEF IInv

(* Steps that only move the boot on, to a step it reaches with what it has *)
(* read, keep everything.                                                  *)
LEMMA MovesKeepIInv ==
  ASSUME IInv, UNCHANGED <<disk, chain, memory, late, home, orphaned>>,
         UNCHANGED <<stops, wipes, losses>>, faults' = faults, aborted' \in Nat,
         \/ pc' = "down"
         \/ pc = "down" /\ pc' = "keystore"
         \/ pc = "keystore" /\ pc' = "spawn" /\ keystore \in Keys
         \/ pc \in WithMint /\ pc' \in WithMint
  PROVE  IInv'
BY BootAssumption
   DEF IInv, BootTypeOK, KeyRead, KeyOfTrader, HomeKept, disk, chain, memory

(* The lookups of a boot.                                                  *)
LEMMA FindKeepsIInv ==
  ASSUME IInv, NEW at \in WithMint, NEW present,
         NEW make \in WithMint, NEW past \in WithMint,
         Find(at, present, make, past)
  PROVE  IInv'
<1>1. pc \in WithMint /\ pc' \in WithMint
  BY DEF Find, Goto
<1>2. aborted' \in Nat
  BY DEF Find, history, IInv, BootTypeOK
<1> QED BY <1>1, <1>2, MovesKeepIInv DEF Find, history, environment

LEMMA BootKeepsIInv ==
  ASSUME IInv, Boot
  PROVE  IInv'
PROOF
<1> USE BootAssumption DEF IInv, Goto, history, environment
<1>1. CASE EnsureKeystore
  <2>1. CASE keystore = Absent
    BY <1>1, <2>1
       DEF EnsureKeystore, BootTypeOK, KeyRead, KeyOfTrader, HomeKept, Down,
           chain, memory
  <2>2. CASE keystore # Absent
    <3>1. \/ keystore = Torn /\ pc' = "down"
          \/ keystore \in Keys /\ pc' = "spawn"
      BY <1>1, <2>2 DEF EnsureKeystore, BootTypeOK, Down
    <3>2. aborted' \in Nat /\ UNCHANGED <<home, orphaned>>
      BY <1>1, <2>2 DEF EnsureKeystore, BootTypeOK, Down
    <3>3. UNCHANGED <<disk, chain, memory, late, faults, environment>>
      BY <1>1, <2>2 DEF EnsureKeystore, disk
    <3> QED BY <1>1, <3>1, <3>2, <3>3, MovesKeepIInv DEF EnsureKeystore
  <2> QED BY <2>1, <2>2
<1>2. CASE Keygen
  <2>1. /\ pc = "keygen" /\ pc' = "spawn"
        /\ keystore' \in Keys
        /\ UNCHANGED <<envFile, chain, memory, late, history, faults,
                       environment>>
    BY <1>2 DEF Keygen
  <2>2. ~orphaned =>
          root = Absent /\ \A tx \in late : tx.op # "createTrader"
    BY <2>1 DEF KeyRead, KeyOfTrader, BootTypeOK
  <2>3. BootTypeOK'
    BY <2>1 DEF BootTypeOK, chain, memory
  <2>4. KeyRead' /\ HomeKept'
    BY <2>1 DEF KeyRead, HomeKept, chain, memory
  <2>5. KeyOfTrader'
    BY <2>1, <2>2 DEF KeyOfTrader, chain
  <2> QED BY <2>3, <2>4, <2>5
<1>3. CASE SpawnSigner
  BY <1>3
     DEF SpawnSigner, BootTypeOK, KeyRead, KeyOfTrader, HomeKept, disk, chain
<1>4. CASE ReadFiles
  <2>1. /\ pc = "read" /\ xmssRoot' = keystore /\ keystore \in Keys
        /\ UNCHANGED <<keystore, envFile, mints, oracle, markets, root, atas,
                       signerKey, late, faults, stops, wipes, losses>>
    BY <1>4 DEF ReadFiles, KeyRead, disk, chain
  <2>2. UNCHANGED <<home, orphaned>> /\ aborted' = aborted
    BY <1>4, <2>1 DEF ReadFiles, Down, Unsaved, WithMint
  <2>3. \/ pc' = "findMint" /\ envFile \in Mints /\ usdtMint' = envFile
             /\ freshMint' = FALSE
        \/ pc' = "createMint" /\ envFile = Absent /\ usdtMint' = usdtMint
             /\ freshMint' = TRUE
        \/ pc' = "down" /\ usdtMint' = usdtMint /\ freshMint' = freshMint
    BY <1>4 DEF ReadFiles, Down
  <2>4. BootTypeOK'
    BY <2>1, <2>2, <2>3 DEF BootTypeOK
  <2>5. KeyRead' /\ KeyOfTrader'
    BY <2>1, <2>2, <2>3 DEF KeyRead, KeyOfTrader
  <2>6. HomeKept'
    BY <2>1, <2>2, <2>3 DEF HomeKept, BootTypeOK
  <2> QED BY <2>4, <2>5, <2>6
<1>5. CASE FindMint
  <2>1. /\ pc = "findMint"
        /\ UNCHANGED <<keystore, envFile, mints, oracle, markets, root, atas,
                       xmssRoot, signerKey, usdtMint, late, home, orphaned,
                       aborted, faults, stops, wipes, losses>>
    BY <1>5 DEF FindMint, disk, chain
  <2>2. \/ usdtMint \in mints /\ pc' = "findOracle" /\ freshMint' = freshMint
        \/ usdtMint \notin mints /\ pc' = "createMint" /\ freshMint' = TRUE
    BY <1>5 DEF FindMint
  <2>3. BootTypeOK'
    BY <2>1, <2>2 DEF BootTypeOK
  <2>4. KeyRead' /\ KeyOfTrader'
    BY <2>1, <2>2 DEF KeyRead, KeyOfTrader
  <2>5. HomeKept'
    BY <2>1, <2>2 DEF HomeKept
  <2> QED BY <2>3, <2>4, <2>5
<1>6. CASE CreateUsdt
  <2> DEFINE tx == Transaction("createMint", NewMint)
  <2>1. pc = "createMint" /\ NewMint \in Mints /\ Execute(tx)
    BY <1>6, NewMintIsNew DEF CreateUsdt, NewMints
  <2>2. tx \in Transactions /\ tx.op = "createMint" /\ tx.mint = NewMint
    BY <2>1 DEF Transaction, Transactions, BootTypeOK
  <2>3. /\ mints' \subseteq Mints /\ markets' \subseteq Mints
        /\ atas' \subseteq Mints
        /\ oracle' \in BOOLEAN /\ root' = root
    BY <2>1, <2>2, ExecuteTyped
  <2> HIDE DEF tx
  <2> QED BY <1>6, <2>1, <2>3
          DEF CreateUsdt, BootTypeOK, KeyRead, KeyOfTrader, HomeKept, disk
<1>7. CASE FindOracle \/ FindMarket \/ FindTrader \/ FindAta
  BY <1>7, FindKeepsIInv
     DEF FindOracle, FindMarket, FindTrader, FindAta, AfterAta
<1>8. CASE SendAndConfirm
  <2> DEFINE tx == Transaction(pc, usdtMint)
  <2>1. pc \in Sends \ {"createMint"} /\ pc \in WithMint
    BY <1>8 DEF SendAndConfirm
  <2>2. tx \in Transactions /\ tx.op = pc /\ tx.key = keystore
        /\ tx.mint = usdtMint
    BY <2>1 DEF Transaction, Transactions, BootTypeOK, KeyRead
  <2>3. CASE Valid(tx) /\ Execute(tx) /\ pc' = After(pc) /\ UNCHANGED history
    <3>1. tx.op \in {"initMarket", "createAta"} => tx.mint \in Mints
      BY <2>1, <2>2, <2>3 DEF Valid, BootTypeOK
    <3>2. /\ mints' \subseteq Mints /\ markets' \subseteq Mints
          /\ atas' \subseteq Mints
          /\ oracle' \in BOOLEAN /\ root' \in Keys \cup {Absent}
          /\ mints \subseteq mints'
          /\ root' = IF tx.op = "createTrader" THEN tx.key ELSE root
      BY <2>2, <2>3, <3>1, ExecuteTyped
    <3>3. pc' \in WithMint
      BY <2>1, <2>3 DEF After, AfterAta
    <3>4. UNCHANGED <<disk, memory, late, faults, environment>>
      BY <1>8 DEF SendAndConfirm
    <3> HIDE DEF tx
    <3>5. BootTypeOK'
      BY <2>3, <3>2, <3>3, <3>4 DEF BootTypeOK, disk, memory
    <3>6. KeyRead' /\ HomeKept'
      BY <2>1, <2>3, <3>2, <3>3, <3>4 DEF KeyRead, HomeKept, disk, memory
    <3>7. KeyOfTrader'
      BY <2>2, <2>3, <3>2, <3>4 DEF KeyOfTrader, disk
    <3> QED BY <3>5, <3>6, <3>7
  <2>4. CASE ~Valid(tx) /\ UNCHANGED chain /\ Down
    BY <1>8, <2>4, MovesKeepIInv DEF SendAndConfirm, Down, BootTypeOK
  <2> QED BY <1>8, <2>3, <2>4 DEF SendAndConfirm
<1>9. CASE PushPrice
  BY <1>9, FindKeepsIInv DEF PushPrice
<1>10. CASE ReadBalances
  BY <1>10, FindKeepsIInv DEF ReadBalances, TopUp
<1>11. CASE Save
  BY <1>11
     DEF Save, BootTypeOK, KeyRead, KeyOfTrader, HomeKept, chain, memory
<1>12. CASE Serve
  BY <1>12
     DEF Serve, FirstServed, BootTypeOK, KeyRead, KeyOfTrader, HomeKept, chain, memory
<1> QED BY <1>1, <1>2, <1>3, <1>4, <1>5, <1>6, <1>7, <1>8, <1>9, <1>10,
           <1>11, <1>12 DEF Boot

(* What can happen to a backend, or to what it left behind.                *)
LEMMA EventsKeepIInv ==
  ASSUME IInv, Start \/ Abort \/ Stop \/ Land \/ Wipe \/ LoseDirectory
  PROVE  IInv'
PROOF
<1> USE BootAssumption DEF IInv, Goto, history, environment
<1>1. CASE Start
  BY <1>1, MovesKeepIInv DEF Start, BootTypeOK
<1>2. CASE Abort
  <2>1. /\ pc' = "down" /\ aborted' \in Nat /\ faults' \in Nat
        /\ UNCHANGED <<keystore, envFile, mints, oracle, markets, root, atas,
                       xmssRoot, signerKey, usdtMint, freshMint, home,
                       orphaned, stops, wipes, losses>>
    BY <1>2 DEF Abort, Down, disk, chain, memory, BootTypeOK
  <2>2. ASSUME NEW tx \in late'
        PROVE  tx \in late \/ tx \in UnderWay
    BY <1>2, <2>2 DEF Abort
  <2>3. late' \subseteq Transactions
    BY <2>2, UnderWayTyped DEF BootTypeOK
  <2>4. BootTypeOK'
    BY <2>1, <2>3 DEF BootTypeOK
  <2>5. KeyRead' /\ HomeKept'
    BY <2>1 DEF KeyRead, HomeKept
  <2>6. ASSUME NEW tx \in UnderWay, tx.op = "createTrader"
        PROVE  tx.key = keystore /\ keystore \in Keys
    BY <2>6, UnderWayTyped DEF KeyRead
  <2>7. KeyOfTrader'
    BY <2>1, <2>2, <2>6 DEF KeyOfTrader
  <2> QED BY <2>4, <2>5, <2>7
<1>3. CASE Stop
  <2>1. /\ pc' = "down" /\ aborted' \in Nat /\ stops' \in Nat
        /\ UNCHANGED <<keystore, envFile, mints, oracle, markets, root, atas,
                       xmssRoot, signerKey, usdtMint, freshMint, late, home,
                       orphaned, faults, wipes, losses>>
    BY <1>3 DEF Stop, Down, disk, chain, memory, BootTypeOK
  <2>2. BootTypeOK'
    BY <2>1 DEF BootTypeOK
  <2>3. KeyRead' /\ HomeKept' /\ KeyOfTrader'
    BY <2>1 DEF KeyRead, HomeKept, KeyOfTrader
  <2> QED BY <2>2, <2>3
<1>4. CASE Land
  <2>1. PICK tx \in late :
          /\ late' = late \ {tx}
          /\ IF Valid(tx) THEN Execute(tx) ELSE UNCHANGED chain
    BY <1>4 DEF Land
  <2>2. UNCHANGED <<keystore, envFile, pc, xmssRoot, signerKey, usdtMint,
                    freshMint, home, orphaned, aborted, faults, stops, wipes,
                    losses>>
    BY <1>4 DEF Land, disk, memory
  <2>3. tx \in Transactions
    BY DEF BootTypeOK
  <2>4. CASE Valid(tx)
    <3> DEFINE lands == tx.op = "createTrader"
    <3>1. /\ Execute(tx)
          /\ tx.op \in {"initMarket", "createAta"} => tx.mint \in Mints
      BY <2>1, <2>4 DEF Valid, BootTypeOK
    <3>2. /\ mints' \subseteq Mints /\ markets' \subseteq Mints
          /\ atas' \subseteq Mints
          /\ oracle' \in BOOLEAN /\ root' \in Keys \cup {Absent}
          /\ mints \subseteq mints'
          /\ root' = IF lands THEN tx.key ELSE root
      BY <2>3, <3>1, ExecuteTyped
    <3>3. BootTypeOK'
      BY <2>1, <2>2, <3>2 DEF BootTypeOK
    <3>4. KeyRead' /\ HomeKept'
      BY <2>2, <3>2 DEF KeyRead, HomeKept
    <3>5. KeyOfTrader'
      BY <2>1, <2>2, <3>2 DEF KeyOfTrader
    <3> QED BY <3>3, <3>4, <3>5
  <2>5. CASE ~Valid(tx)
    <3>1. UNCHANGED <<mints, oracle, markets, root, atas>>
      BY <2>1, <2>5 DEF chain
    <3>2. BootTypeOK'
      BY <2>1, <2>2, <3>1 DEF BootTypeOK
    <3>3. KeyRead' /\ HomeKept' /\ KeyOfTrader'
      BY <2>1, <2>2, <3>1 DEF KeyRead, HomeKept, KeyOfTrader
    <3> QED BY <3>2, <3>3
  <2> QED BY <2>4, <2>5
<1>5. CASE Wipe
  <2>1. /\ mints' = {} /\ markets' = {} /\ atas' = {} /\ late' = {}
        /\ oracle' = FALSE /\ root' = Absent
        /\ home' = Absent /\ orphaned' = FALSE /\ wipes' \in Nat
        /\ UNCHANGED <<keystore, envFile, pc, xmssRoot, signerKey, usdtMint,
                       freshMint, aborted, faults, stops, losses>>
    BY <1>5 DEF Wipe, disk, memory, BootTypeOK
  <2>2. BootTypeOK'
    BY <2>1 DEF BootTypeOK
  <2>3. KeyRead' /\ HomeKept' /\ KeyOfTrader'
    BY <2>1 DEF KeyRead, HomeKept, KeyOfTrader
  <2> QED BY <2>2, <2>3
<1>6. CASE LoseDirectory
  <2>1. /\ pc = "down" /\ keystore' = Absent /\ envFile' = Absent
        /\ home' = Absent /\ losses' \in Nat
        /\ orphaned' = (root # Absent
                          \/ \E tx \in late : tx.op = "createTrader")
        /\ UNCHANGED <<mints, oracle, markets, root, atas, pc, xmssRoot,
                       signerKey, usdtMint, freshMint, late, aborted, faults,
                       stops, wipes>>
    BY <1>6 DEF LoseDirectory, chain, memory, BootTypeOK
  <2>2. orphaned' \in BOOLEAN
    BY <2>1
  <2>3. BootTypeOK'
    BY <2>1, <2>2 DEF BootTypeOK
  <2>4. KeyRead' /\ HomeKept' /\ KeyOfTrader'
    BY <2>1 DEF KeyRead, HomeKept, KeyOfTrader
  <2> QED BY <2>3, <2>4
<1> QED BY <1>1, <1>2, <1>3, <1>4, <1>5, <1>6

(* IInv is an invariant.                                                   *)
LEMMA IInvHolds == Spec => []IInv
PROOF
<1>1. Init => IInv
  BY InitIInv
<1>2. IInv /\ [Next]_vars => IInv'
  <2>1. CASE Next
    BY <2>1, BootKeepsIInv, EventsKeepIInv DEF Next
  <2>2. CASE UNCHANGED vars
    BY <2>2 DEF vars, disk, chain, memory, history, environment, IInv,
                BootTypeOK, KeyRead, KeyOfTrader, HomeKept
  <2> QED BY <2>1, <2>2
<1> QED BY <1>1, <1>2, PTL DEF Spec
-----------------------------------------------------------------------------
(* Every file, account and variable of a boot is of its type.              *)
THEOREM BootTypeCorrect == Spec => []BootTypeOK
PROOF
<1>1. IInv => BootTypeOK
  BY DEF IInv
<1> QED BY <1>1, IInvHolds, PTL

(* A backend serves the market it served before, over any number of        *)
(* crashes, failed calls and transactions that land late (bootstrapPerp).  *)
THEOREM MarketKept == Spec => []SameMarketAfterRestart
PROOF
<1>1. IInv => SameMarketAfterRestart
  BY DEF IInv, HomeKept, SameMarketAfterRestart
<1> QED BY <1>1, IInvHolds, PTL

(* The signer has the key of the trader account, on disk and in the        *)
(* daemon, unless it went with the directory (ensurePerpKeystore).         *)
THEOREM TraderKeyKept == Spec => []SignerHasTraderKey
PROOF
<1>1. IInv => SignerHasTraderKey
  BY DEF IInv, KeyRead, KeyOfTrader, SignerHasTraderKey
<1> QED BY <1>1, IInvHolds, PTL
-----------------------------------------------------------------------------
(* WHAT RESTARTS STRAND                                                    *)
(*                                                                         *)
(* To count what no boot will find again, the mints that are still to land *)
(* count as well: they are lost when the boot that sent them ends, not     *)
(* when the cluster gets to them.  No mint is lost that a boot has in hand *)
(* or that the environment file names; a boot that goes on with another    *)
(* mint than that of the file does so because the cluster has not got it,  *)
(* and will not get it, since addresses are not made twice.                *)

Created == {tx.mint : tx \in {y \in late : y.op = "createMint"}}

InHand == IF pc \in WithMint THEN {usdtMint} ELSE {}

Lost == (mints \cup Created) \ ({envFile} \cup InHand)

Counted == IsFiniteSet(Lost) /\ Cardinality(Lost) <= aborted + losses

HeldApart ==
  /\ envFile \notin Created /\ InHand \cap Created = {}
  /\ pc = "createMint" => envFile \notin mints
  /\ pc \in WithMint => envFile = usdtMint \/ envFile \notin mints
  /\ pc \in {"findMint", "serving"} => envFile = usdtMint

CostInv == IInv /\ Counted /\ HeldApart

(* The count is kept by steps that lose nothing, or one mint for one boot  *)
(* or removal.                                                             *)
LEMMA NothingLost ==
  ASSUME IInv, IInv', Counted, Lost' \subseteq Lost,
         aborted' >= aborted, losses' >= losses
  PROVE  Counted'
<1>1. /\ aborted \in Nat /\ aborted' \in Nat
      /\ losses \in Nat /\ losses' \in Nat
  BY DEF IInv, BootTypeOK
<1> DEFINE before == Lost
           after == Lost'
<1>2. /\ IsFiniteSet(before) /\ Cardinality(before) <= aborted + losses
      /\ after \subseteq before
  BY DEF Counted
<1> HIDE DEF before, after
<1>3. IsFiniteSet(after) /\ Cardinality(after) <= Cardinality(before)
  BY <1>2, FS_Subset
<1>4. Cardinality(before) \in Nat /\ Cardinality(after) \in Nat
  BY <1>2, <1>3, FS_CardinalityType
<1>5. Cardinality(after) <= aborted' + losses'
  BY <1>1, <1>2, <1>3, <1>4
<1> QED BY <1>3, <1>5 DEF Counted, after

LEMMA OneLost ==
  ASSUME IInv, IInv', Counted, NEW m, Lost' \subseteq Lost \cup {m},
         \/ aborted' = aborted + 1 /\ losses' = losses
         \/ aborted' = aborted /\ losses' = losses + 1
  PROVE  Counted'
<1>1. /\ aborted \in Nat /\ aborted' \in Nat
      /\ losses \in Nat /\ losses' \in Nat
  BY DEF IInv, BootTypeOK
<1> DEFINE before == Lost
           after == Lost'
<1>2. /\ IsFiniteSet(before) /\ Cardinality(before) <= aborted + losses
      /\ after \subseteq before \cup {m}
  BY DEF Counted
<1> HIDE DEF before, after
<1>3. /\ IsFiniteSet(before \cup {m})
      /\ Cardinality(before \cup {m})
           = IF m \in before THEN Cardinality(before)
             ELSE Cardinality(before) + 1
  BY <1>2, FS_AddElement
<1>4. /\ IsFiniteSet(after)
      /\ Cardinality(after) <= Cardinality(before \cup {m})
  BY <1>2, <1>3, FS_Subset
<1>5. Cardinality(before) \in Nat /\ Cardinality(after) \in Nat
  BY <1>2, <1>4, FS_CardinalityType
<1>6. Cardinality(after) <= Cardinality(before) + 1
  BY <1>3, <1>4, <1>5
<1>7. Cardinality(after) <= aborted' + losses'
  BY <1>1, <1>2, <1>5, <1>6
<1> QED BY <1>4, <1>7 DEF Counted, after

LEMMA CreatedAreMints == BootTypeOK => Created \subseteq Mints
BY DEF BootTypeOK, Created, Transactions

(* Steps of a boot that touch no mint and no file.                         *)
LEMMA QuietCost ==
  ASSUME CostInv, IInv', UNCHANGED <<envFile, usdtMint, mints, late>>,
         aborted' >= aborted, losses' >= losses,
         (pc' \in WithMint) <=> (pc \in WithMint),
         pc' \notin {"createMint", "findMint"},
         pc' = "serving" => pc = "serving"
  PROVE  CostInv'
<1>1. Created' = Created /\ InHand' = InHand
  BY DEF Created, InHand
<1>2. Lost' = Lost
  BY <1>1 DEF Lost
<1>3. Counted'
  BY <1>2, NothingLost DEF CostInv
<1>4. HeldApart'
  BY <1>1 DEF CostInv, HeldApart
<1> QED BY <1>3, <1>4 DEF CostInv

(* A boot that ends with a mint in hand loses it if it is not saved, and   *)
(* then it counts; the mint of the file is found again.                    *)
LEMMA MintGivenUp ==
  ASSUME CostInv, IInv', pc \in WithMint, InHand' = {},
         UNCHANGED <<envFile, usdtMint, mints, losses>>, Created' = Created,
         aborted' = IF Unsaved THEN aborted + 1 ELSE aborted
  PROVE  Counted'
<1>1. InHand = {usdtMint} /\ aborted \in Nat /\ losses \in Nat
  BY DEF InHand, CostInv, IInv, BootTypeOK
<1>2. CASE Unsaved
  <2>1. Lost' \subseteq Lost \cup {usdtMint}
    BY <1>1 DEF Lost
  <2> QED BY <1>2, <2>1, OneLost DEF CostInv
<1>3. CASE ~Unsaved
  <2>1. usdtMint = envFile
    BY <1>3 DEF Unsaved, CostInv, HeldApart
  <2>2. Lost' \subseteq Lost
    BY <1>1, <2>1 DEF Lost
  <2> QED BY <1>1, <1>3, <2>2, NothingLost DEF CostInv
<1> QED BY <1>2, <1>3

LEMMA BootCost ==
  ASSUME CostInv, IInv', Boot
  PROVE  CostInv'
PROOF
<1> USE DEF Goto
<1>0. aborted \in Nat /\ losses \in Nat /\ Created \subseteq Mints
  BY CreatedAreMints DEF CostInv, IInv, BootTypeOK
<1>1. CASE EnsureKeystore \/ Keygen \/ SpawnSigner
  <2>1. /\ UNCHANGED <<envFile, usdtMint, mints, late, losses>>
        /\ aborted' = aborted
    <3>1. CASE EnsureKeystore
      BY <3>1 DEF EnsureKeystore, Down, Unsaved, WithMint, chain, memory,
                  history, environment
    <3>2. CASE Keygen \/ SpawnSigner
      BY <3>2 DEF Keygen, SpawnSigner, disk, chain, memory, history,
                  environment
    <3> QED BY <1>1, <3>1, <3>2
  <2>2. /\ pc \in {"keystore", "keygen", "spawn"}
        /\ pc' \in {"keygen", "down", "spawn", "read"}
    BY <1>1 DEF EnsureKeystore, Keygen, SpawnSigner, Down
  <2> QED BY <1>0, <2>1, <2>2, QuietCost
<1>2. CASE ReadFiles
  <2>1. UNCHANGED <<envFile, mints, late, losses, aborted>> /\ pc = "read"
    BY <1>2 DEF ReadFiles, Down, Unsaved, WithMint, disk, chain, history,
                environment
  <2>2. CASE envFile \in Mints
    <3>1. usdtMint' = envFile /\ pc' = "findMint"
      BY <1>2, <2>2, BootAssumption DEF ReadFiles
    <3>2. Created' = Created /\ InHand = {} /\ InHand' = {envFile}
      BY <2>1, <3>1 DEF Created, InHand
    <3>3. Lost' \subseteq Lost
      BY <2>1, <3>2 DEF Lost
    <3>4. Counted'
      BY <1>0, <2>1, <3>3, NothingLost DEF CostInv
    <3>5. HeldApart'
      BY <2>1, <3>1, <3>2 DEF CostInv, HeldApart
    <3> QED BY <3>4, <3>5 DEF CostInv
  <2>3. CASE envFile \notin Mints
    <3>1. pc' \in {"createMint", "down"}
      BY <1>2, <2>3 DEF ReadFiles, Down
    <3>2. Created' = Created /\ InHand = {} /\ InHand' = {}
      BY <2>1, <3>1 DEF Created, InHand
    <3>3. Lost' \subseteq Lost
      BY <2>1, <3>2 DEF Lost
    <3>4. Counted'
      BY <1>0, <2>1, <3>3, NothingLost DEF CostInv
    <3>5. HeldApart'
      BY <2>1, <2>3, <3>1, <3>2 DEF CostInv, IInv, BootTypeOK, HeldApart
    <3> QED BY <3>4, <3>5 DEF CostInv
  <2> QED BY <2>2, <2>3
<1>3. CASE FindMint
  <2>1. /\ UNCHANGED <<envFile, usdtMint, mints, late, losses, aborted>>
        /\ pc = "findMint" /\ pc' \in {"findOracle", "createMint"}
        /\ pc' = "createMint" => usdtMint \notin mints
    BY <1>3 DEF FindMint, disk, chain, history, environment
  <2>2. envFile = usdtMint
    BY <2>1 DEF CostInv, HeldApart
  <2>3. /\ Created' = Created /\ InHand = {usdtMint}
        /\ InHand' \subseteq {usdtMint}
    BY <2>1 DEF Created, InHand
  <2>4. Lost' \subseteq Lost
    BY <2>1, <2>2, <2>3 DEF Lost
  <2>5. Counted'
    BY <1>0, <2>1, <2>4, NothingLost DEF CostInv
  <2>6. HeldApart'
    BY <2>1, <2>2, <2>3 DEF CostInv, HeldApart
  <2> QED BY <2>5, <2>6 DEF CostInv
<1>4. CASE CreateUsdt
  <2>1. /\ UNCHANGED <<envFile, late, losses, aborted>> /\ pc = "createMint"
        /\ pc' = "findOracle" /\ usdtMint' = NewMint
        /\ mints' = mints \cup {NewMint} /\ NewMints # {}
    BY <1>4 DEF CreateUsdt, Execute, Transaction, disk, history, environment
  <2>2. NewMint # envFile /\ NewMint \notin Created
    BY <2>1, NewMintIsNew DEF NewMints, Created
  <2> HIDE DEF NewMint
  <2>3. Created' = Created /\ InHand = {} /\ InHand' = {NewMint}
    BY <2>1 DEF Created, InHand
  <2>4. Lost' \subseteq Lost
    BY <2>1, <2>3 DEF Lost
  <2>5. Counted'
    BY <1>0, <2>1, <2>4, NothingLost DEF CostInv
  <2>6. HeldApart'
    BY <2>1, <2>2, <2>3 DEF CostInv, HeldApart
  <2> QED BY <2>5, <2>6 DEF CostInv
<1>5. CASE FindOracle \/ FindMarket \/ FindTrader \/ FindAta \/ PushPrice
             \/ ReadBalances
  <2>1. UNCHANGED <<envFile, usdtMint, mints, late, losses, aborted>>
    BY <1>5 DEF FindOracle, FindMarket, FindTrader, FindAta, PushPrice,
                ReadBalances, TopUp, Find, disk, chain, memory, history,
                environment
  <2>2. pc \in WithMint /\ pc' \in WithMint \ {"findMint", "serving"}
    BY <1>5 DEF FindOracle, FindMarket, FindTrader, FindAta, PushPrice,
                ReadBalances, TopUp, Find, AfterAta
  <2> QED BY <1>0, <2>1, <2>2, QuietCost
<1>6. CASE SendAndConfirm
  <2>1. /\ UNCHANGED <<envFile, usdtMint, late, losses>>
        /\ pc \in Sends \ {"createMint"}
    BY <1>6 DEF SendAndConfirm, disk, memory, environment
  <2>2. mints' = mints
    BY <1>6, <2>1 DEF SendAndConfirm, Execute, Transaction, chain
  <2>3. CASE Valid(Transaction(pc, usdtMint))
    <3>1. aborted' = aborted /\ pc' = After(pc)
      BY <1>6, <2>3 DEF SendAndConfirm, history
    <3>2. After(pc) \in WithMint \ {"findMint", "serving"}
      BY <2>1 DEF After, AfterAta
    <3> QED BY <1>0, <2>1, <2>2, <3>1, <3>2, QuietCost
  <2>4. CASE ~Valid(Transaction(pc, usdtMint))
    <3>1. /\ aborted' = IF Unsaved THEN aborted + 1 ELSE aborted
          /\ pc \in WithMint /\ pc' = "down"
      BY <1>6, <2>1, <2>4 DEF SendAndConfirm, Down
    <3>2. Created' = Created /\ InHand' = {}
      BY <2>1, <3>1 DEF Created, InHand
    <3>3. UNCHANGED <<envFile, usdtMint, mints, losses>>
      BY <2>1, <2>2
    <3>4. Counted'
      BY <3>1, <3>2, <3>3, MintGivenUp
    <3>5. HeldApart'
      BY <2>1, <3>1, <3>2 DEF CostInv, HeldApart
    <3> QED BY <3>4, <3>5 DEF CostInv
  <2> QED BY <2>3, <2>4
<1>7. CASE Save
  <2>1. /\ UNCHANGED <<usdtMint, mints, late, losses, aborted>>
        /\ pc = "save" /\ pc' = "saving" /\ envFile' = Torn
    BY <1>7 DEF Save, chain, memory, history, environment
  <2>2. Torn \notin mints /\ Torn \notin Created
    BY <1>0, BootAssumption DEF CostInv, IInv, BootTypeOK
  <2>3. /\ Created' = Created /\ InHand = {usdtMint} /\ InHand' = {usdtMint}
    BY <2>1 DEF Created, InHand
  <2>4. envFile = usdtMint \/ envFile \notin mints \cup Created
    BY <2>1 DEF CostInv, HeldApart
  <2>5. Lost' \subseteq Lost
    BY <2>1, <2>3, <2>4 DEF Lost
  <2>6. Counted'
    BY <1>0, <2>1, <2>5, NothingLost DEF CostInv
  <2>7. HeldApart'
    BY <2>1, <2>2, <2>3 DEF CostInv, HeldApart
  <2> QED BY <2>6, <2>7 DEF CostInv
<1>8. CASE Serve
  <2>1. /\ UNCHANGED <<usdtMint, mints, late, losses, aborted>>
        /\ pc = "saving" /\ pc' = "serving" /\ envFile' = usdtMint
    BY <1>8 DEF Serve, chain, memory, environment
  <2>2. /\ Created' = Created /\ InHand = {usdtMint} /\ InHand' = {usdtMint}
    BY <2>1 DEF Created, InHand
  <2>3. envFile = usdtMint \/ envFile \notin mints \cup Created
    BY <2>1 DEF CostInv, HeldApart
  <2>4. Lost' \subseteq Lost
    BY <2>1, <2>2, <2>3 DEF Lost
  <2>5. Counted'
    BY <1>0, <2>1, <2>4, NothingLost DEF CostInv
  <2>6. HeldApart'
    BY <2>1, <2>2 DEF CostInv, HeldApart
  <2> QED BY <2>5, <2>6 DEF CostInv
<1> QED BY <1>1, <1>2, <1>3, <1>4, <1>5, <1>6, <1>7, <1>8 DEF Boot

(* A kill loses the mint in hand, or the one that is being created.        *)
LEMMA AbortCost ==
  ASSUME CostInv, IInv', Abort
  PROVE  CostInv'
PROOF
<1>1. /\ UNCHANGED <<envFile, usdtMint, mints, losses>> /\ pc' = "down"
      /\ aborted' = IF Unsaved THEN aborted + 1 ELSE aborted
      /\ late' \in {late} \cup {late \cup {tx} : tx \in UnderWay}
  BY DEF Abort, Down, disk, chain, memory, environment
<1>2. InHand' = {}
  BY <1>1 DEF InHand
<1>3. aborted \in Nat /\ losses \in Nat /\ BootTypeOK
  BY DEF CostInv, IInv, BootTypeOK
<1>4. CASE Created' = Created
  <2>1. HeldApart'
    BY <1>1, <1>2, <1>4 DEF CostInv, HeldApart
  <2>2. CASE pc \in WithMint
    <3>1. Counted'
      BY <1>1, <1>2, <1>4, <2>2, MintGivenUp
    <3> QED BY <2>1, <3>1 DEF CostInv
  <2>3. CASE pc \notin WithMint
    <3>1. InHand = {}
      BY <2>3 DEF InHand
    <3>2. Lost' \subseteq Lost
      BY <1>1, <1>2, <1>4, <3>1 DEF Lost
    <3>3. aborted' >= aborted /\ losses' >= losses
      BY <1>1, <1>3
    <3>4. Counted'
      BY <3>2, <3>3, NothingLost DEF CostInv
    <3> QED BY <2>1, <3>4 DEF CostInv
  <2> QED BY <2>2, <2>3
<1>5. CASE Created' # Created
  <2>1. PICK tx \in UnderWay : late' = late \cup {tx}
    BY <1>1, <1>5 DEF Created
  <2>2. tx.op = "createMint" /\ pc = "createMint"
    BY <1>3, <1>5, <2>1, UnderWayTyped DEF Created
  <2>3. tx.mint \in NewMints
    BY <2>2 DEF UnderWay, Transaction
  <2>4. Created' = Created \cup {tx.mint} /\ tx.mint # envFile
    BY <2>1, <2>2, <2>3 DEF Created, NewMints
  <2>5. InHand = {} /\ aborted' = aborted + 1
    BY <1>1, <2>2 DEF InHand, Unsaved, WithMint
  <2>6. Lost' \subseteq Lost \cup {tx.mint}
    BY <1>1, <1>2, <2>4, <2>5 DEF Lost
  <2>7. Counted'
    BY <1>1, <2>5, <2>6, OneLost DEF CostInv
  <2>8. HeldApart'
    BY <1>1, <1>2, <2>4 DEF CostInv, HeldApart
  <2> QED BY <2>7, <2>8 DEF CostInv
<1> QED BY <1>4, <1>5

(* What lands was counted when it was sent.                                *)
LEMMA LandCost ==
  ASSUME CostInv, IInv', Land
  PROVE  CostInv'
PROOF
<1>1. PICK tx \in late :
        /\ late' = late \ {tx}
        /\ IF Valid(tx) THEN Execute(tx) ELSE UNCHANGED chain
  BY DEF Land
<1>2. UNCHANGED <<envFile, usdtMint, pc, aborted, losses>>
  BY DEF Land, disk, memory, history, environment
<1>3. mints' \subseteq mints \cup Created
  BY <1>1 DEF Execute, chain, Created
<1>4. Created' \subseteq Created /\ InHand' = InHand
  BY <1>1, <1>2 DEF Created, InHand
<1>5. Lost' \subseteq Lost
  BY <1>2, <1>3, <1>4 DEF Lost
<1>6. aborted \in Nat /\ losses \in Nat
  BY DEF CostInv, IInv, BootTypeOK
<1>7. Counted'
  BY <1>2, <1>5, <1>6, NothingLost DEF CostInv
<1>8. HeldApart'
  BY <1>2, <1>3, <1>4 DEF CostInv, HeldApart
<1> QED BY <1>7, <1>8 DEF CostInv

LEMMA EventsCost ==
  ASSUME CostInv, IInv', Start \/ Stop \/ Wipe \/ LoseDirectory
  PROVE  CostInv'
PROOF
<1>0. aborted \in Nat /\ losses \in Nat /\ BootTypeOK
  BY DEF CostInv, IInv, BootTypeOK
<1>1. CASE Start
  <2>1. /\ UNCHANGED <<envFile, usdtMint, mints, late, losses, aborted>>
        /\ pc = "down" /\ pc' = "keystore"
    BY <1>1 DEF Start, Goto, disk, chain, memory, history, environment
  <2> QED BY <1>0, <2>1, QuietCost
<1>2. CASE Stop
  <2>1. /\ UNCHANGED <<envFile, usdtMint, mints, late, losses, aborted>>
        /\ pc = "serving" /\ pc' = "down"
    BY <1>2 DEF Stop, Down, Unsaved, disk, chain, memory
  <2>2. /\ Created' = Created /\ InHand = {envFile} /\ InHand' = {}
    BY <2>1 DEF Created, InHand, CostInv, HeldApart
  <2>3. Lost' \subseteq Lost
    BY <2>1, <2>2 DEF Lost
  <2>4. Counted'
    BY <1>0, <2>1, <2>3, NothingLost DEF CostInv
  <2>5. HeldApart'
    BY <2>1, <2>2 DEF CostInv, HeldApart
  <2> QED BY <2>4, <2>5 DEF CostInv
<1>3. CASE Wipe
  <2>1. /\ UNCHANGED <<envFile, usdtMint, pc, losses, aborted>>
        /\ mints' = {} /\ late' = {}
    BY <1>3 DEF Wipe, disk, memory
  <2>2. Created' = {} /\ InHand' = InHand
    BY <2>1 DEF Created, InHand
  <2>3. Lost' \subseteq Lost
    BY <2>1, <2>2 DEF Lost
  <2>4. Counted'
    BY <1>0, <2>1, <2>3, NothingLost DEF CostInv
  <2>5. HeldApart'
    BY <2>1, <2>2 DEF CostInv, HeldApart
  <2> QED BY <2>4, <2>5 DEF CostInv
<1>4. CASE LoseDirectory
  <2>1. /\ UNCHANGED <<usdtMint, pc, mints, late, aborted>> /\ pc = "down"
        /\ envFile' = Absent /\ losses' = losses + 1
    BY <1>4 DEF LoseDirectory, chain, memory
  <2>2. Created' = Created /\ InHand = {} /\ InHand' = {}
    BY <2>1 DEF Created, InHand
  <2>3. Absent \notin Created
    BY <1>0, CreatedAreMints, BootAssumption
  <2>4. Lost' \subseteq Lost \cup {envFile}
    BY <2>1, <2>2 DEF Lost
  <2>5. Counted'
    BY <2>1, <2>4, OneLost DEF CostInv
  <2>6. HeldApart'
    BY <2>1, <2>2, <2>3 DEF HeldApart
  <2> QED BY <2>5, <2>6 DEF CostInv
<1> QED BY <1>1, <1>2, <1>3, <1>4

LEMMA CostInvHolds == Spec => []CostInv
PROOF
<1>1. Init => CostInv
  <2> SUFFICES ASSUME Init PROVE CostInv
    OBVIOUS
  <2>1. /\ mints = {} /\ Created = {} /\ pc = "down"
        /\ aborted = 0 /\ losses = 0
    BY DEF Init, EmptyCluster, Created
  <2>2. Lost = {} /\ InHand = {}
    BY <2>1 DEF Lost, InHand
  <2>3. Counted
    BY <2>1, <2>2, FS_EmptySet DEF Counted
  <2>4. HeldApart
    BY <2>1, <2>2 DEF HeldApart
  <2> QED BY <2>3, <2>4, InitIInv DEF CostInv
<1>2. IInv /\ IInv' /\ CostInv /\ [Next]_vars => CostInv'
  <2> SUFFICES ASSUME IInv', CostInv, [Next]_vars PROVE CostInv'
    OBVIOUS
  <2>1. CASE Next
    BY <2>1, BootCost, AbortCost, LandCost, EventsCost DEF Next
  <2>2. CASE UNCHANGED vars
    <3>1. UNCHANGED <<envFile, usdtMint, mints, late, pc, aborted, losses>>
      BY <2>2 DEF vars, disk, chain, memory, history, environment
    <3>2. Created' = Created /\ InHand' = InHand
      BY <3>1 DEF Created, InHand
    <3>3. Lost' = Lost
      BY <3>1, <3>2 DEF Lost
    <3>4. Counted' /\ HeldApart'
      BY <3>1, <3>2, <3>3 DEF CostInv, Counted, HeldApart
    <3> QED BY <3>4 DEF CostInv
  <2> QED BY <2>1, <2>2
<1> QED BY <1>1, <1>2, IInvHolds, PTL DEF Spec

(* However often boots are killed, transactions land late and clusters and *)
(* directories go: a mint that no boot will find again is paid for by a    *)
(* boot of its own that ended at a mint it had not saved, or by a removal  *)
(* of the directory.  Orderly restarts, and boots that end with the mint   *)
(* of the file, strand nothing (bootstrapPerp).                            *)
THEOREM StrandingCosts == Spec => []StrandedAtACost
PROOF
<1>1. CostInv => StrandedAtACost
  <2> SUFFICES ASSUME CostInv PROVE StrandedAtACost
    OBVIOUS
  <2> DEFINE lost == Lost
             stranded == Stranded
  <2>1. stranded \subseteq lost
    BY DEF Stranded, Lost, InHand
  <2>2. IsFiniteSet(lost) /\ Cardinality(lost) <= aborted + losses
    BY DEF CostInv, Counted
  <2>3. aborted \in Nat /\ losses \in Nat
    BY DEF CostInv, IInv, BootTypeOK
  <2> HIDE DEF lost, stranded
  <2>4. IsFiniteSet(stranded) /\ Cardinality(stranded) <= Cardinality(lost)
    BY <2>1, <2>2, FS_Subset
  <2>5. Cardinality(stranded) \in Nat /\ Cardinality(lost) \in Nat
    BY <2>2, <2>4, FS_CardinalityType
  <2>6. Cardinality(stranded) <= aborted + losses
    BY <2>2, <2>3, <2>4, <2>5
  <2> QED BY <2>6 DEF StrandedAtACost, stranded
<1> QED BY <1>1, CostInvHolds, PTL
=============================================================================
