--------------------------- MODULE PerpBootstrap ---------------------------
(***************************************************************************)
(* How the perp engine comes up (agent/perp-bootstrap.ts, initPerp of      *)
(* perp-routes.ts, the set-up calls of perp.ts).  One boot makes sure of a *)
(* keystore, spawns the signer on it, finds the USDT mint of the last boot *)
(* in the environment file or makes one, and creates whatever of oracle,   *)
(* market, trader account and token account the cluster does not have.     *)
(* Every await is a step; the process may be killed at each of them, with  *)
(* the transaction it was waiting for landing before, after or never, and  *)
(* within each of the two file writes.                                     *)
(***************************************************************************)
EXTENDS Naturals, FiniteSets

CONSTANTS
  Keys,        \* many-time keys keygen may come up with
  Mints,       \* addresses createMint may come up with
  Absent,      \* a file or an account that is not there
  Torn,        \* a file cut off in the middle of its write
  MaxFaults,   \* bound: kills and failed calls
  MaxStops,    \* bound: orderly stops of a serving backend
  MaxWipes,    \* bound: resets of the local cluster
  MaxLosses    \* bound: removals of the directory .demo

ASSUME BootAssumption ==
  /\ Absent \notin Keys \cup Mints /\ Torn \notin Keys \cup Mints
  /\ Absent # Torn
  /\ {MaxFaults, MaxStops, MaxWipes, MaxLosses} \subseteq Nat

VARIABLES
  keystore,   \* perp-keystore.json
  envFile,    \* perp-env.json: the mint it names
  mints,      \* mints on the cluster
  oracle,     \* the cluster has the oracle account
  markets,    \* mints with a market and its vault
  root,       \* xmss_root of the trader account
  atas,       \* mints for which the trader has a token account
  pc,         \* where the backend is; "down" when there is none
  xmssRoot,   \* the key bootstrapPerp has read
  signerKey,  \* the key the signer daemon has read
  usdtMint,   \* sdk.usdtMint
  freshMint,  \* bootstrapPerp's freshMint
  late,       \* transactions of killed backends that may still land
  home,       \* history: the mint first served, while the cluster has it
  orphaned,   \* history: the trader account's key went with the directory
  aborted,    \* history: boots that ended at a mint they had not saved
  faults, stops, wipes, losses   \* bound counters

disk == <<keystore, envFile>>
chain == <<mints, oracle, markets, root, atas>>
memory == <<xmssRoot, signerKey, usdtMint, freshMint>>
history == <<home, orphaned, aborted>>
environment == <<stops, wipes, losses>>
vars == <<disk, chain, pc, memory, late, history, faults, environment>>

(* The awaits that send a transaction, by what it does.                    *)
Sends == {"createMint", "initOracle", "initMarket", "createTrader",
          "createAta", "fundTrader", "fundVault"}

BeforeMint == {"down", "keystore", "keygen", "spawn", "read", "createMint"}

WithMint == {"findMint", "findOracle", "initOracle", "pushPrice",
             "findMarket", "initMarket", "findTrader", "createTrader",
             "findAta", "createAta", "fundTrader", "readTrader",
             "fundVault", "readVault", "save", "saving", "serving"}

Transactions ==
  {tx \in [op : Sends, mint : Mints \cup {Absent}, key : Keys \cup {Absent}] :
     tx.op = "createMint" => tx.mint \in Mints}

BootTypeOK ==
  /\ keystore \in Keys \cup {Absent, Torn}
  /\ envFile \in Mints \cup {Absent, Torn}
  /\ mints \subseteq Mints /\ markets \subseteq Mints /\ atas \subseteq Mints
  /\ oracle \in BOOLEAN
  /\ root \in Keys \cup {Absent}
  /\ pc \in BeforeMint \cup WithMint
  /\ {xmssRoot, signerKey} \subseteq Keys \cup {Absent}
  /\ usdtMint \in Mints \cup {Absent} /\ freshMint \in BOOLEAN
  /\ late \subseteq Transactions
  /\ home \in Mints \cup {Absent} /\ orphaned \in BOOLEAN
  /\ {aborted, faults, stops, wipes, losses} \subseteq Nat

EmptyCluster ==
  /\ mints = {} /\ markets = {} /\ atas = {}
  /\ oracle = FALSE /\ root = Absent

Init ==
  /\ keystore = Absent /\ envFile = Absent
  /\ EmptyCluster
  /\ pc = "down"
  /\ xmssRoot = Absent /\ signerKey = Absent
  /\ usdtMint = Absent /\ freshMint = FALSE
  /\ late = {}
  /\ home = Absent /\ orphaned = FALSE /\ aborted = 0
  /\ faults = 0 /\ stops = 0 /\ wipes = 0 /\ losses = 0
-----------------------------------------------------------------------------
(* TRANSACTIONS, as the programs take them                                 *)

Valid(tx) ==
  \/ tx.op = "createMint" /\ tx.mint \notin mints
  \/ tx.op = "initOracle" /\ ~oracle
  \/ tx.op = "initMarket" /\ oracle /\ tx.mint \in mints \ markets
  \/ tx.op = "createTrader" /\ root = Absent
  \/ tx.op = "createAta" /\ tx.mint \in mints \ atas
  \/ tx.op = "fundTrader" /\ tx.mint \in atas
  \/ tx.op = "fundVault" /\ tx.mint \in markets

Execute(tx) ==
  /\ mints' = mints \cup {m \in {tx.mint} : tx.op = "createMint"}
  /\ oracle' = (oracle \/ tx.op = "initOracle")
  /\ markets' = markets \cup {m \in {tx.mint} : tx.op = "initMarket"}
  /\ root' = IF tx.op = "createTrader" THEN tx.key ELSE root
  /\ atas' = atas \cup {m \in {tx.mint} : tx.op = "createAta"}

Transaction(op, m) == [op |-> op, mint |-> m, key |-> xmssRoot]

(* A new keypair's address is one nobody uses.  Addresses are told apart   *)
(* and nothing more, so any one of those left will do.                     *)
NewMints ==
  Mints \ (mints \cup {envFile, home} \cup {tx.mint : tx \in late})

NewMint == CHOOSE m \in NewMints : TRUE

(* The transactions the backend may be waiting for.                        *)
UnderWay ==
  IF pc = "createMint"
  THEN {Transaction(pc, m) : m \in {x \in NewMints : x = NewMint}}
  ELSE {Transaction(pc, m) : m \in {x \in {usdtMint} : pc \in Sends}}
-----------------------------------------------------------------------------
(* BOOT                                                                    *)

Goto(next) == pc' = next

(* The boot, not serving yet, has a mint, or is making one, that the       *)
(* environment file does not name.                                         *)
Unsaved ==
  \/ pc = "createMint"
  \/ pc \in WithMint \ {"serving"} /\ usdtMint # envFile

(* A call that throws takes the process down: main().catch exits.          *)
Down ==
  /\ pc' = "down"
  /\ aborted' = IF Unsaved THEN aborted + 1 ELSE aborted
  /\ UNCHANGED <<home, orphaned>>

Start ==
  /\ pc = "down"
  /\ Goto("keystore")
  /\ UNCHANGED <<disk, chain, memory, late, history, faults, environment>>

(* Fault: the keystore is made anew whether or not there is one.           *)
AlwaysNewKeystore ==
  /\ pc = "keystore"
  /\ keystore' = Torn /\ Goto("keygen")
  /\ UNCHANGED <<envFile, chain, memory, late, history, faults, environment>>

(* ensurePerpKeystore, before the signer is spawned.  writeFileSync first  *)
(* truncates; what cannot be read back throws.                             *)
EnsureKeystore ==
  /\ pc = "keystore"
  /\ \/ keystore = Absent /\ keystore' = Torn /\ Goto("keygen")
        /\ UNCHANGED history
     \/ keystore = Torn /\ UNCHANGED keystore /\ Down
     \/ keystore \in Keys /\ UNCHANGED <<keystore, history>> /\ Goto("spawn")
  /\ UNCHANGED <<envFile, chain, memory, late, faults, environment>>

Keygen ==
  /\ pc = "keygen"
  /\ \E k \in Keys \ ({root, signerKey} \cup {tx.key : tx \in late}) :
       keystore' = k
  /\ Goto("spawn")
  /\ UNCHANGED <<envFile, chain, memory, late, history, faults, environment>>

SpawnSigner ==
  /\ pc = "spawn"
  /\ signerKey' = keystore
  /\ Goto("read")
  /\ UNCHANGED <<disk, chain, xmssRoot, usdtMint, freshMint, late, history,
                 faults, environment>>

(* bootstrapPerp up to its first await: the keystore, then the environment *)
(* file.                                                                   *)
ReadFiles ==
  /\ pc = "read"
  /\ xmssRoot' = keystore
  /\ \/ envFile \in Mints
        /\ usdtMint' = envFile /\ freshMint' = FALSE
        /\ Goto("findMint") /\ UNCHANGED history
     \/ envFile = Absent
        /\ freshMint' = TRUE /\ Goto("createMint")
        /\ UNCHANGED <<usdtMint, history>>
     \/ envFile = Torn
        /\ UNCHANGED <<usdtMint, freshMint>> /\ Down
  /\ UNCHANGED <<disk, chain, signerKey, late, faults, environment>>

(* Fault: a lookup that fails is taken for a mint that is not there.       *)
FindMintForgiving ==
  /\ pc = "findMint"
  /\ \/ usdtMint \in mints /\ Goto("findOracle")
        /\ UNCHANGED <<freshMint, faults>>
     \/ usdtMint \notin mints /\ Goto("createMint")
        /\ freshMint' = TRUE /\ UNCHANGED faults
     \/ faults < MaxFaults /\ faults' = faults + 1
        /\ freshMint' = TRUE /\ Goto("createMint")
  /\ UNCHANGED <<disk, chain, xmssRoot, signerKey, usdtMint, late, history,
                 environment>>

FindMint ==
  /\ pc = "findMint"
  /\ \/ usdtMint \in mints /\ Goto("findOracle") /\ UNCHANGED freshMint
     \/ usdtMint \notin mints /\ Goto("createMint") /\ freshMint' = TRUE
  /\ UNCHANGED <<disk, chain, xmssRoot, signerKey, usdtMint, late, history,
                 faults, environment>>

(* createUsdt, under an address of its own choosing.                       *)
CreateUsdt ==
  /\ pc = "createMint"
  /\ NewMints # {}
  /\ Execute(Transaction("createMint", NewMint)) /\ usdtMint' = NewMint
  /\ Goto("findOracle")
  /\ UNCHANGED <<disk, xmssRoot, signerKey, freshMint, late, history, faults,
                 environment>>

(* Looks whether something is on the cluster, and goes on to create it or  *)
(* past it.                                                                *)
Find(at, present, make, past) ==
  /\ pc = at
  /\ Goto(IF present THEN past ELSE make)
  /\ UNCHANGED <<disk, chain, memory, late, history, faults, environment>>

AfterAta == IF freshMint THEN "fundTrader" ELSE "readTrader"

(* Fault: the oracle is created without a look.                            *)
InitOracleBlindly == Find("findOracle", FALSE, "initOracle", "pushPrice")

FindOracle == Find("findOracle", oracle, "initOracle", "pushPrice")

FindMarket ==
  Find("findMarket", usdtMint \in markets, "initMarket", "findTrader")

FindTrader == Find("findTrader", root # Absent, "createTrader", "findAta")

FindAta == Find("findAta", usdtMint \in atas, "createAta", AfterAta)

(* The price may be posted or not: the keeper tries again (OracleKeeper of *)
(* PerpServer).                                                            *)
PushPrice == Find("pushPrice", TRUE, "pushPrice", "findMarket")

After(op) ==
  CASE op = "initOracle"   -> "pushPrice"
    [] op = "initMarket"   -> "findTrader"
    [] op = "createTrader" -> "findAta"
    [] op = "createAta"    -> AfterAta
    [] op = "fundTrader"   -> IF freshMint THEN "fundVault" ELSE "readVault"
    [] OTHER               -> "save"

(* Sends a transaction and waits; one that is refused ends the boot.       *)
SendAndConfirm ==
  LET tx == Transaction(pc, usdtMint)
  IN
  /\ pc \in Sends \ {"createMint"}
  /\ \/ Valid(tx) /\ Execute(tx) /\ Goto(After(pc)) /\ UNCHANGED history
     \/ ~Valid(tx) /\ UNCHANGED chain /\ Down
  /\ UNCHANGED <<disk, memory, late, faults, environment>>

(* Tops a balance up if it reads as low: trading moves balances, and a     *)
(* read that fails is a balance of 0 (PerpSDK.balance).                    *)
TopUp(at, fund, past) == \E low \in BOOLEAN : Find(at, ~low, fund, past)

ReadBalances ==
  \/ TopUp("readTrader", "fundTrader", "readVault")
  \/ TopUp("readVault", "fundVault", "save")

FirstServed == IF home = Absent /\ usdtMint \in mints THEN usdtMint ELSE home

(* Fault: the environment is written only if there is none.                *)
SaveOnce ==
  /\ pc = "save"
  /\ \/ envFile = Absent /\ envFile' = Torn /\ Goto("saving")
        /\ UNCHANGED history
     \/ envFile # Absent /\ Goto("serving")
        /\ home' = FirstServed
        /\ UNCHANGED <<envFile, orphaned, aborted>>
  /\ UNCHANGED <<keystore, chain, memory, late, faults, environment>>

(* Every boot writes the environment file, fresh or not.                   *)
Save ==
  /\ pc = "save"
  /\ envFile' = Torn /\ Goto("saving")
  /\ UNCHANGED <<keystore, chain, memory, late, history, faults, environment>>

Serve ==
  /\ pc = "saving"
  /\ envFile' = usdtMint /\ Goto("serving")
  /\ home' = FirstServed
  /\ UNCHANGED <<keystore, chain, memory, late, orphaned, aborted, faults,
                 environment>>

Boot ==
  \/ EnsureKeystore \/ Keygen \/ SpawnSigner
  \/ ReadFiles \/ FindMint \/ CreateUsdt
  \/ FindOracle \/ FindMarket \/ FindTrader \/ FindAta
  \/ SendAndConfirm \/ PushPrice \/ ReadBalances
  \/ Save \/ Serve
-----------------------------------------------------------------------------
(* WHAT CAN HAPPEN TO IT                                                   *)

(* A kill, or a call that fails: what was sent may land all the same.      *)
Abort ==
  /\ pc # "down" /\ faults < MaxFaults
  /\ faults' = faults + 1
  /\ late' \in {late} \cup {late \cup {tx} : tx \in UnderWay}
  /\ Down
  /\ UNCHANGED <<disk, chain, memory, environment>>

Stop ==
  /\ pc = "serving" /\ stops < MaxStops
  /\ stops' = stops + 1
  /\ Down
  /\ UNCHANGED <<disk, chain, memory, late, faults, wipes, losses>>

Land ==
  /\ \E tx \in late :
       /\ late' = late \ {tx}
       /\ IF Valid(tx) THEN Execute(tx) ELSE UNCHANGED chain
  /\ UNCHANGED <<disk, pc, memory, history, faults, environment>>

(* The local cluster is reset; no transaction of the old one is valid on   *)
(* the new one.                                                            *)
Wipe ==
  /\ wipes < MaxWipes
  /\ wipes' = wipes + 1
  /\ mints' = {} /\ markets' = {} /\ atas' = {}
  /\ oracle' = FALSE /\ root' = Absent
  /\ late' = {} /\ home' = Absent /\ orphaned' = FALSE
  /\ UNCHANGED <<disk, pc, memory, aborted, faults, stops, losses>>

(* The directory .demo is removed while the backend is down.               *)
LoseDirectory ==
  /\ pc = "down" /\ losses < MaxLosses
  /\ losses' = losses + 1
  /\ keystore' = Absent /\ envFile' = Absent
  /\ home' = Absent
  /\ orphaned' = (root # Absent \/ \E tx \in late : tx.op = "createTrader")
  /\ UNCHANGED <<chain, pc, memory, late, aborted, faults, stops, wipes>>

Next ==
  \/ Start \/ Boot
  \/ Abort \/ Stop \/ Land \/ Wipe \/ LoseDirectory

Spec == Init /\ [][Next]_vars

(* Whoever runs the backend starts it again, and its awaits are answered   *)
(* or throw.                                                               *)
FairSpec == Spec /\ WF_vars(Start) /\ WF_vars(Boot)
-----------------------------------------------------------------------------
(* PROPERTIES                                                              *)

(* A backend serves the market it served before: whatever crashes, failed  *)
(* calls and late transactions came between, positions survive restarts    *)
(* unless the cluster was reset or the directory removed (bootstrapPerp).  *)
SameMarketAfterRestart ==
  pc = "serving" /\ home # Absent => usdtMint = home

(* The signer has the key the trader account was created with, on disk and *)
(* in the daemon, unless that key went with the directory: what it signs   *)
(* the program accepts (ensurePerpKeystore, createTrader).                 *)
Running == pc \notin {"down", "keystore", "keygen", "spawn"}

SignerHasTraderKey ==
  root # Absent /\ ~orphaned =>
    /\ keystore = root
    /\ Running => signerKey = root

(* Each mint and funded market that no boot will find again cost a boot of *)
(* its own that ended between createUsdt and the end of the write, or a    *)
(* removal of the directory: boots that end before or after that strand    *)
(* none, however late what they sent lands (bootstrapPerp).                *)
Stranded ==
  mints \ ({envFile} \cup {m \in {usdtMint} : pc \in WithMint})

StrandedAtACost == Cardinality(Stranded) <= aborted + losses

(* Every step is safe to repeat: unless a kill within one of the two       *)
(* writes leaves a torn file, boots that fail finitely often are followed  *)
(* by one that comes to serve (bootstrapPerp).                             *)
FilesWhole == pc = "down" => Torn \notin {keystore, envFile}

EventuallyServes == []FilesWhole => <>[](pc = "serving")
=============================================================================
