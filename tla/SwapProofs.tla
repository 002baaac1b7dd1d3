----------------------------- MODULE SwapProofs -----------------------------
(***************************************************************************)
(* Theorems about the swaps, for any pools, holders, agents, deposits,     *)
(* trades, intents, requests and limits.  First the market maker and the   *)
(* agent wallet that trades in it: the pool never loses, the agent's       *)
(* counters are the ledger of a many-time key, and its tokens move only as *)
(* one signed intent says.  Then the swap backend above them: its proof    *)
(* carries the agent's invariants along, and that every step of the        *)
(* backend is one of the agent's is what keeps them.                       *)
(***************************************************************************)
EXTENDS SwapServer, FiniteSumsProofs

-----------------------------------------------------------------------------
(* THE MARKET MAKER                                                        *)

(* Floor division, as the arithmetic below needs it.                       *)
LEMMA DivBounds ==
  ASSUME NEW a \in Nat, NEW b \in Nat, b > 0
  PROVE  /\ a \div b \in Nat
         /\ b * (a \div b) <= a
         /\ \A k \in Nat : a < (k + 1) * b => a \div b <= k
  <1>1. a \div b \in Nat /\ b * (a \div b) <= a
    OBVIOUS
  <1>2. ASSUME NEW k \in Nat, a < (k + 1) * b, a \div b >= k + 1
        PROVE  FALSE
    <2>1. b * (a \div b) >= b * (k + 1)
      BY <1>1, <1>2
    <2> QED
      BY <1>1, <1>2, <2>1
  <1> QED
    BY <1>1, <1>2

(* The fee is taken, never given.                                          *)
LEMMA FeeTaken ==
  ASSUME NEW amount \in Nat
  PROVE  AfterFee(amount) \in 0 .. amount
  BY DEF AfterFee, BpsDenominator, FeeBps

(* The output never exceeds what the curve gives for the input less fee.   *)
LEMMA OutputBound ==
  ASSUME NEW x \in Nat, NEW y \in Nat, x > 0, NEW amount \in Nat
  PROVE  /\ AmountOut(x, y, amount) \in Nat
         /\ AmountOut(x, y, amount) * (x + AfterFee(amount))
              <= y * AfterFee(amount)
  <1> DEFINE n == AfterFee(amount)
  <1>1. n \in Nat
    BY FeeTaken
  <1> HIDE DEF n
  <1>2. y * n \in Nat /\ x + n \in Nat /\ x + n > 0
    BY <1>1
  <1>3. /\ (y * n) \div (x + n) \in Nat
        /\ (x + n) * ((y * n) \div (x + n)) <= y * n
    BY <1>2, DivBounds
  <1>4. (x + n) * ((y * n) \div (x + n)) = ((y * n) \div (x + n)) * (x + n)
    BY <1>2, <1>3
  <1> QED
    BY <1>3, <1>4 DEF AmountOut, n

(* What the curve leaves: if o * (x + n) <= y * n, n of it counted and i   *)
(* taken in, the product of the reserves does not fall.                    *)
LEMMA CurveKeepsProduct ==
  ASSUME NEW x \in Nat, NEW y \in Nat, NEW n \in Nat, NEW i \in Nat,
         NEW o \in Nat, n <= i, o <= y, o * (x + n) <= y * n
  PROVE  (x + i) * (y - o) >= x * y
  <1> DEFINE d == y - o
             e == i - n
  <1>1. d \in Nat /\ e \in Nat /\ y = d + o /\ i = n + e
    OBVIOUS
  <1> HIDE DEF d, e
  <1>2. (x + i) * d = (x + n) * d + e * d
    BY <1>1
  <1>3. e * d >= 0
    BY <1>1
  <1>4. (x + n) * d = (x + n) * y - o * (x + n)
    BY <1>1
  <1>5. (x + n) * y = x * y + y * n
    OBVIOUS
  <1>6. (x + n) * d >= x * y
    BY <1>1, <1>4, <1>5
  <1> QED
    BY <1>1, <1>2, <1>3, <1>6 DEF d

(* And with it x * o <= i * (y - o), from which round trips do not gain.   *)
LEMMA CurveBoundsOutput ==
  ASSUME NEW x \in Nat, NEW y \in Nat, NEW n \in Nat, NEW i \in Nat,
         NEW o \in Nat, n <= i, o <= y, o * (x + n) <= y * n
  PROVE  x * o <= i * (y - o)
  <1> DEFINE d == y - o
             e == i - n
  <1>1. d \in Nat /\ e \in Nat /\ y = d + o /\ i = n + e
    OBVIOUS
  <1> HIDE DEF d, e
  <1>2. o * (x + n) = x * o + o * n
    OBVIOUS
  <1>3. y * n = d * n + o * n
    BY <1>1
  <1>4. x * o \in Nat /\ o * n \in Nat /\ d * n \in Nat /\ e * d \in Nat
    BY <1>1
  <1>5. x * o <= d * n
    BY <1>2, <1>3, <1>4
  <1>6. i * d = d * n + e * d
    BY <1>1
  <1> QED
    BY <1>1, <1>4, <1>5, <1>6 DEF d
-----------------------------------------------------------------------------
(* Type correctness.                                                       *)

USE CpSwapAssumption

LEMMA PoolFields ==
  ASSUME AmmTypeOK, NEW p \in Pools, NEW a_to_b \in BOOLEAN
  PROVE  /\ pool[p].vault_a \in Nat /\ pool[p].vault_b \in Nat
         /\ pool[p].live \in BOOLEAN
         /\ ReserveIn(p, a_to_b) \in Nat /\ ReserveOut(p, a_to_b) \in Nat
         /\ p[1] \in Mints /\ p[2] \in Mints /\ p[1] # p[2]
         /\ InOf(p, a_to_b) \in Mints /\ OutOf(p, a_to_b) \in Mints
         /\ InOf(p, a_to_b) # OutOf(p, a_to_b)
  <1>1. pool[p] \in PoolState
    BY DEF AmmTypeOK
  <1>2. p \in Mints \X Mints /\ p[1] # p[2]
    OBVIOUS
  <1> QED
    BY <1>1, <1>2 DEF PoolState, ReserveIn, ReserveOut, InOf, OutOf

(* What a swap pays out is within the reserve it comes from.               *)
LEMMA SwapOutput ==
  ASSUME AmmTypeOK, NEW p \in Pools, NEW a_to_b \in BOOLEAN,
         NEW h, NEW amount \in Nat, NEW least, Swap(h, p, amount, least, a_to_b)
  PROVE  /\ Out(p, a_to_b, amount) \in Nat
         /\ Out(p, a_to_b, amount) <= ReserveOut(p, a_to_b)
         /\ Out(p, a_to_b, amount) * (ReserveIn(p, a_to_b) + AfterFee(amount))
              <= ReserveOut(p, a_to_b) * AfterFee(amount)
  <1>1. ReserveIn(p, a_to_b) \in Nat /\ ReserveOut(p, a_to_b) \in Nat
    BY PoolFields
  <1>2. ReserveIn(p, a_to_b) > 0
    BY DEF Swap
  <1>3. Out(p, a_to_b, amount) \in Nat
    BY <1>1, <1>2, OutputBound DEF Out
  <1>4. Out(p, a_to_b, amount) < ReserveOut(p, a_to_b)
    BY DEF Swap
  <1> QED
    BY <1>1, <1>2, <1>3, <1>4, OutputBound DEF Out

(* A pool's vaults credited: its own change, no other pool does.           *)
LEMMA VaultsCredited ==
  ASSUME AmmTypeOK, NEW p \in Pools, NEW a \in Int, NEW b \in Int,
         pool[p].vault_a + a >= 0, pool[p].vault_b + b >= 0
  PROVE  LET f == CreditVaults(p, a, b)
         IN  /\ f \in [Pools -> PoolState]
             /\ f[p].vault_a = pool[p].vault_a + a
             /\ f[p].vault_b = pool[p].vault_b + b
             /\ \A q \in Pools \ {p} : f[q] = pool[q]
  <1> DEFINE new == [pool[p] EXCEPT !.vault_a = @ + a, !.vault_b = @ + b]
  <1>1. pool \in [Pools -> PoolState] /\ pool[p] \in PoolState
    BY DEF AmmTypeOK
  <1>2. pool[p].vault_a + a \in Nat /\ pool[p].vault_b + b \in Nat
    BY <1>1 DEF PoolState
  <1>3. /\ new \in PoolState /\ new.vault_a = pool[p].vault_a + a
        /\ new.vault_b = pool[p].vault_b + b
    BY <1>1, <1>2 DEF PoolState
  <1>4. CreditVaults(p, a, b) = [pool EXCEPT ![p] = new]
    BY DEF CreditVaults
  <1> HIDE DEF new
  <1>5. LET f == CreditVaults(p, a, b)
        IN  /\ f \in [Pools -> PoolState] /\ f[p] = new
            /\ \A q \in Pools \ {p} : f[q] = pool[q]
    BY <1>1, <1>3, <1>4
  <1> QED
    BY <1>3, <1>5

(* One holder's accounts of two tokens.                                    *)
LEMMA CreditBoth ==
  ASSUME AmmTypeOK, NEW h \in Holders, NEW x \in Mints, NEW y \in Mints,
         x # y, NEW d \in Int, NEW e \in Int,
         balance[h][x] + d >= 0, balance[h][y] + e >= 0
  PROVE  LET b == Credit(Credit(balance, h, x, d), h, y, e)
         IN  /\ b \in [Holders -> [Mints -> Nat]]
             /\ \A g \in Holders \ {h} : b[g] = balance[g]
             /\ \A z \in Mints :
                  b[h][z] = IF z = x THEN balance[h][z] + d
                            ELSE IF z = y THEN balance[h][z] + e
                            ELSE balance[h][z]
  <1> DEFINE c == Credit(balance, h, x, d)
             b == Credit(c, h, y, e)
  <1>1. balance \in [Holders -> [Mints -> Nat]]
    BY DEF AmmTypeOK
  <1>2. balance \in [Holders -> [Mints -> Int]]
    BY <1>1
  <1> HIDE DEF b
  <1>3. /\ c \in [Holders -> [Mints -> Int]]
        /\ \A g \in Holders \ {h} : c[g] = balance[g]
        /\ \A z \in Mints :
             c[h][z] = IF z = x THEN balance[h][z] + d ELSE balance[h][z]
    BY <1>2 DEF Credit
  <1> HIDE DEF c
  <1>4. /\ b \in [Holders -> [Mints -> Int]]
        /\ \A g \in Holders \ {h} : b[g] = c[g]
        /\ \A z \in Mints : b[h][z] = IF z = y THEN c[h][z] + e ELSE c[h][z]
    BY <1>3 DEF b, Credit
  <1>5. \A z \in Mints :
          b[h][z] = IF z = x THEN balance[h][z] + d
                    ELSE IF z = y THEN balance[h][z] + e
                    ELSE balance[h][z]
    BY <1>3, <1>4
  <1>6. \A g \in Holders, z \in Mints : b[g][z] \in Nat
    <2> TAKE g \in Holders, z \in Mints
    <2>1. CASE g = h
      BY <1>1, <1>5, <2>1
    <2>2. CASE g # h
      BY <1>1, <1>3, <1>4, <2>2
    <2> QED
      BY <2>1, <2>2
  <1>7. b \in [Holders -> [Mints -> Nat]]
    <2>1. \A g \in Holders : b[g] \in [Mints -> Nat]
      BY <1>4, <1>6
    <2> QED
      BY <1>4, <2>1
  <1> QED
    BY <1>3, <1>4, <1>5, <1>7 DEF b, c

(* The vaults after a swap.                                                *)
LEMMA VaultsAfterSwap ==
  ASSUME AmmTypeOK, NEW p \in Pools, NEW a_to_b \in BOOLEAN,
         NEW h, NEW amount \in Nat, NEW least, Swap(h, p, amount, least, a_to_b)
  PROVE  /\ pool' \in [Pools -> PoolState]
         /\ \A q \in Pools \ {p} : pool'[q] = pool[q]
         /\ LET out == Out(p, a_to_b, amount)
            IN  /\ a_to_b => /\ pool'[p].vault_a = pool[p].vault_a + amount
                             /\ pool'[p].vault_b = pool[p].vault_b - out
                /\ ~a_to_b => /\ pool'[p].vault_b = pool[p].vault_b + amount
                              /\ pool'[p].vault_a = pool[p].vault_a - out
  <1> DEFINE out == Out(p, a_to_b, amount)
             a == IF a_to_b THEN amount ELSE -out
             b == IF a_to_b THEN -out ELSE amount
  <1>1. out \in Nat /\ out <= ReserveOut(p, a_to_b)
    BY SwapOutput
  <1>2. pool[p].vault_a \in Nat /\ pool[p].vault_b \in Nat
    BY PoolFields
  <1>3. pool' = TakeIn(p, a_to_b, amount, out)
    BY DEF Swap
  <1> HIDE DEF out
  <1>4. /\ a \in Int /\ b \in Int
        /\ pool[p].vault_a + a >= 0 /\ pool[p].vault_b + b >= 0
    BY <1>1, <1>2 DEF ReserveOut
  <1>5. pool' = CreditVaults(p, a, b)
    BY <1>3 DEF TakeIn
  <1> HIDE DEF a, b
  <1>6. /\ pool' \in [Pools -> PoolState]
        /\ pool'[p].vault_a = pool[p].vault_a + a
        /\ pool'[p].vault_b = pool[p].vault_b + b
        /\ \A q \in Pools \ {p} : pool'[q] = pool[q]
    BY <1>4, <1>5, VaultsCredited
  <1>7. /\ a_to_b => a = amount /\ b = -out
        /\ ~a_to_b => a = -out /\ b = amount
    BY DEF a, b
  <1>8. /\ a_to_b => /\ pool'[p].vault_a = pool[p].vault_a + amount
                     /\ pool'[p].vault_b = pool[p].vault_b - out
        /\ ~a_to_b => /\ pool'[p].vault_b = pool[p].vault_b + amount
                      /\ pool'[p].vault_a = pool[p].vault_a - out
    BY <1>1, <1>2, <1>6, <1>7
  <1> QED
    BY <1>6, <1>8 DEF out

(* And after a deposit.                                                    *)
LEMMA VaultsAfterDeposit ==
  ASSUME AmmTypeOK, NEW p \in Pools, NEW h, NEW d \in Nat, NEW e \in Nat,
         AddLiquidity(h, p, d, e)
  PROVE  /\ pool' \in [Pools -> PoolState]
         /\ pool'[p].vault_a = pool[p].vault_a + d
         /\ pool'[p].vault_b = pool[p].vault_b + e
         /\ \A q \in Pools \ {p} : pool'[q] = pool[q]
  <1>1. pool[p].vault_a \in Nat /\ pool[p].vault_b \in Nat
    <2>1. pool[p] \in PoolState
      BY DEF AmmTypeOK
    <2> QED
      BY <2>1 DEF PoolState
  <1>2. pool[p].vault_a + d >= 0 /\ pool[p].vault_b + e >= 0
    BY <1>1
  <1>3. pool' = CreditVaults(p, d, e)
    BY DEF AddLiquidity
  <1> QED
    BY <1>2, <1>3, VaultsCredited

(* The accounts of the holder after a deposit and after a swap.            *)
LEMMA BalancesAfterDeposit ==
  ASSUME AmmTypeOK, NEW p \in Pools, NEW h \in Holders,
         NEW d \in Nat, NEW e \in Nat, AddLiquidity(h, p, d, e)
  PROVE  /\ balance' \in [Holders -> [Mints -> Nat]]
         /\ \A g \in Holders \ {h} : balance'[g] = balance[g]
         /\ \A z \in Mints :
              balance'[h][z] = IF z = p[1] THEN balance[h][z] - d
                               ELSE IF z = p[2] THEN balance[h][z] - e
                               ELSE balance[h][z]
  <1>1. p[1] \in Mints /\ p[2] \in Mints /\ p[1] # p[2]
    BY PoolFields
  <1>2. \A z \in Mints : balance[h][z] \in Nat
    BY DEF AmmTypeOK
  <1>3. balance[h][p[1]] + (-d) >= 0 /\ balance[h][p[2]] + (-e) >= 0
    BY <1>1, <1>2 DEF AddLiquidity
  <1>4. balance' = Credit(Credit(balance, h, p[1], -d), h, p[2], -e)
    BY DEF AddLiquidity
  <1>5. /\ balance' \in [Holders -> [Mints -> Nat]]
        /\ \A g \in Holders \ {h} : balance'[g] = balance[g]
        /\ \A z \in Mints :
             balance'[h][z] = IF z = p[1] THEN balance[h][z] + (-d)
                              ELSE IF z = p[2] THEN balance[h][z] + (-e)
                              ELSE balance[h][z]
    BY <1>1, <1>3, <1>4, CreditBoth
  <1> QED
    BY <1>2, <1>5

LEMMA BalancesAfterSwap ==
  ASSUME AmmTypeOK, NEW p \in Pools, NEW a_to_b \in BOOLEAN,
         NEW h \in Holders, NEW amount \in Nat, NEW least,
         Swap(h, p, amount, least, a_to_b)
  PROVE  /\ balance' \in [Holders -> [Mints -> Nat]]
         /\ \A g \in Holders \ {h} : balance'[g] = balance[g]
         /\ \A z \in Mints :
              balance'[h][z] =
                IF z = InOf(p, a_to_b) THEN balance[h][z] - amount
                ELSE IF z = OutOf(p, a_to_b)
                     THEN balance[h][z] + Out(p, a_to_b, amount)
                     ELSE balance[h][z]
  <1> DEFINE in == InOf(p, a_to_b)
             to == OutOf(p, a_to_b)
             out == Out(p, a_to_b, amount)
  <1>1. in \in Mints /\ to \in Mints /\ in # to
    BY PoolFields
  <1>2. \A z \in Mints : balance[h][z] \in Nat
    BY DEF AmmTypeOK
  <1>3. out \in Nat
    BY SwapOutput
  <1>4. /\ amount <= balance[h][in]
        /\ balance' = Credit(Credit(balance, h, in, -amount), h, to, out)
    BY DEF Swap
  <1> HIDE DEF in, to, out
  <1>5. balance[h][in] + (-amount) >= 0 /\ balance[h][to] + out >= 0
    BY <1>1, <1>2, <1>3, <1>4
  <1>6. /\ balance' \in [Holders -> [Mints -> Nat]]
        /\ \A g \in Holders \ {h} : balance'[g] = balance[g]
        /\ \A z \in Mints :
             balance'[h][z] = IF z = in THEN balance[h][z] + (-amount)
                              ELSE IF z = to THEN balance[h][z] + out
                              ELSE balance[h][z]
    BY <1>1, <1>3, <1>4, <1>5, CreditBoth
  <1>7. \A z \in Mints :
          balance'[h][z] = IF z = in THEN balance[h][z] - amount
                           ELSE IF z = to THEN balance[h][z] + out
                           ELSE balance[h][z]
    BY <1>2, <1>6
  <1> QED
    BY <1>6, <1>7 DEF in, to, out

LEMMA AmmTypeInit == AmmInit => AmmTypeOK
  BY DEF AmmInit, AmmTypeOK, PoolState

LEMMA SwapTypes ==
  ASSUME AmmTypeOK, NEW p \in Pools, NEW a_to_b \in BOOLEAN,
         NEW h \in Holders, NEW amount \in Nat, NEW least,
         Swap(h, p, amount, least, a_to_b)
  PROVE  AmmTypeOK'
  BY VaultsAfterSwap, BalancesAfterSwap DEF AmmTypeOK, Swap

LEMMA AmmTypeNext == AmmTypeOK /\ [AmmNext(Holders)]_ammVars => AmmTypeOK'
  <1> SUFFICES ASSUME AmmTypeOK, [AmmNext(Holders)]_ammVars PROVE AmmTypeOK'
    OBVIOUS
  <1>1. ASSUME NEW h \in Holders, NEW x \in Mints, NEW d \in Deposits,
               MintTo(h, x, d)
        PROVE  AmmTypeOK'
    <2>1. d \in Nat
      OBVIOUS
    <2>2. balance' \in [Holders -> [Mints -> Nat]]
      BY <1>1, <2>1 DEF AmmTypeOK, MintTo, Credit
    <2> QED
      BY <1>1, <2>1, <2>2 DEF AmmTypeOK, MintTo
  <1>2. ASSUME NEW p \in Pools, InitPool(p)
        PROVE  AmmTypeOK'
    BY <1>2 DEF AmmTypeOK, InitPool, PoolState
  <1>3. ASSUME NEW h \in Holders, NEW p \in Pools, NEW d \in Deposits,
               NEW e \in Deposits, AddLiquidity(h, p, d, e)
        PROVE  AmmTypeOK'
    <2>1. d \in Nat /\ e \in Nat
      OBVIOUS
    <2>4. balance' \in [Holders -> [Mints -> Nat]]
      BY <1>3, <2>1, BalancesAfterDeposit
    <2>5. pool' \in [Pools -> PoolState]
      BY <1>3, <2>1, VaultsAfterDeposit
    <2> QED
      BY <1>3, <2>4, <2>5 DEF AmmTypeOK, AddLiquidity
  <1>4. ASSUME NEW h \in Holders, NEW p \in Pools, NEW amount \in Trades,
               NEW a_to_b \in BOOLEAN, Swap(h, p, amount, 0, a_to_b)
        PROVE  AmmTypeOK'
    <2>1. amount \in Nat
      OBVIOUS
    <2> QED
      BY <1>4, <2>1, SwapTypes
  <1>5. ASSUME UNCHANGED ammVars
        PROVE  AmmTypeOK'
    BY <1>5 DEF AmmTypeOK, ammVars
  <1> QED
    BY <1>1, <1>2, <1>3, <1>4, <1>5 DEF AmmNext

(* Balances and reserves are never negative (AmmTypeOK): a swap is always  *)
(* covered by the reserve it draws on (swap, add_liquidity).               *)
THEOREM AmmTypeCorrect == AmmSpec => []AmmTypeOK
  BY AmmTypeInit, AmmTypeNext, PTL DEF AmmSpec
-----------------------------------------------------------------------------
(* The product of the reserves.                                            *)

LEMMA SwapKeepsProduct ==
  ASSUME AmmTypeOK, NEW p \in Pools, NEW a_to_b \in BOOLEAN,
         NEW h, NEW amount \in Nat, NEW least, Swap(h, p, amount, least, a_to_b)
  PROVE  ProductHolds
  <1> DEFINE x == ReserveIn(p, a_to_b)
             y == ReserveOut(p, a_to_b)
             n == AfterFee(amount)
             out == Out(p, a_to_b, amount)
  <1>1. x \in Nat /\ y \in Nat /\ pool[p].vault_a \in Nat
        /\ pool[p].vault_b \in Nat
    BY PoolFields
  <1>2. out \in Nat /\ out <= y /\ out * (x + n) <= y * n
    BY SwapOutput
  <1>3. n \in Nat /\ n <= amount
    BY FeeTaken
  <1>4. /\ a_to_b => /\ pool'[p].vault_a = pool[p].vault_a + amount
                     /\ pool'[p].vault_b = pool[p].vault_b - out
        /\ ~a_to_b => /\ pool'[p].vault_b = pool[p].vault_b + amount
                      /\ pool'[p].vault_a = pool[p].vault_a - out
        /\ \A q \in Pools \ {p} : pool'[q] = pool[q]
    BY VaultsAfterSwap
  <1>5. /\ a_to_b => x = pool[p].vault_a /\ y = pool[p].vault_b
        /\ ~a_to_b => x = pool[p].vault_b /\ y = pool[p].vault_a
    BY DEF ReserveIn, ReserveOut
  <1> HIDE DEF x, y, n, out
  <1>6. (x + amount) * (y - out) >= x * y
    BY <1>1, <1>2, <1>3, CurveKeepsProduct
  <1>7. pool'[p].vault_a * pool'[p].vault_b
          >= pool[p].vault_a * pool[p].vault_b
    <2>1. CASE a_to_b
      BY <1>4, <1>5, <1>6, <2>1
    <2>2. CASE ~a_to_b
      <3>1. pool'[p].vault_b * pool'[p].vault_a
              >= pool[p].vault_b * pool[p].vault_a
        BY <1>4, <1>5, <1>6, <2>2
      <3>2. y - out \in Nat /\ x + amount \in Nat
        BY <1>1, <1>2
      <3>3. pool'[p].vault_a \in Nat /\ pool'[p].vault_b \in Nat
        BY <1>4, <1>5, <2>2, <3>2
      <3> QED
        BY <1>1, <3>1, <3>3
    <2> QED
      BY <2>1, <2>2
  <1>8. ASSUME NEW q \in Pools, q # p
        PROVE  pool'[q].vault_a * pool'[q].vault_b
                 >= pool[q].vault_a * pool[q].vault_b
    <2>1. pool[q].vault_a \in Nat /\ pool[q].vault_b \in Nat
      BY PoolFields
    <2> QED
      BY <1>4, <1>8, <2>1
  <1> QED
    BY <1>7, <1>8 DEF ProductHolds, Product

LEMMA ProductStep ==
  ASSUME AmmTypeOK, AmmNext(Holders)
  PROVE  ProductHolds
  <1> SUFFICES ASSUME NEW q \in Pools PROVE Product(q)' >= Product(q)
    BY DEF ProductHolds
  <1>0. pool[q].vault_a \in Nat /\ pool[q].vault_b \in Nat
    BY PoolFields
  <1>1. ASSUME UNCHANGED pool PROVE Product(q)' >= Product(q)
    BY <1>0, <1>1 DEF Product
  <1>2. ASSUME NEW p \in Pools, InitPool(p)
        PROVE  Product(q)' >= Product(q)
    <2>1. /\ pool'[q].vault_a = pool[q].vault_a
          /\ pool'[q].vault_b = pool[q].vault_b
      BY <1>2 DEF InitPool, AmmTypeOK, PoolState
    <2> QED
      BY <1>0, <2>1 DEF Product
  <1>3. ASSUME NEW h \in Holders, NEW p \in Pools, NEW d \in Deposits,
               NEW e \in Deposits, AddLiquidity(h, p, d, e)
        PROVE  Product(q)' >= Product(q)
    <2> DEFINE a == pool[q].vault_a
               b == pool[q].vault_b
    <2>1. d \in Nat /\ e \in Nat
      OBVIOUS
    <2>2. \E u, v \in Nat : pool'[q].vault_a = a + u /\ pool'[q].vault_b = b + v
      <3>1. CASE q = p
        <4>1. pool'[q].vault_a = a + d /\ pool'[q].vault_b = b + e
          BY <1>3, <2>1, <3>1, VaultsAfterDeposit
        <4> QED
          BY <2>1, <4>1
      <3>2. CASE q # p
        <4>1. pool'[q].vault_a = a + 0 /\ pool'[q].vault_b = b + 0
          BY <1>0, <1>3, <2>1, <3>2, VaultsAfterDeposit
        <4> QED
          BY <4>1
      <3> QED
        BY <3>1, <3>2
    <2>3. PICK u \in Nat, v \in Nat :
            pool'[q].vault_a = a + u /\ pool'[q].vault_b = b + v
      BY <2>2
    <2> HIDE DEF a, b
    <2>4. a \in Nat /\ b \in Nat
      BY <1>0 DEF a, b
    <2>5. (a + u) * (b + v) = a * b + a * v + u * b + u * v
      BY <2>4
    <2>6. a * v \in Nat /\ u * b \in Nat /\ u * v \in Nat /\ a * b \in Nat
      BY <2>4
    <2>7. (a + u) * (b + v) >= a * b
      BY <2>5, <2>6
    <2> QED
      BY <2>3, <2>7 DEF Product, a, b
  <1>4. ASSUME NEW h \in Holders, NEW p \in Pools, NEW amount \in Trades,
               NEW a_to_b \in BOOLEAN, Swap(h, p, amount, 0, a_to_b)
        PROVE  Product(q)' >= Product(q)
    <2>1. amount \in Nat
      OBVIOUS
    <2> QED
      BY <1>4, <2>1, SwapKeepsProduct DEF ProductHolds
  <1> QED
    BY <1>1, <1>2, <1>3, <1>4 DEF AmmNext, MintTo

(* No step lowers the product of a pool's reserves (ProductNeverFalls),    *)
(* for all reserves, amounts and pools: the rounding and the fee always    *)
(* favour the pool (swap).                                                 *)
THEOREM ProductKept == AmmSpec => ProductNeverFalls
  <1>1. AmmTypeOK /\ [AmmNext(Holders)]_ammVars => [ProductHolds]_pool
    BY ProductStep DEF ammVars
  <1> QED
    BY <1>1, AmmTypeCorrect, PTL DEF AmmSpec, ProductNeverFalls
-----------------------------------------------------------------------------
(* Round trips.                                                            *)

LEMMA RoundTrip ==
  ASSUME NEW x \in Nat, NEW y \in Nat, x > 0, NEW amount \in Nat,
         AmountOut(x, y, amount) < y
  PROVE  LET out == AmountOut(x, y, amount)
         IN  AmountOut(y - out, x + amount, out) <= amount
  <1> DEFINE n == AfterFee(amount)
             o == AmountOut(x, y, amount)
             m == AfterFee(o)
             d == y - o
  <1>1. n \in Nat /\ n <= amount
    BY FeeTaken
  <1>2. o \in Nat /\ o * (x + n) <= y * n
    BY OutputBound
  <1>3. m \in Nat /\ m <= o
    BY <1>2, FeeTaken
  <1>4. x * o <= amount * d
    <2> HIDE DEF n, o
    <2> QED
      BY <1>1, <1>2, CurveBoundsOutput DEF o
  <1>5. d \in Nat /\ d > 0
    BY <1>2
  <1> HIDE DEF n, o, m, d
  <1>6. x * m <= x * o
    <2>1. \E k \in Nat : o = m + k
      BY <1>2, <1>3
    <2>2. PICK k \in Nat : o = m + k
      BY <2>1
    <2>3. x * o = x * m + x * k /\ x * k \in Nat /\ x * m \in Nat
      BY <1>3, <2>2
    <2> QED
      BY <2>3
  <1>7. (x + amount) * m \in Nat /\ d + m \in Nat /\ d + m > 0
    BY <1>3, <1>5
  <1>8. (x + amount) * m < (amount + 1) * (d + m)
    <2>1. (x + amount) * m = x * m + amount * m
      BY <1>3
    <2>2. (amount + 1) * (d + m) = amount * d + amount * m + d + m
      BY <1>3, <1>5
    <2>3. /\ x * m \in Nat /\ amount * m \in Nat /\ x * o \in Nat
          /\ amount * d \in Nat
      BY <1>2, <1>3, <1>5
    <2> QED
      BY <1>3, <1>4, <1>5, <1>6, <2>1, <2>2, <2>3
  <1>9. ((x + amount) * m) \div (d + m) <= amount
    BY <1>7, <1>8, DivBounds
  <1>10. AmountOut(d, x + amount, o) = ((x + amount) * m) \div (d + m)
    BY DEF AmountOut, m
  <1> QED
    BY <1>9, <1>10 DEF d, o

LEMMA RoundTripsAt == AmmTypeOK => RoundTripNeverGains
  <1> SUFFICES ASSUME AmmTypeOK, NEW p \in Pools, NEW a_to_b \in BOOLEAN,
                      NEW amount \in Trades,
                      ReserveIn(p, a_to_b) > 0,
                      AmountOut(ReserveIn(p, a_to_b), ReserveOut(p, a_to_b),
                                amount) < ReserveOut(p, a_to_b)
               PROVE  LET x == ReserveIn(p, a_to_b)
                          y == ReserveOut(p, a_to_b)
                          out == AmountOut(x, y, amount)
                      IN  AmountOut(y - out, x + amount, out) <= amount
    BY DEF RoundTripNeverGains
  <1>1. /\ ReserveIn(p, a_to_b) \in Nat /\ ReserveOut(p, a_to_b) \in Nat
        /\ amount \in Nat
    BY PoolFields
  <1> QED
    BY <1>1, RoundTrip

(* Trading back and forth never gains (RoundTripNeverGains), for all       *)
(* reserves and amounts (swap).                                            *)
THEOREM RoundTripsNeverGain == AmmSpec => []RoundTripNeverGains
  BY RoundTripsAt, AmmTypeCorrect, PTL
-----------------------------------------------------------------------------
(* Conservation of tokens.                                                 *)

HeldBy(x) == [h \in Holders |-> balance[h][x]]
InVaults(x) == [p \in Pools |-> VaultOf(p, x)]

LEMMA WeightsType ==
  ASSUME AmmTypeOK, NEW x \in Mints
  PROVE  /\ \A h \in Holders : HeldBy(x)[h] \in Nat
         /\ \A p \in Pools : InVaults(x)[p] \in Nat
  <1>1. \A h \in Holders : balance[h][x] \in Nat
    BY DEF AmmTypeOK
  <1>2. \A p \in Pools : pool[p].vault_a \in Nat /\ pool[p].vault_b \in Nat
    BY PoolFields
  <1> QED
    BY <1>1, <1>2 DEF HeldBy, InVaults, VaultOf

(* One holder and one pool exchange tokens, whatever they are.             *)
LEMMA ExchangeConserves ==
  ASSUME AmmTypeOK, AmmTypeOK', NEW h \in Holders, NEW p \in Pools,
         \A g \in Holders \ {h} : balance'[g] = balance[g],
         \A q \in Pools \ {p} : pool'[q] = pool[q],
         \A x \in Mints :
           balance'[h][x] + VaultOf(p, x)' = balance[h][x] + VaultOf(p, x),
         minted' = minted, TokensConserved
  PROVE  TokensConserved'
  <1> SUFFICES ASSUME NEW x \in Mints
               PROVE  SumOver(HeldBy(x), Holders)'
                        + SumOver(InVaults(x), Pools)' = minted'[x]
    BY DEF TokensConserved, HeldBy, InVaults
  <1>1. /\ \A g \in Holders : HeldBy(x)[g] \in Nat
        /\ \A q \in Pools : InVaults(x)[q] \in Nat
    BY WeightsType
  <1>2. /\ \A g \in Holders : HeldBy(x)'[g] \in Nat
        /\ \A q \in Pools : InVaults(x)'[q] \in Nat
    <2>1. \A g \in Holders : balance'[g][x] \in Nat
      BY DEF AmmTypeOK
    <2>2. \A q \in Pools : pool'[q].vault_a \in Nat /\ pool'[q].vault_b \in Nat
      BY DEF AmmTypeOK, PoolState
    <2> QED
      BY <2>1, <2>2 DEF HeldBy, InVaults, VaultOf
  <1>3. \A g \in Holders \ {h} : HeldBy(x)'[g] = HeldBy(x)[g]
    BY DEF HeldBy
  <1>4. \A q \in Pools \ {p} : InVaults(x)'[q] = InVaults(x)[q]
    BY DEF InVaults, VaultOf
  <1>5. SumOver(HeldBy(x), Holders)'
          = SumOver(HeldBy(x), Holders) - HeldBy(x)[h] + HeldBy(x)'[h]
    BY <1>1, <1>2, <1>3, SumUpdate
  <1>6. SumOver(InVaults(x), Pools)'
          = SumOver(InVaults(x), Pools) - InVaults(x)[p] + InVaults(x)'[p]
    BY <1>1, <1>2, <1>4, SumUpdate
  <1>7. HeldBy(x)'[h] + InVaults(x)'[p] = HeldBy(x)[h] + InVaults(x)[p]
    BY DEF HeldBy, InVaults
  <1>8. SumOver(HeldBy(x), Holders) + SumOver(InVaults(x), Pools) = minted[x]
    BY DEF TokensConserved, HeldBy, InVaults
  <1>9. SumOver(HeldBy(x), Holders) \in Nat /\ SumOver(InVaults(x), Pools) \in Nat
    BY <1>1, SumType
  <1> QED
    BY <1>1, <1>2, <1>5, <1>6, <1>7, <1>8, <1>9

LEMMA ConservedInit == AmmInit => TokensConserved
  <1> SUFFICES ASSUME AmmInit, NEW x \in Mints
               PROVE  SumOver(HeldBy(x), Holders)
                        + SumOver(InVaults(x), Pools) = minted[x]
    BY DEF TokensConserved, HeldBy, InVaults
  <1>1. /\ \A h \in Holders : HeldBy(x)[h] = 0
        /\ \A p \in Pools : InVaults(x)[p] = 0
    BY DEF AmmInit, HeldBy, InVaults, VaultOf
  <1>2. Units(HeldBy(x), Holders) = {} /\ Units(InVaults(x), Pools) = {}
    BY <1>1 DEF Units
  <1>3. Cardinality({}) = 0
    BY FS_EmptySet
  <1>4. minted[x] = 0
    BY DEF AmmInit
  <1> QED
    BY <1>2, <1>3, <1>4 DEF SumOver

LEMMA MintConserves ==
  ASSUME AmmTypeOK, TokensConserved, NEW h \in Holders, NEW y \in Mints,
         NEW d \in Nat, MintTo(h, y, d)
  PROVE  TokensConserved'
  <1> SUFFICES ASSUME NEW x \in Mints
               PROVE  SumOver(HeldBy(x), Holders)'
                        + SumOver(InVaults(x), Pools)' = minted'[x]
    BY DEF TokensConserved, HeldBy, InVaults
  <1>1. /\ \A g \in Holders : HeldBy(x)[g] \in Nat
        /\ \A q \in Pools : InVaults(x)[q] \in Nat
    BY WeightsType
  <1>2. /\ balance' = Credit(balance, h, y, d)
        /\ minted' = [minted EXCEPT ![y] = @ + d]
        /\ pool' = pool
    BY DEF MintTo
  <1>3. SumOver(InVaults(x), Pools)' = SumOver(InVaults(x), Pools)
    BY <1>2 DEF InVaults, VaultOf
  <1>4. /\ \A g \in Holders \ {h} : HeldBy(x)'[g] = HeldBy(x)[g]
        /\ HeldBy(x)'[h] = IF x = y THEN HeldBy(x)[h] + d ELSE HeldBy(x)[h]
    BY <1>2 DEF HeldBy, AmmTypeOK, Credit
  <1>5. HeldBy(x)'[h] \in Nat
    BY <1>1, <1>4
  <1>6. SumOver(HeldBy(x), Holders)'
          = SumOver(HeldBy(x), Holders) - HeldBy(x)[h] + HeldBy(x)'[h]
    BY <1>1, <1>4, <1>5, SumUpdate
  <1>7. SumOver(HeldBy(x), Holders) + SumOver(InVaults(x), Pools) = minted[x]
    BY DEF TokensConserved, HeldBy, InVaults
  <1>8. SumOver(HeldBy(x), Holders) \in Nat /\ SumOver(InVaults(x), Pools) \in Nat
    BY <1>1, SumType
  <1>9. minted'[x] = IF x = y THEN minted[x] + d ELSE minted[x]
    BY <1>2 DEF AmmTypeOK
  <1> QED
    BY <1>1, <1>3, <1>4, <1>6, <1>7, <1>8, <1>9

LEMMA DepositConserves ==
  ASSUME AmmTypeOK, AmmTypeOK', TokensConserved, NEW h \in Holders,
         NEW p \in Pools, NEW d \in Nat, NEW e \in Nat,
         AddLiquidity(h, p, d, e)
  PROVE  TokensConserved'
  <1>1. p[1] \in Mints /\ p[2] \in Mints /\ p[1] # p[2]
    BY PoolFields
  <1>2. /\ pool'[p].vault_a = pool[p].vault_a + d
        /\ pool'[p].vault_b = pool[p].vault_b + e
        /\ \A q \in Pools \ {p} : pool'[q] = pool[q]
        /\ pool[p].vault_a \in Nat /\ pool[p].vault_b \in Nat
    BY VaultsAfterDeposit, PoolFields
  <1>4. /\ \A g \in Holders \ {h} : balance'[g] = balance[g]
        /\ \A x \in Mints :
             balance'[h][x] = IF x = p[1] THEN balance[h][x] - d
                              ELSE IF x = p[2] THEN balance[h][x] - e
                              ELSE balance[h][x]
    BY BalancesAfterDeposit
  <1>5. \A x \in Mints : balance[h][x] \in Nat
    BY DEF AmmTypeOK
  <1>6. \A x \in Mints :
          balance'[h][x] + VaultOf(p, x)' = balance[h][x] + VaultOf(p, x)
    BY <1>1, <1>2, <1>4, <1>5 DEF VaultOf
  <1>7. minted' = minted
    BY DEF AddLiquidity
  <1> QED
    BY <1>2, <1>4, <1>6, <1>7, ExchangeConserves

LEMMA SwapConserves ==
  ASSUME AmmTypeOK, AmmTypeOK', TokensConserved, NEW h \in Holders,
         NEW p \in Pools, NEW amount \in Nat, NEW least,
         NEW a_to_b \in BOOLEAN, Swap(h, p, amount, least, a_to_b)
  PROVE  TokensConserved'
  <1> DEFINE in == InOf(p, a_to_b)
             to == OutOf(p, a_to_b)
             out == Out(p, a_to_b, amount)
  <1>1. in \in Mints /\ to \in Mints /\ in # to
    BY PoolFields
  <1>2. /\ a_to_b => /\ in = p[1] /\ to = p[2]
                     /\ pool'[p].vault_a = pool[p].vault_a + amount
                     /\ pool'[p].vault_b = pool[p].vault_b - out
        /\ ~a_to_b => /\ in = p[2] /\ to = p[1]
                      /\ pool'[p].vault_b = pool[p].vault_b + amount
                      /\ pool'[p].vault_a = pool[p].vault_a - out
        /\ \A q \in Pools \ {p} : pool'[q] = pool[q]
        /\ pool[p].vault_a \in Nat /\ pool[p].vault_b \in Nat
    BY VaultsAfterSwap, PoolFields DEF InOf, OutOf
  <1>4. out \in Nat
    BY SwapOutput
  <1>5. minted' = minted
    BY DEF Swap
  <1>6. /\ \A g \in Holders \ {h} : balance'[g] = balance[g]
        /\ \A x \in Mints :
             balance'[h][x] = IF x = in THEN balance[h][x] - amount
                              ELSE IF x = to THEN balance[h][x] + out
                              ELSE balance[h][x]
    BY BalancesAfterSwap
  <1> HIDE DEF in, to, out
  <1>7. \A x \in Mints : balance[h][x] \in Nat
    BY DEF AmmTypeOK
  <1>8. \A x \in Mints :
          balance'[h][x] + VaultOf(p, x)' = balance[h][x] + VaultOf(p, x)
    BY <1>1, <1>2, <1>4, <1>6, <1>7 DEF VaultOf
  <1> QED
    BY <1>2, <1>5, <1>6, <1>8, ExchangeConserves

LEMMA ConservedNext ==
  AmmTypeOK /\ AmmTypeOK' /\ TokensConserved /\ [AmmNext(Holders)]_ammVars
    => TokensConserved'
  <1> SUFFICES ASSUME AmmTypeOK, AmmTypeOK', TokensConserved,
                      [AmmNext(Holders)]_ammVars
               PROVE  TokensConserved'
    OBVIOUS
  <1>1. ASSUME NEW h \in Holders, NEW x \in Mints, NEW d \in Deposits,
               MintTo(h, x, d)
        PROVE  TokensConserved'
    BY <1>1, MintConserves
  <1>2. ASSUME NEW p \in Pools, InitPool(p)
        PROVE  TokensConserved'
    <2>1. \A q \in Pools : /\ pool'[q].vault_a = pool[q].vault_a
                           /\ pool'[q].vault_b = pool[q].vault_b
      BY <1>2 DEF InitPool, AmmTypeOK, PoolState
    <2>2. \A x \in Mints : InVaults(x)' = InVaults(x)
      BY <2>1 DEF InVaults, VaultOf
    <2>3. \A x \in Mints : SumOver(InVaults(x), Pools)' = SumOver(InVaults(x), Pools)
      BY <2>2
    <2> QED
      BY <1>2, <2>3 DEF TokensConserved, InVaults, InitPool
  <1>3. ASSUME NEW h \in Holders, NEW p \in Pools, NEW d \in Deposits,
               NEW e \in Deposits, AddLiquidity(h, p, d, e)
        PROVE  TokensConserved'
    BY <1>3, DepositConserves
  <1>4. ASSUME NEW h \in Holders, NEW p \in Pools, NEW amount \in Trades,
               NEW a_to_b \in BOOLEAN, Swap(h, p, amount, 0, a_to_b)
        PROVE  TokensConserved'
    BY <1>4, SwapConserves
  <1>5. ASSUME UNCHANGED ammVars
        PROVE  TokensConserved'
    BY <1>5 DEF TokensConserved, VaultOf, ammVars
  <1> QED
    BY <1>1, <1>2, <1>3, <1>4, <1>5 DEF AmmNext

(* No swap and no deposit creates or destroys a token (TokensConserved),   *)
(* for any number of holders and pools (swap, add_liquidity).              *)
THEOREM TokensAreConserved == AmmSpec => []TokensConserved
  <1>1. AmmSpec => [](AmmTypeOK /\ TokensConserved)
    BY AmmTypeInit, AmmTypeNext, ConservedInit, ConservedNext, PTL DEF AmmSpec
  <1> QED
    BY <1>1, PTL
-----------------------------------------------------------------------------
(* THE AGENT                                                               *)

(* The inductive invariant.  What a buffer holds is a piece of something   *)
(* that was signed, and what was executed was signed; an agent that was    *)
(* not created has executed nothing, since its creation resets it.         *)
AgentTypes ==
  /\ AmmTypeOK
  /\ agent \in [Agents -> AgentState]
  /\ now \in 0 .. MaxTime
  /\ buffer \in [Buffers -> [Chunks -> Pieces(signed)]]
  /\ signed \subseteq Intents
  /\ spent \in [Agents -> Seq(signed)]

Counts(a) ==
  /\ agent[a].xmss_root = KeyOf[a]
  /\ agent[a].nonce = Len(spent[a])
  /\ agent[a].nonce = agent[a].epoch * SigningCapacity + agent[a].used
  /\ agent[a].epoch = NumEpochs => agent[a].used = 0
  /\ ~agent[a].live => spent[a] = << >>

AgentInv == AgentTypes /\ \A a \in Agents : Counts(a)

LEMMA CreatedCounts ==
  ASSUME NEW a \in Agents, NEW live \in BOOLEAN
  PROVE  /\ Created(a) \in AgentState
         /\ [Created(a) EXCEPT !.live = live] \in AgentState
  <1>1. KeyOf[a] \in Roots /\ 0 \in 0 .. NumEpochs
        /\ 0 \in 0 .. SigningCapacity - 1
    BY AgentAssumption
  <1>2. Created(a) \in AgentState
    BY <1>1 DEF Created, AgentState
  <1>3. [Created(a) EXCEPT !.live = live] \in AgentState
    BY <1>2 DEF AgentState
  <1> QED
    BY <1>2, <1>3

LEMMA AgentInvInit == Init => AgentInv
  <1> SUFFICES ASSUME Init PROVE AgentInv
    OBVIOUS
  <1>1. agent \in [Agents -> AgentState]
    BY CreatedCounts DEF Init
  <1>2. buffer \in [Buffers -> [Chunks -> Pieces(signed)]]
    BY DEF Init, BufferInit, Pieces
  <1>3. spent \in [Agents -> Seq(signed)]
    BY DEF Init
  <1>4. ASSUME NEW a \in Agents PROVE Counts(a)
    BY AgentAssumption DEF Init, Counts, Created
  <1>5. AmmTypeOK
    BY AmmTypeInit DEF Init
  <1>6. now \in 0 .. MaxTime /\ signed \subseteq Intents
    BY AgentAssumption DEF Init
  <1> QED
    BY <1>1, <1>2, <1>3, <1>4, <1>5, <1>6 DEF AgentInv, AgentTypes

(* The signing state after one more signature, while an epoch is left.     *)
LEMMA AdvanceCounts ==
  ASSUME NEW w \in AgentState, w.epoch < NumEpochs,
         w.nonce = w.epoch * SigningCapacity + w.used
  PROVE  LET new == AdvanceSigning(w)
         IN  /\ new \in AgentState
             /\ new.live = w.live /\ new.xmss_root = w.xmss_root
             /\ new.nonce = w.nonce + 1
             /\ new.nonce = new.epoch * SigningCapacity + new.used
             /\ new.epoch = NumEpochs => new.used = 0
  <1>1. /\ w.nonce \in Nat /\ w.epoch \in Nat /\ w.used \in Nat
        /\ w.used < SigningCapacity
        /\ NumEpochs \in Nat /\ SigningCapacity \in Nat \ {0}
    BY AgentAssumption DEF AgentState
  <1>2. CASE w.used + 1 >= SigningCapacity
    <2>1. (w.epoch + 1) * SigningCapacity
            = w.epoch * SigningCapacity + SigningCapacity
      BY <1>1
    <2>2. AdvanceSigning(w)
            = [w EXCEPT !.nonce = w.nonce + 1, !.used = 0,
                        !.epoch = w.epoch + 1]
      BY <1>2 DEF AdvanceSigning
    <2>3. /\ w.nonce + 1 \in Nat /\ 0 \in 0 .. SigningCapacity - 1
          /\ w.epoch + 1 \in 0 .. NumEpochs
      BY <1>1
    <2>4. AdvanceSigning(w) \in AgentState
      BY <2>2, <2>3 DEF AgentState
    <2> QED
      BY <1>1, <1>2, <2>1, <2>2, <2>4 DEF AgentState
  <1>3. CASE ~(w.used + 1 >= SigningCapacity)
    <2>1. AdvanceSigning(w)
            = [w EXCEPT !.nonce = w.nonce + 1, !.used = w.used + 1]
      BY <1>3 DEF AdvanceSigning
    <2>2. w.nonce + 1 \in Nat /\ w.used + 1 \in 0 .. SigningCapacity - 1
      BY <1>1, <1>3
    <2>3. AdvanceSigning(w) \in AgentState
      BY <2>1, <2>2 DEF AgentState
    <2> QED
      BY <1>1, <2>1, <2>3 DEF AgentState
  <1> QED
    BY <1>2, <1>3

(* A buffer that holds a signature of an intent tells which, and that it   *)
(* was signed.                                                             *)
LEMMA BufferTells ==
  ASSUME AgentTypes, NEW b \in Buffers, NEW i, Holds(b, i)
  PROVE  IntentIn(b) = i /\ i \in signed
  <1>1. 1 \in Chunks
    BY BufferAssumption DEF Chunks
  <1>2. buffer[b][1] = Piece(i, 1) /\ buffer[b][1] \in Pieces(signed)
    BY <1>1 DEF Holds, AgentTypes
  <1>3. IntentIn(b) = i
    BY <1>2 DEF IntentIn, Piece
  <1>4. Piece(i, 1) # Junk
    BY DEF Piece, Junk
  <1>5. PICK j \in signed, n \in Chunks : Piece(i, 1) = Piece(j, n)
    BY <1>2, <1>4 DEF Pieces
  <1>6. i = j
    BY <1>5 DEF Piece
  <1> QED
    BY <1>3, <1>5, <1>6

(* A swap that executes is one of the pool, and was authorised by the      *)
(* intent its arguments and the agent's state name.                        *)
LEMMA SwapAuthorised ==
  ASSUME AgentTypes, NEW a \in Agents, NEW b \in Buffers, NEW p \in Pools,
         NEW x, NEW y, NEW amount_in, NEW min_out, NEW expiry,
         ExecuteSwap(a, b, p, x, y, amount_in, min_out, expiry)
  PROVE  LET i == IntentOf(a, p, x, y, amount_in, min_out, expiry)
         IN  /\ i \in signed
             /\ spent' = [spent EXCEPT ![a] = Append(@, i)]
             /\ now <= expiry /\ agent[a].live /\ agent[a].epoch < NumEpochs
             /\ agent' = [agent EXCEPT ![a] = AdvanceSigning(agent[a])]
             /\ UNCHANGED <<buffer, now, signed>>
             /\ \E a_to_b \in BOOLEAN :
                  /\ x = InOf(p, a_to_b) /\ y = OutOf(p, a_to_b)
                  /\ Swap(a, p, amount_in, min_out, a_to_b)
  <1> DEFINE i == IntentOf(a, p, x, y, amount_in, min_out, expiry)
  <1>1. PICK a_to_b \in BOOLEAN :
          /\ RouteTrades(p, x, y, a_to_b)
          /\ Authorised(a, i, b)
          /\ Swap(a, p, amount_in, min_out, a_to_b)
    BY DEF ExecuteSwap
  <1> HIDE DEF i
  <1>2. IntentIn(b) = i /\ i \in signed
    BY <1>1, BufferTells DEF Authorised
  <1>3. /\ spent' = [spent EXCEPT ![a] = Append(@, IntentIn(b))]
        /\ now <= expiry /\ agent[a].live /\ agent[a].epoch < NumEpochs
        /\ agent' = [agent EXCEPT ![a] = AdvanceSigning(agent[a])]
        /\ UNCHANGED <<buffer, now, signed>>
    BY DEF ExecuteSwap, Unexpired
  <1> QED
    BY <1>1, <1>2, <1>3 DEF RouteTrades, i

(* Types and counters after a swap.                                        *)
LEMMA ExecuteTypes ==
  ASSUME AgentInv, NEW a \in Agents, NEW b \in Buffers, NEW p \in Pools,
         NEW x, NEW y, NEW amount_in \in Nat, NEW min_out, NEW expiry,
         ExecuteSwap(a, b, p, x, y, amount_in, min_out, expiry)
  PROVE  AgentTypes'
  <1> DEFINE i == IntentOf(a, p, x, y, amount_in, min_out, expiry)
  <1>1. /\ AgentTypes /\ Counts(a) /\ agent[a] \in AgentState
        /\ a \in Holders
    BY AgentAssumption DEF AgentInv, AgentTypes
  <1>2. /\ i \in signed
        /\ spent' = [spent EXCEPT ![a] = Append(@, i)]
        /\ agent[a].epoch < NumEpochs
        /\ agent' = [agent EXCEPT ![a] = AdvanceSigning(agent[a])]
        /\ UNCHANGED <<buffer, now, signed>>
        /\ \E a_to_b \in BOOLEAN : Swap(a, p, amount_in, min_out, a_to_b)
    BY <1>1, SwapAuthorised
  <1> HIDE DEF i
  <1>3. AmmTypeOK'
    BY <1>1, <1>2, SwapTypes DEF AgentTypes
  <1>4. AdvanceSigning(agent[a]) \in AgentState
    BY <1>1, <1>2, AdvanceCounts DEF Counts
  <1>5. agent' \in [Agents -> AgentState]
    BY <1>1, <1>2, <1>4 DEF AgentTypes
  <1>6. spent' \in [Agents -> Seq(signed')]
    <2>1. Append(spent[a], i) \in Seq(signed)
      BY <1>1, <1>2 DEF AgentTypes
    <2> QED
      BY <1>1, <1>2, <2>1 DEF AgentTypes
  <1> QED
    BY <1>1, <1>2, <1>3, <1>5, <1>6 DEF AgentTypes, Pieces

LEMMA ExecuteCounts ==
  ASSUME AgentInv, NEW a \in Agents, NEW b \in Buffers, NEW p \in Pools,
         NEW x, NEW y, NEW amount_in, NEW min_out, NEW expiry,
         ExecuteSwap(a, b, p, x, y, amount_in, min_out, expiry),
         NEW g \in Agents
  PROVE  Counts(g)'
  <1> DEFINE i == IntentOf(a, p, x, y, amount_in, min_out, expiry)
  <1>1. /\ AgentTypes /\ Counts(a) /\ Counts(g) /\ agent[a] \in AgentState
        /\ agent \in [Agents -> AgentState] /\ spent \in [Agents -> Seq(signed)]
    BY DEF AgentInv, AgentTypes
  <1>2. /\ spent' = [spent EXCEPT ![a] = Append(@, i)]
        /\ agent[a].live /\ agent[a].epoch < NumEpochs
        /\ agent' = [agent EXCEPT ![a] = AdvanceSigning(agent[a])]
    BY <1>1, SwapAuthorised
  <1> HIDE DEF i
  <1>3. CASE g = a
    <2> DEFINE new == AdvanceSigning(agent[a])
    <2>1. agent'[g] = new
      BY <1>1, <1>2, <1>3
    <2>2. /\ new.live = agent[a].live
          /\ new.xmss_root = agent[a].xmss_root
          /\ new.nonce = agent[a].nonce + 1
          /\ new.nonce = new.epoch * SigningCapacity + new.used
          /\ new.epoch = NumEpochs => new.used = 0
      BY <1>1, <1>2, AdvanceCounts DEF Counts
    <2>3. Len(spent'[g]) = Len(spent[g]) + 1
      BY <1>1, <1>2, <1>3
    <2> HIDE DEF new
    <2> QED
      BY <1>1, <1>2, <1>3, <2>1, <2>2, <2>3 DEF Counts
  <1>4. CASE g # a
    <2>1. agent'[g] = agent[g] /\ spent'[g] = spent[g]
      BY <1>1, <1>2, <1>4
    <2> QED
      BY <1>1, <2>1 DEF Counts
  <1> QED
    BY <1>3, <1>4

(* Counts only looks at an agent and its history; pieces of what was       *)
(* signed stay so when more is signed.                                     *)
LEMMA CountsKept ==
  ASSUME NEW a \in Agents, Counts(a), UNCHANGED <<agent, spent>>
  PROVE  Counts(a)'
  BY DEF Counts

LEMMA MoreSigned ==
  ASSUME AgentTypes, NEW S, signed \subseteq S
  PROVE  /\ buffer \in [Buffers -> [Chunks -> Pieces(S)]]
         /\ spent \in [Agents -> Seq(S)]
  <1>1. Pieces(signed) \subseteq Pieces(S)
    BY DEF Pieces
  <1>2. buffer \in [Buffers -> [Chunks -> Pieces(S)]]
    BY <1>1 DEF AgentTypes
  <1>3. ASSUME NEW s \in Seq(signed) PROVE s \in Seq(S)
    <2>1. s \in [1 .. Len(s) -> S] /\ Len(s) \in Nat
      OBVIOUS
    <2> QED
      BY <2>1
  <1> QED
    BY <1>2, <1>3 DEF AgentTypes

(* The slots a client may ask for are slots of an intent.                  *)
LEMMA SlotTypes ==
  ASSUME AgentTypes, NEW a \in Agents, NEW slot \in SlotsRead(a)
  PROVE  slot.epoch \in Nat /\ slot.nonce \in Nat
  <1>1. CASE slot = Slot(agent[a])
    BY <1>1, AgentAssumption DEF Slot, AgentTypes, AgentState
  <1>2. CASE \E n \in 1 .. Len(spent[a]) : slot = Slot(spent[a][n])
    <2>1. PICK n \in 1 .. Len(spent[a]) : slot = Slot(spent[a][n])
      BY <1>2
    <2>2. spent[a] \in Seq(signed)
      BY DEF AgentTypes
    <2>3. spent[a][n] \in Intents
      BY <2>2 DEF AgentTypes
    <2> QED
      BY <2>1, <2>3 DEF Slot, Intents
  <1> QED
    BY <1>1, <1>2 DEF SlotsRead

LEMMA SignInv ==
  ASSUME AgentInv, NEW a \in Agents, NEW p \in Pools,
         NEW a_to_b \in BOOLEAN, NEW amount_in \in AmountsIn,
         NEW min_out \in MinOuts, NEW expiry \in Expiries,
         NEW slot \in SlotsRead(a),
         SignSwap(a, slot, p, a_to_b, amount_in, min_out, expiry)
  PROVE  AgentInv'
  <1> DEFINE i == [root |-> KeyOf[a], epoch |-> slot.epoch,
                   nonce |-> slot.nonce, input_mint |-> InOf(p, a_to_b),
                   output_mint |-> OutOf(p, a_to_b), amount_in |-> amount_in,
                   min_out |-> min_out, route |-> p, expiry |-> expiry]
  <1>1. AgentTypes
    BY DEF AgentInv
  <1>2. /\ slot.epoch \in Nat /\ slot.nonce \in Nat /\ KeyOf[a] \in Roots
        /\ InOf(p, a_to_b) \in Mints /\ OutOf(p, a_to_b) \in Mints
    BY <1>1, SlotTypes, PoolFields, AgentAssumption DEF AgentTypes
  <1>3. i \in Intents
    BY <1>2 DEF Intents
  <1>4. /\ signed' = signed \cup {i}
        /\ UNCHANGED <<ammVars, buffer, now, agent, spent>>
    BY DEF SignSwap
  <1> HIDE DEF i
  <1>5. signed' \subseteq Intents /\ signed \subseteq signed'
    BY <1>1, <1>3, <1>4 DEF AgentTypes
  <1>6. /\ buffer \in [Buffers -> [Chunks -> Pieces(signed')]]
        /\ spent \in [Agents -> Seq(signed')]
    BY <1>1, <1>5, MoreSigned
  <1>7. AmmTypeOK'
    BY <1>1, <1>4, AmmTypeNext DEF AgentTypes
  <1>8. AgentTypes'
    BY <1>1, <1>4, <1>5, <1>6, <1>7 DEF AgentTypes, Pieces
  <1>9. \A g \in Agents : Counts(g)'
    BY <1>4, CountsKept DEF AgentInv
  <1> QED
    BY <1>8, <1>9 DEF AgentInv

LEMMA StageInv ==
  ASSUME AgentInv, Stage(signed), UNCHANGED <<ammVars, now, keyVars>>
  PROVE  AgentInv'
  <1>1. PICK b \in Buffers, n \in Chunks :
          \E piece \in Pieces(signed) : WriteBuffer(b, n, piece)
    BY DEF Stage, Pieces
  <1>2. PICK piece \in Pieces(signed) : WriteBuffer(b, n, piece)
    BY <1>1
  <1>3. buffer' \in [Buffers -> [Chunks -> Pieces(signed)]]
    BY <1>2 DEF AgentInv, AgentTypes, WriteBuffer
  <1>4. AmmTypeOK'
    BY AmmTypeNext DEF AgentInv, AgentTypes
  <1>5. AgentTypes'
    BY <1>3, <1>4 DEF AgentInv, AgentTypes, Pieces, keyVars
  <1>6. \A g \in Agents : Counts(g)'
    BY CountsKept DEF AgentInv, keyVars
  <1> QED
    BY <1>5, <1>6 DEF AgentInv

LEMMA CreateInv ==
  ASSUME AgentInv, NEW a \in Agents, CreateAgent(a)
  PROVE  AgentInv'
  <1>1. /\ agent' = [agent EXCEPT ![a] = Created(a)]
        /\ UNCHANGED <<ammVars, buffer, now, signed, spent>>
    BY DEF CreateAgent
  <1>2. Created(a) \in AgentState
    BY CreatedCounts
  <1>3. AmmTypeOK'
    BY <1>1, AmmTypeNext DEF AgentInv, AgentTypes
  <1>4. AgentTypes'
    BY <1>1, <1>2, <1>3 DEF AgentInv, AgentTypes, Pieces
  <1>5. spent[a] = << >>
    BY DEF CreateAgent, AgentInv, Counts
  <1>6. ASSUME NEW g \in Agents PROVE Counts(g)'
    <2>1. CASE g = a
      <3>1. agent'[g] = Created(a) /\ spent'[g] = << >>
        BY <1>1, <1>5, <2>1 DEF AgentInv, AgentTypes
      <3> QED
        BY <2>1, <3>1, AgentAssumption DEF Counts, Created
    <2>2. CASE g # a
      BY <1>1, <2>2 DEF AgentInv, AgentTypes, Counts
    <2> QED
      BY <2>1, <2>2
  <1> QED
    BY <1>4, <1>6 DEF AgentInv

(* What the holders of accounts that are no agent's do is done in the      *)
(* market.                                                                 *)
LEMMA OthersTrade == AmmNext(Holders \ Agents) => AmmNext(Holders)
  BY DEF AmmNext

LEMMA MarketInv ==
  ASSUME AgentInv, AmmNext(Holders \ Agents), UNCHANGED <<buffer, now, keyVars>>
  PROVE  AgentInv'
  <1>1. AmmTypeOK'
    BY OthersTrade, AmmTypeNext DEF AgentInv, AgentTypes
  <1>2. AgentTypes'
    BY <1>1 DEF AgentInv, AgentTypes, keyVars, Pieces
  <1>3. \A g \in Agents : Counts(g)'
    BY CountsKept DEF AgentInv, keyVars
  <1> QED
    BY <1>2, <1>3 DEF AgentInv

LEMMA TickInv ==
  ASSUME AgentInv, Tick
  PROVE  AgentInv'
  <1>1. /\ now' = now + 1 /\ now < MaxTime
        /\ UNCHANGED <<ammVars, buffer, keyVars>>
    BY DEF Tick
  <1>2. now' \in 0 .. MaxTime
    BY <1>1, AgentAssumption DEF AgentInv, AgentTypes
  <1>3. AmmTypeOK'
    BY <1>1, AmmTypeNext DEF AgentInv, AgentTypes
  <1>4. AgentTypes'
    BY <1>1, <1>2, <1>3 DEF AgentInv, AgentTypes, keyVars, Pieces
  <1>5. \A g \in Agents : Counts(g)'
    BY <1>1, CountsKept DEF AgentInv, keyVars
  <1> QED
    BY <1>4, <1>5 DEF AgentInv

LEMMA AgentInvNext == AgentInv /\ [Next]_vars => AgentInv'
  <1> SUFFICES ASSUME AgentInv, [Next]_vars PROVE AgentInv'
    OBVIOUS
  <1>1. CASE \E a \in Agents : CreateAgent(a)
    BY <1>1, CreateInv
  <1>2. CASE Sign
    <2>1. PICK a \in Agents, p \in Pools, a_to_b \in BOOLEAN,
               amount_in \in AmountsIn, min_out \in MinOuts,
               expiry \in Expiries :
            \E slot \in SlotsRead(a) :
              SignSwap(a, slot, p, a_to_b, amount_in, min_out, expiry)
      BY <1>2 DEF Sign
    <2>2. PICK slot \in SlotsRead(a) :
            SignSwap(a, slot, p, a_to_b, amount_in, min_out, expiry)
      BY <2>1
    <2> QED
      BY <2>2, SignInv
  <1>3. CASE Stage(signed) /\ UNCHANGED <<ammVars, now, keyVars>>
    BY <1>3, StageInv
  <1>4. CASE Submit
    <2>1. PICK a \in Agents, b \in Buffers, p \in Pools, x \in Mints,
               y \in Mints, amount_in \in AmountsIn, min_out \in MinOuts,
               expiry \in Expiries :
            ExecuteSwap(a, b, p, x, y, amount_in, min_out, expiry)
      BY <1>4 DEF Submit
    <2>2. amount_in \in Nat
      BY AgentAssumption
    <2>3. AgentTypes'
      BY <2>1, <2>2, ExecuteTypes
    <2>4. \A g \in Agents : Counts(g)'
      BY <2>1, ExecuteCounts
    <2> QED
      BY <2>3, <2>4 DEF AgentInv
  <1>5. CASE AmmNext(Holders \ Agents) /\ UNCHANGED <<buffer, now, keyVars>>
    BY <1>5, MarketInv
  <1>6. CASE Tick
    BY <1>6, TickInv
  <1>7. CASE UNCHANGED vars
    <2>1. AmmTypeOK'
      BY <1>7, AmmTypeNext DEF AgentInv, AgentTypes, vars
    <2>2. AgentTypes'
      BY <1>7, <2>1 DEF vars, keyVars, AgentInv, AgentTypes, Pieces
    <2>3. \A g \in Agents : Counts(g)'
      BY <1>7, CountsKept DEF vars, keyVars, AgentInv
    <2> QED
      BY <2>2, <2>3 DEF AgentInv
  <1> QED
    BY <1>1, <1>2, <1>3, <1>4, <1>5, <1>6, <1>7 DEF Next

LEMMA AgentInvHolds == Spec => []AgentInv
  BY AgentInvInit, AgentInvNext, PTL DEF Spec

LEMMA AgentInvTypes == AgentInv => AgentTypeOK
  <1> SUFFICES ASSUME AgentInv PROVE AgentTypeOK
    OBVIOUS
  <1>1. BuffersHold(signed)
    BY DEF BuffersHold, AgentInv, AgentTypes
  <1>2. \A a \in Agents : \A n \in 1 .. Len(spent[a]) : spent[a][n] \in signed
    <2> TAKE a \in Agents
    <2>1. spent[a] \in Seq(signed)
      BY DEF AgentInv, AgentTypes
    <2> QED
      BY <2>1
  <1> QED
    BY <1>1, <1>2 DEF AgentTypeOK, AgentInv, AgentTypes

(* Every account, buffer and history keeps its type, and what an agent     *)
(* executed was signed (porst_agent).                                      *)
THEOREM AgentTypeCorrect == Spec => []AgentTypeOK
  BY AgentInvHolds, AgentInvTypes, PTL
-----------------------------------------------------------------------------
(* Every step moves an agent's tokens as one signed intent says, or only   *)
(* adds some.                                                              *)

(* The agent that swaps pays and is paid what its intent says.             *)
LEMMA SwapPays ==
  ASSUME AmmTypeOK, NEW a \in Holders, NEW p \in Pools,
         NEW a_to_b \in BOOLEAN, NEW amount \in Nat, NEW least \in Nat,
         Swap(a, p, amount, least, a_to_b), NEW i,
         i.route = p, i.input_mint = InOf(p, a_to_b),
         i.output_mint = OutOf(p, a_to_b),
         i.amount_in = amount, i.min_out = least
  PROVE  SwappedAs(i, a)
  <1> DEFINE x == InOf(p, a_to_b)
             y == OutOf(p, a_to_b)
             out == Out(p, a_to_b, amount)
  <1>1. x \in Mints /\ y \in Mints /\ x # y
    BY PoolFields
  <1>2. out \in Nat /\ out >= least /\ amount > 0
    BY SwapOutput DEF Swap
  <1>3. \A z \in Mints :
          balance'[a][z] = IF z = x THEN balance[a][z] - amount
                           ELSE IF z = y THEN balance[a][z] + out
                           ELSE balance[a][z]
    BY BalancesAfterSwap
  <1>4. \A z \in Mints : balance[a][z] \in Nat
    BY DEF AmmTypeOK
  <1>5. pool[p].vault_a \in Nat /\ pool[p].vault_b \in Nat
    BY PoolFields
  <1>6. /\ \A q \in Pools \ {p} : pool'[q] = pool[q]
        /\ a_to_b => pool'[p].vault_a = pool[p].vault_a + amount
        /\ ~a_to_b => pool'[p].vault_b = pool[p].vault_b + amount
    BY VaultsAfterSwap
  <1> HIDE DEF x, y, out
  <1>7. pool'[p] # pool[p]
    BY <1>2, <1>5, <1>6
  <1>8. /\ balance'[a][x] = balance[a][x] - amount
        /\ balance'[a][y] >= balance[a][y] + least
        /\ \A z \in Mints \ {x, y} : balance'[a][z] = balance[a][z]
    BY <1>1, <1>2, <1>3, <1>4
  <1> QED
    BY <1>6, <1>7, <1>8 DEF SwappedAs, x, y

(* Nobody else touches an agent's accounts, but to add to them.            *)
LEMMA OthersOnlyAdd ==
  ASSUME AmmTypeOK, AmmNext(Holders \ Agents), NEW a \in Agents,
         NEW z \in Mints
  PROVE  balance'[a][z] >= balance[a][z]
  <1>0. a \in Holders /\ balance[a][z] \in Nat
    BY AgentAssumption DEF AmmTypeOK
  <1>1. ASSUME NEW h \in Holders, NEW x \in Mints, NEW d \in Deposits,
               MintTo(h, x, d)
        PROVE  balance'[a][z] >= balance[a][z]
    <2>1. d \in Nat /\ balance' = Credit(balance, h, x, d)
      BY <1>1 DEF MintTo
    <2>2. balance'[a][z] = IF a = h /\ z = x THEN balance[a][z] + d
                           ELSE balance[a][z]
      BY <1>0, <2>1 DEF AmmTypeOK, Credit
    <2> QED
      BY <1>0, <2>1, <2>2
  <1>2. ASSUME NEW p \in Pools, InitPool(p)
        PROVE  balance'[a][z] >= balance[a][z]
    BY <1>0, <1>2 DEF InitPool
  <1>3. ASSUME NEW h \in Holders \ Agents, NEW p \in Pools,
               NEW d \in Deposits, NEW e \in Deposits, AddLiquidity(h, p, d, e)
        PROVE  balance'[a][z] >= balance[a][z]
    <2>1. d \in Nat /\ e \in Nat /\ h \in Holders /\ a \in Holders \ {h}
      BY <1>0
    <2>2. balance'[a] = balance[a]
      BY <1>3, <2>1, BalancesAfterDeposit
    <2> QED
      BY <1>0, <2>2
  <1>4. ASSUME NEW h \in Holders \ Agents, NEW p \in Pools,
               NEW amount \in Trades, NEW a_to_b \in BOOLEAN,
               Swap(h, p, amount, 0, a_to_b)
        PROVE  balance'[a][z] >= balance[a][z]
    <2>1. amount \in Nat /\ h \in Holders /\ a \in Holders \ {h}
      BY <1>0
    <2>2. balance'[a] = balance[a]
      BY <1>4, <2>1, BalancesAfterSwap
    <2> QED
      BY <1>0, <2>2
  <1> QED
    BY <1>1, <1>2, <1>3, <1>4 DEF AmmNext

LEMMA StepSwapsAsSigned ==
  AgentInv /\ [Next]_vars => [AgentTokensMoveAsSigned]_balance
  <1> SUFFICES ASSUME AgentInv, [Next]_vars, balance' # balance, NEW g \in Agents
               PROVE  \/ \A z \in Mints : balance'[g][z] >= balance[g][z]
                      \/ \E i \in signed :
                           /\ i.root = KeyOf[g] /\ i.nonce = agent[g].nonce
                           /\ i.epoch = agent[g].epoch /\ now <= i.expiry
                           /\ SwappedAs(i, g)
    BY DEF AgentTokensMoveAsSigned
  <1>0. /\ AgentTypes /\ AmmTypeOK /\ Counts(g) /\ g \in Holders
        /\ \A z \in Mints : balance[g][z] \in Nat
    BY AgentAssumption DEF AgentInv, AgentTypes, AmmTypeOK
  <1>1. CASE Submit
    <2>1. PICK a \in Agents, b \in Buffers, p \in Pools, x \in Mints,
               y \in Mints, amount_in \in AmountsIn, min_out \in MinOuts,
               expiry \in Expiries :
            ExecuteSwap(a, b, p, x, y, amount_in, min_out, expiry)
      BY <1>1 DEF Submit
    <2>2. amount_in \in Nat /\ min_out \in Nat /\ a \in Holders
      BY AgentAssumption
    <2> DEFINE i == IntentOf(a, p, x, y, amount_in, min_out, expiry)
    <2>3. /\ i \in signed /\ now <= expiry
          /\ \E a_to_b \in BOOLEAN :
               /\ x = InOf(p, a_to_b) /\ y = OutOf(p, a_to_b)
               /\ Swap(a, p, amount_in, min_out, a_to_b)
      BY <1>0, <2>1, SwapAuthorised
    <2>4. PICK a_to_b \in BOOLEAN :
            /\ x = InOf(p, a_to_b) /\ y = OutOf(p, a_to_b)
            /\ Swap(a, p, amount_in, min_out, a_to_b)
      BY <2>3
    <2>5. CASE g = a
      <3>1. /\ i.route = p /\ i.input_mint = x /\ i.output_mint = y
            /\ i.amount_in = amount_in /\ i.min_out = min_out
            /\ i.expiry = expiry /\ i.nonce = agent[a].nonce
            /\ i.epoch = agent[a].epoch /\ i.root = agent[a].xmss_root
        BY DEF IntentOf
      <3> HIDE DEF i
      <3>2. SwappedAs(i, a)
        BY <1>0, <2>2, <2>4, <3>1, SwapPays
      <3>3. i.root = KeyOf[g]
        BY <1>0, <2>5, <3>1 DEF Counts
      <3> QED
        BY <2>3, <2>5, <3>1, <3>2, <3>3
    <2>6. CASE g # a
      <3>1. balance'[g] = balance[g]
        BY <1>0, <2>2, <2>4, <2>6, BalancesAfterSwap
      <3> QED
        BY <1>0, <3>1
    <2> QED
      BY <2>5, <2>6
  <1>2. CASE AmmNext(Holders \ Agents)
    BY <1>0, <1>2, OthersOnlyAdd
  <1>3. /\ ~Sign /\ ~(\E a \in Agents : CreateAgent(a)) /\ ~Tick
        /\ ~UNCHANGED vars
        /\ ~(Stage(signed) /\ UNCHANGED <<ammVars, now, keyVars>>)
    BY DEF Sign, SignSwap, CreateAgent, Tick, vars, ammVars
  <1> QED
    BY <1>1, <1>2, <1>3 DEF Next

(* An agent's tokens leave it only as an unexpired intent signed for its   *)
(* key, epoch and nonce says, through the pool that intent names           *)
(* (execute_swap).                                                         *)
THEOREM SwapsFollowSignatures == Spec => SwapsAsSigned
  <1>1. AgentInv /\ [Next]_vars => [AgentTokensMoveAsSigned]_balance
    BY StepSwapsAsSigned
  <1> QED
    BY <1>1, AgentInvHolds, PTL DEF Spec, SwapsAsSigned
-----------------------------------------------------------------------------
(* Refinement: the agent's counters implement the list of executed         *)
(* intents.                                                                *)

LEMMA QuotientAndRest ==
  ASSUME NEW n \in Nat, NEW c \in Nat \ {0}, NEW q \in Nat, NEW r \in Nat,
         n = q * c + r, r < c
  PROVE  n \div c = q
  OBVIOUS

LEMMA InitRefines == Init => Ledger!Init
  BY DEF Init, Ledger!Init

(* A swap is the execution of the intent it was authorised by, at the slot *)
(* that the number of swaps before it gives.                               *)
LEMMA SwapRefines ==
  ASSUME AgentInv, NEW a \in Agents, NEW b \in Buffers, NEW p \in Pools,
         NEW x, NEW y, NEW amount_in, NEW min_out, NEW expiry,
         ExecuteSwap(a, b, p, x, y, amount_in, min_out, expiry)
  PROVE  \E i \in signed : Ledger!Execute(a, i)
  <1> DEFINE i == IntentOf(a, p, x, y, amount_in, min_out, expiry)
             e == agent[a].epoch
             u == agent[a].used
             n == agent[a].nonce
  <1>1. /\ i \in signed /\ spent' = [spent EXCEPT ![a] = Append(@, i)]
        /\ signed' = signed /\ e < NumEpochs
    BY SwapAuthorised DEF AgentInv
  <1>2. /\ i.root = KeyOf[a] /\ i.nonce = n /\ i.epoch = e
        /\ n = Len(spent[a]) /\ n = e * SigningCapacity + u
    BY DEF IntentOf, AgentInv, Counts
  <1>3. /\ e \in Nat /\ u \in Nat /\ n \in Nat /\ u < SigningCapacity
        /\ NumEpochs \in Nat /\ SigningCapacity \in Nat \ {0}
    <2>1. agent[a] \in AgentState
      BY DEF AgentInv, AgentTypes
    <2> QED
      BY <2>1, AgentAssumption DEF AgentState
  <1> HIDE DEF i, e, u, n
  <1>4. n \div SigningCapacity = e
    BY <1>2, <1>3, QuotientAndRest
  <1>5. n < NumEpochs * SigningCapacity
    <2>1. (e + 1) * SigningCapacity = e * SigningCapacity + SigningCapacity
      BY <1>3
    <2>2. (e + 1) * SigningCapacity <= NumEpochs * SigningCapacity
      BY <1>1, <1>3
    <2>3. /\ e * SigningCapacity \in Nat /\ NumEpochs * SigningCapacity \in Nat
          /\ (e + 1) * SigningCapacity \in Nat
      BY <1>3
    <2> QED
      BY <1>2, <1>3, <2>1, <2>2, <2>3
  <1> QED
    BY <1>1, <1>2, <1>4, <1>5 DEF Ledger!Execute, Ledger!Lifetime

LEMMA NextRefines ==
  AgentInv /\ [Next]_vars => [Ledger!Next]_<<signed, spent>>
  <1> SUFFICES ASSUME AgentInv, [Next]_vars
               PROVE  Ledger!Next \/ UNCHANGED <<signed, spent>>
    OBVIOUS
  <1>1. CASE Sign
    BY <1>1 DEF Sign, SignSwap, Ledger!Next, Ledger!Sign
  <1>2. CASE Submit
    <2>1. PICK a \in Agents, b \in Buffers, p \in Pools, x \in Mints,
               y \in Mints, amount_in \in AmountsIn, min_out \in MinOuts,
               expiry \in Expiries :
            ExecuteSwap(a, b, p, x, y, amount_in, min_out, expiry)
      BY <1>2 DEF Submit
    <2>2. \E i \in signed : Ledger!Execute(a, i)
      BY <2>1, SwapRefines
    <2> QED
      BY <2>2 DEF Ledger!Next
  <1>3. CASE \/ \E a \in Agents : CreateAgent(a)
             \/ Stage(signed) /\ UNCHANGED <<ammVars, now, keyVars>>
             \/ AmmNext(Holders \ Agents) /\ UNCHANGED <<buffer, now, keyVars>>
             \/ Tick
             \/ UNCHANGED vars
    BY <1>3 DEF CreateAgent, Tick, vars, keyVars
  <1> QED
    BY <1>1, <1>2, <1>3 DEF Next

(* The agent implements the ledger of a many-time key: whatever is signed, *)
(* staged, resubmitted or delayed, its n-th swap is one signed for nonce n *)
(* under the key of epoch n \div SigningCapacity, and there are never more *)
(* than the key can bear (execute_swap).                                   *)
THEOREM AgentImplementsLedger == Spec => ImplementsLedger
  <1>1. Init => Ledger!Init
    BY InitRefines
  <1>2. AgentInv /\ [Next]_vars => [Ledger!Next]_<<signed, spent>>
    BY NextRefines
  <1> QED
    BY <1>1, <1>2, AgentInvHolds, PTL DEF Spec, ImplementsLedger, Ledger!Spec
-----------------------------------------------------------------------------
(* The market beside the agent: what was proved of AmmSpec, of Spec.       *)

(* What a step of the whole does in the market: a swap of an agent, which  *)
(* may be of any amount and ask for any minimum, or what others do.        *)
LEMMA StepInMarket ==
  ASSUME AgentInv, [Next]_vars
  PROVE  \/ \E a \in Holders, p \in Pools, amount \in Nat, least \in Nat,
               a_to_b \in BOOLEAN : Swap(a, p, amount, least, a_to_b)
         \/ [AmmNext(Holders)]_ammVars
  <1>1. CASE Submit
    <2>1. PICK a \in Agents, b \in Buffers, p \in Pools, x \in Mints,
               y \in Mints, amount_in \in AmountsIn, min_out \in MinOuts,
               expiry \in Expiries :
            ExecuteSwap(a, b, p, x, y, amount_in, min_out, expiry)
      BY <1>1 DEF Submit
    <2>2. amount_in \in Nat /\ min_out \in Nat /\ a \in Holders
      BY AgentAssumption
    <2>3. \E a_to_b \in BOOLEAN : Swap(a, p, amount_in, min_out, a_to_b)
      BY <2>1, SwapAuthorised DEF AgentInv
    <2> QED
      BY <2>2, <2>3
  <1>2. CASE AmmNext(Holders \ Agents)
    BY <1>2, OthersTrade
  <1>3. CASE Sign
    BY <1>3 DEF Sign, SignSwap
  <1>4. CASE \/ \E a \in Agents : CreateAgent(a)
             \/ Stage(signed) /\ UNCHANGED <<ammVars, now, keyVars>>
             \/ Tick
             \/ UNCHANGED vars
    BY <1>4 DEF CreateAgent, Tick, vars
  <1> QED
    BY <1>1, <1>2, <1>3, <1>4 DEF Next

LEMMA ConservedBeside ==
  AgentInv /\ AgentInv' /\ TokensConserved /\ [Next]_vars => TokensConserved'
  <1> SUFFICES ASSUME AgentInv, AgentInv', TokensConserved, [Next]_vars
               PROVE  TokensConserved'
    OBVIOUS
  <1>1. AmmTypeOK /\ AmmTypeOK'
    BY DEF AgentInv, AgentTypes
  <1>2. CASE [AmmNext(Holders)]_ammVars
    BY <1>1, <1>2, ConservedNext
  <1>3. ASSUME NEW a \in Holders, NEW p \in Pools, NEW amount \in Nat,
               NEW least \in Nat, NEW a_to_b \in BOOLEAN,
               Swap(a, p, amount, least, a_to_b)
        PROVE  TokensConserved'
    BY <1>1, <1>3, SwapConserves
  <1> QED
    BY <1>2, <1>3, StepInMarket

(* However agents and others trade, no token is created or destroyed       *)
(* (execute_swap, swap).                                                   *)
THEOREM AgentConservesTokens == Spec => []TokensConserved
  <1>1. Init => TokensConserved
    BY ConservedInit DEF Init
  <1> QED
    BY <1>1, ConservedBeside, AgentInvHolds, PTL DEF Spec

LEMMA ProductBeside == AgentInv /\ [Next]_vars => [ProductHolds]_pool
  <1> SUFFICES ASSUME AgentInv, [Next]_vars PROVE [ProductHolds]_pool
    OBVIOUS
  <1>1. AmmTypeOK
    BY DEF AgentInv, AgentTypes
  <1>2. CASE [AmmNext(Holders)]_ammVars
    BY <1>1, <1>2, ProductStep DEF ammVars
  <1>3. ASSUME NEW a \in Holders, NEW p \in Pools, NEW amount \in Nat,
               NEW least \in Nat, NEW a_to_b \in BOOLEAN,
               Swap(a, p, amount, least, a_to_b)
        PROVE  ProductHolds
    BY <1>1, <1>3, SwapKeepsProduct
  <1> QED
    BY <1>2, <1>3, StepInMarket

(* Nor does a swap of an agent lower the product of a pool's reserves      *)
(* (execute_swap, swap).                                                   *)
THEOREM AgentKeepsProduct == Spec => ProductNeverFalls
  BY ProductBeside, AgentInvHolds, PTL DEF Spec, ProductNeverFalls

(* And back and forth between agents and others, at whatever reserves they *)
(* leave, nobody gains (swap).                                             *)
THEOREM AgentRoundTrips == Spec => []RoundTripNeverGains
  <1>1. AgentInv => RoundTripNeverGains
    BY RoundTripsAt DEF AgentInv, AgentTypes
  <1> QED
    BY <1>1, AgentInvHolds, PTL

-----------------------------------------------------------------------------
(* THE SWAP BACKEND                                                        *)

(* The inductive invariant.                                                *)

Stages ==
  {"idle", "asked", "half", "allowed", "slotted", "signed", "measured",
   "sent", "unknown", "confirmed", "late", "done", "failed"}

Actions == [amount : Nat, a_to_b : BOOLEAN, min_out : Nat, expiry : Nat]

RequestState ==
  [pc : Stages, kind : Kinds \cup {"none", "execute"}, action : Actions,
   quote : Nat, va : Nat, epoch : Nat, nonce : Nat,
   intent : Intents \cup {NoIntent}, staged : 0 .. NumChunks,
   before : Nat, received : Int, paid : Nat]

(* The pool is funded, and no reserve exceeds what there is of a token.    *)
PoolInv ==
  /\ agent[Self].live
  /\ Product(Route) > 0
  /\ TokensConserved
  /\ \A x \in Mints : minted[x] <= Supply

(* A plan promises what its quote does, less the slippage.                 *)
Planned(action, quote) ==
  /\ action.amount \in AmountsIn /\ action.expiry \in Expiries
  /\ quote \in 0 .. Supply
  /\ action.min_out = MinOut(quote)

(* What the policy has allowed stays within its limits as time goes on.    *)
WithinLimits(action, t) ==
  /\ action.amount \in 1 .. maxAmountInPerTx
  /\ action.expiry <= t + maxExpirySeconds

Filled(q) ==
  BpsDenominator * q.paid
    > (BpsDenominator - SlippageBps) * q.quote - BpsDenominator

HasSigned == {"signed", "measured", "sent", "unknown", "confirmed", "late"}

HasPlanned == HasSigned \cup {"allowed", "slotted"}

(* What a handler holds at each of its awaits, given the slots the agent   *)
(* has been at, what the signer has signed and the time.                   *)
Held(q, slots, sig, t) ==
  /\ q.intent \in sig \cup {NoIntent}
  /\ q.pc \in {"asked", "half"} =>
       /\ q.action.amount \in AmountsIn /\ q.action.expiry \in Expiries
       /\ q.action.expiry <= t + RequestTTL
  /\ q.pc = "half" => q.va \in 1 .. Supply
  /\ q.pc \in HasPlanned =>
       Planned(q.action, q.quote) /\ WithinLimits(q.action, t)
  /\ q.pc = "slotted" => Slot(q) \in slots
  /\ q.pc \in HasSigned => q.intent = RequestedIntent(q) /\ q.intent \in sig
  /\ q.pc \in {"confirmed", "late"} => Filled(q)

RequestsInv ==
  /\ req \in [Requests -> RequestState]
  /\ \A r \in Requests : Held(req[r], SlotsRead(Self), signed, now)

PendingInv ==
  /\ pending \subseteq Requests
  /\ \A r \in pending : req[r].pc \in {"sent", "unknown"}

OffersInv ==
  \A o \in offers : o.action \in Actions /\ Planned(o.action, o.quote)

(* What a run under way may still add to the count of token x: it has been *)
(* checked, and will be counted if it is confirmed.                        *)
Uncounted == {"allowed", "slotted", "signed", "measured", "sent", "confirmed"}

Due(q, x) ==
  IF q.kind = "run" /\ q.pc \in Uncounted /\ InputOf(q.action) = x
  THEN q.action.amount ELSE 0

AllDue(x) == SumOver([r \in Requests |-> Due(req[r], x)], Requests)

OverrunLimit ==
  maxAmountInDaily + (Cardinality(Requests) - 1) * maxAmountInPerTx

SpendInv ==
  /\ spend \in [Mints -> Nat]
  /\ \A x \in Mints : spend[x] + AllDue(x) <= OverrunLimit

(* What was spent is what has been counted, what the runs waiting to count *)
(* it have spent, and what was missed.                                     *)
Spending(q, x) == IF q.pc = "confirmed" THEN Due(q, x) ELSE 0

ToCount(x) == SumOver([r \in Requests |-> Spending(req[r], x)], Requests)

CountInv ==
  /\ missed \in Nat
  /\ \A x \in Mints :
       SpentOf(x) <= spend[x] + ToCount(x) + missed * maxAmountInPerTx

ServerInv ==
  /\ AgentInv /\ PoolInv /\ RequestsInv /\ PendingInv /\ OffersInv
  /\ SpendInv /\ CountInv /\ SignedWithinLimits
-----------------------------------------------------------------------------
(* Types of what the handlers hold.                                        *)

LEMMA SupplyType == Supply \in Nat
  <1>1. IsFiniteSet(Holders \ Agents)
    BY FS_Difference, CpSwapAssumption
  <1>2. Cardinality(Holders \ Agents) \in Nat
    BY <1>1, FS_CardinalityType
  <1> QED
    BY <1>2, ServerAssumption DEF Supply

LEMMA RouteTyped ==
  ASSUME NEW a_to_b \in BOOLEAN
  PROVE  /\ Route \in Pools /\ Self \in Agents /\ Self \in Holders
         /\ Route[1] \in Mints /\ Route[2] \in Mints /\ Route[1] # Route[2]
         /\ InOf(Route, a_to_b) \in Mints /\ OutOf(Route, a_to_b) \in Mints
  <1>1. Route \in Pools /\ Self \in Agents /\ Self \in Holders
    BY ServerAssumption, AgentAssumption
  <1>2. Route \in Mints \X Mints /\ Route[1] # Route[2]
    BY <1>1, CpSwapAssumption
  <1> QED
    BY <1>1, <1>2 DEF InOf, OutOf

LEMMA NoActionTyped == NoAction \in Actions
  BY DEF NoAction, Actions

LEMMA BlankTyped ==
  ASSUME NEW pc \in {"idle", "failed"}
  PROVE  LET q == [Blank EXCEPT !.pc = pc]
         IN  /\ q \in RequestState
             /\ q.pc = pc /\ q.kind = "none" /\ q.intent = NoIntent
  BY NoActionTyped, BufferAssumption DEF Blank, RequestState, Stages

(* Division by 10000, as the slippage is taken off.                        *)
LEMMA MinOutBounds ==
  ASSUME NEW quote \in Nat
  PROVE  /\ MinOut(quote) \in Nat
         /\ quote * (BpsDenominator - SlippageBps)
              < BpsDenominator * (MinOut(quote) + 1)
  <1>1. BpsDenominator - SlippageBps \in Nat
    BY ServerAssumption DEF BpsDenominator
  <1> DEFINE n == quote * (BpsDenominator - SlippageBps)
  <1>2. n \in Nat
    BY <1>1
  <1> HIDE DEF n
  <1>3. n \div 10000 \in Nat /\ n < 10000 * ((n \div 10000) + 1)
    BY <1>2
  <1> QED
    BY <1>3 DEF MinOut, BpsDenominator, n

(* A request in its new state, and nobody else.                            *)
LEMMA OneRequest ==
  ASSUME RequestsInv, NEW r \in Requests, NEW q \in RequestState,
         req' = [req EXCEPT ![r] = q]
  PROVE  /\ req' \in [Requests -> RequestState]
         /\ req'[r] = q
         /\ \A s \in Requests \ {r} : req'[s] = req[s]
  BY DEF RequestsInv

LEMMA HeldMore ==
  ASSUME NEW q \in RequestState, NEW slots, NEW sig, NEW t \in Nat,
         Held(q, slots, sig, t),
         NEW slots2, NEW sig2, NEW t2 \in Nat,
         slots \subseteq slots2, sig \subseteq sig2, t <= t2
  PROVE  Held(q, slots2, sig2, t2)
  <1>1. q.action \in Actions /\ maxExpirySeconds \in Nat /\ RequestTTL \in Nat
    BY ServerAssumption DEF RequestState
  <1>2. q.action.expiry \in Nat
    BY <1>1 DEF Actions
  <1>3. WithinLimits(q.action, t) => WithinLimits(q.action, t2)
    BY <1>1, <1>2 DEF WithinLimits
  <1>4. q.action.expiry <= t + RequestTTL => q.action.expiry <= t2 + RequestTTL
    BY <1>1, <1>2
  <1> QED
    BY <1>3, <1>4 DEF Held

(* The vaults of the pool hold something, and no more than there is.       *)
LEMMA VaultsInRange ==
  ASSUME AmmTypeOK, PoolInv
  PROVE  /\ pool[Route].vault_a \in 1 .. Supply
         /\ pool[Route].vault_b \in 1 .. Supply
  <1>1. /\ pool[Route].vault_a \in Nat /\ pool[Route].vault_b \in Nat
        /\ Route \in Pools /\ Route[1] \in Mints /\ Route[2] \in Mints
        /\ Route[1] # Route[2]
    BY RouteTyped, PoolFields
  <1>2. pool[Route].vault_a * pool[Route].vault_b > 0
    BY DEF PoolInv, Product
  <1>3. pool[Route].vault_a > 0 /\ pool[Route].vault_b > 0
    BY <1>1, <1>2
  <1>4. ASSUME NEW x \in Mints PROVE VaultOf(Route, x) <= Supply
    <2>1. /\ \A h \in Holders : HeldBy(x)[h] \in Nat
          /\ \A p \in Pools : InVaults(x)[p] \in Nat
      BY WeightsType
    <2>2. /\ SumOver(HeldBy(x), Holders) \in Nat
          /\ SumOver(InVaults(x), Pools) \in Nat
      BY <2>1, SumType, CpSwapAssumption
    <2>3. InVaults(x)[Route] <= SumOver(InVaults(x), Pools)
      BY <1>1, <2>1, SumRemove, CpSwapAssumption
    <2>4. SumOver(HeldBy(x), Holders) + SumOver(InVaults(x), Pools) = minted[x]
      BY DEF PoolInv, TokensConserved, HeldBy, InVaults
    <2>5. minted[x] <= Supply /\ Supply \in Nat
      BY SupplyType DEF PoolInv
    <2>6. InVaults(x)[Route] = VaultOf(Route, x) /\ InVaults(x)[Route] \in Nat
      BY <1>1, <2>1 DEF InVaults
    <2> HIDE DEF HeldBy, InVaults
    <2> QED
      BY <2>2, <2>3, <2>4, <2>5, <2>6
  <1>5. /\ VaultOf(Route, Route[1]) = pool[Route].vault_a
        /\ VaultOf(Route, Route[2]) = pool[Route].vault_b
    BY <1>1 DEF VaultOf
  <1> QED
    BY <1>1, <1>3, <1>4, <1>5, SupplyType

(* A quote from two reserves that may never have been there at the same    *)
(* time is still no more than there is of a token.                         *)
LEMMA QuoteInRange ==
  ASSUME NEW x \in 1 .. Supply, NEW y \in 1 .. Supply, NEW amount \in Nat
  PROVE  AmountOut(x, y, amount) \in 0 .. Supply
  <1> DEFINE n == AfterFee(amount)
             o == AmountOut(x, y, amount)
  <1>1. x \in Nat /\ y \in Nat /\ x > 0 /\ y <= Supply /\ Supply \in Nat
    BY SupplyType
  <1>2. n \in Nat
    BY FeeTaken
  <1>3. o \in Nat /\ o * (x + n) <= y * n
    BY <1>1, OutputBound
  <1> HIDE DEF n, o
  <1>4. ASSUME o > y PROVE FALSE
    <2>1. PICK k \in Nat : o = y + k
      BY <1>1, <1>3, <1>4
    <2>2. o * (x + n) = y * x + y * n + k * (x + n)
      BY <1>1, <1>2, <2>1
    <2>3. /\ y * x \in Nat /\ y * n \in Nat /\ k * (x + n) \in Nat
          /\ y * x > 0
      BY <1>1, <1>2, <2>1
    <2> QED
      BY <1>3, <2>2, <2>3
  <1> QED
    BY <1>1, <1>3, <1>4 DEF o
-----------------------------------------------------------------------------
(* What one step does to the request it belongs to.  The two last facts    *)
(* are those of the count: a request brings no more to it than it had to   *)
(* bring, or was just checked against it.                                  *)

Pays(x, q, q2) ==
  \/ spend'[x] + Due(q2, x) <= spend[x] + Due(q, x)
  \/ spend'[x] = spend[x] /\ spend[x] + Due(q2, x) <= maxAmountInDaily

Moved(r, slots, sig, t) ==
  \E q \in RequestState :
    /\ req' = [req EXCEPT ![r] = q]
    /\ Held(q, slots, sig, t)
    /\ r \in pending' => q.pc \in {"sent", "unknown"}
    /\ pending' \subseteq pending \cup {r}
    /\ spend' \in [Mints -> Nat]
    /\ \A x \in Mints : Pays(x, req[r], q)

LEMMA DueType ==
  ASSUME NEW q \in RequestState, NEW x
  PROVE  Due(q, x) \in Nat
  BY DEF Due, RequestState, Actions

(* A request that is past no check, or was already.                        *)
LEMMA QuietPays ==
  ASSUME NEW q \in RequestState, NEW q2 \in RequestState,
         spend \in [Mints -> Nat], spend' = spend, NEW x \in Mints,
         \/ q2.pc \notin Uncounted
         \/ q2.kind # "run"
         \/ q.pc \in Uncounted /\ q2.kind = q.kind /\ q2.action = q.action
  PROVE  Pays(x, q, q2)
  <1>1. Due(q, x) \in Nat /\ Due(q2, x) \in Nat /\ spend[x] \in Nat
    BY DueType
  <1>2. Due(q2, x) = 0 \/ Due(q2, x) = Due(q, x)
    BY DEF Due
  <1> QED
    BY <1>1, <1>2 DEF Pays

(* The facts about one request that its handler starts from.               *)
LEMMA RequestFacts ==
  ASSUME ServerInv, NEW r \in Requests
  PROVE  /\ req[r] \in RequestState /\ req[r].action \in Actions
         /\ Held(req[r], SlotsRead(Self), signed, now)
         /\ spend \in [Mints -> Nat] /\ now \in Nat /\ now \in 0 .. MaxTime
         /\ pending \subseteq Requests
         /\ r \in pending => req[r].pc \in {"sent", "unknown"}
  <1>1. req[r] \in RequestState /\ Held(req[r], SlotsRead(Self), signed, now)
    BY DEF ServerInv, RequestsInv
  <1>2. now \in 0 .. MaxTime /\ MaxTime \in Nat
    BY AgentAssumption DEF ServerInv, AgentInv, AgentTypes
  <1> QED
    BY <1>1, <1>2 DEF ServerInv, SpendInv, PendingInv, RequestState

LEMMA AbandonMoves ==
  ASSUME ServerInv, NEW r \in Requests, Abandon(r), spend' = spend,
         pending' \subseteq pending, r \notin pending',
         NEW sig
  PROVE  Moved(r, SlotsRead(Self), sig, now)
  <1> DEFINE q == [Blank EXCEPT !.pc = "failed"]
  <1>1. q \in RequestState /\ q.pc = "failed" /\ q.intent = NoIntent
    BY BlankTyped
  <1>2. req' = [req EXCEPT ![r] = q]
    BY DEF Abandon
  <1> HIDE DEF q
  <1>3. Held(q, SlotsRead(Self), sig, now)
    BY <1>1 DEF Held, HasPlanned, HasSigned
  <1>4. \A x \in Mints : Pays(x, req[r], q)
    BY <1>1, RequestFacts, QuietPays DEF Uncounted
  <1> QED
    BY <1>1, <1>2, <1>3, <1>4, RequestFacts DEF Moved

LEMMA StartPlanMoves ==
  ASSUME ServerInv, NEW r \in Requests, NEW kind \in Kinds,
         NEW a_to_b \in Directions, NEW d \in AmountsIn,
         StartPlan(r, kind, a_to_b, d)
  PROVE  Moved(r, SlotsRead(Self), signed, now)
  <1> DEFINE act == [amount |-> d, a_to_b |-> a_to_b, min_out |-> 0,
                     expiry |-> now + RequestTTL]
             q == [Blank EXCEPT !.pc = "asked", !.kind = kind, !.action = act]
  <1>1. /\ req' = [req EXCEPT ![r] = q] /\ req[r].pc = "idle"
        /\ pending' = pending /\ spend' = spend
    BY DEF StartPlan
  <1>2. /\ now + RequestTTL \in Expiries /\ now + RequestTTL \in Nat
        /\ d \in Nat /\ a_to_b \in BOOLEAN
    BY RequestFacts, ServerAssumption, AgentAssumption, PlanAssumption
  <1>3. act \in Actions /\ act.amount = d /\ act.expiry = now + RequestTTL
    BY <1>2 DEF Actions
  <1> HIDE DEF act
  <1>4. /\ q \in RequestState /\ q.pc = "asked" /\ q.action = act
        /\ q.intent = NoIntent
    <2> DEFINE b == [Blank EXCEPT !.pc = "idle"]
    <2>1. b \in RequestState /\ b.intent = NoIntent
      BY BlankTyped
    <2>2. q = [b EXCEPT !.pc = "asked", !.kind = kind, !.action = act]
      BY DEF Blank
    <2> HIDE DEF b
    <2> QED
      BY <1>3, <2>1, <2>2 DEF RequestState, Stages
  <1> HIDE DEF q
  <1>5. Held(q, SlotsRead(Self), signed, now)
    BY <1>2, <1>3, <1>4, RequestFacts DEF Held, HasPlanned, HasSigned
  <1>6. \A x \in Mints : Pays(x, req[r], q)
    BY <1>1, <1>4, RequestFacts, QuietPays DEF Uncounted
  <1> QED
    BY <1>1, <1>4, <1>5, <1>6, RequestFacts DEF Moved

LEMMA QuoteFirstMoves ==
  ASSUME ServerInv, NEW r \in Requests, QuoteFirst(r)
  PROVE  Moved(r, SlotsRead(Self), signed, now)
  <1> DEFINE q == [req[r] EXCEPT !.pc = "half", !.va = pool[Route].vault_a]
  <1>1. /\ req[r].pc = "asked" /\ pending' = pending /\ spend' = spend
        /\ req' = [req EXCEPT ![r].pc = "half", ![r].va = pool[Route].vault_a]
    BY DEF QuoteFirst
  <1>2. req' = [req EXCEPT ![r] = q]
    BY <1>1 DEF ServerInv, RequestsInv
  <1>3. pool[Route].vault_a \in 1 .. Supply /\ pool[Route].vault_a \in Nat
    BY VaultsInRange, SupplyType DEF ServerInv, AgentInv, AgentTypes
  <1>4. req[r] \in RequestState
    BY RequestFacts
  <1>5. /\ q \in RequestState /\ q.pc = "half" /\ q.action = req[r].action
        /\ q.va = pool[Route].vault_a /\ q.intent = req[r].intent
    BY <1>3, <1>4 DEF RequestState, Stages
  <1> HIDE DEF q
  <1>6. Held(q, SlotsRead(Self), signed, now)
    BY <1>1, <1>3, <1>5, RequestFacts DEF Held, HasPlanned, HasSigned
  <1>7. \A x \in Mints : Pays(x, req[r], q)
    BY <1>1, <1>4, <1>5, RequestFacts, QuietPays DEF Uncounted
  <1> QED
    BY <1>1, <1>2, <1>5, <1>6, <1>7, RequestFacts DEF Moved

(* The plan is complete: its quote is within what there is, its minimum    *)
(* follows from the quote, and a run is within the limits of the policy.   *)
LEMMA CheckedWithinLimits ==
  ASSUME NEW action \in Actions, NEW counts, NEW t \in Nat, NEW now2 \in Nat,
         t <= now2, CheckSwap(action, counts, t)
  PROVE  /\ WithinLimits(action, now2)
         /\ \A c \in counts : c + action.amount <= maxAmountInDaily
  <1>1. /\ action.amount \in Nat /\ action.expiry \in Nat
        /\ maxAmountInPerTx \in Nat /\ maxExpirySeconds \in Nat
    BY ServerAssumption DEF Actions
  <1>2. /\ action.amount > 0 /\ action.amount <= maxAmountInPerTx
        /\ action.expiry - t <= maxExpirySeconds
        /\ \A c \in counts : c + action.amount <= maxAmountInDaily
    BY DEF CheckSwap, TimeAndSlippage
  <1> QED
    BY <1>1, <1>2 DEF WithinLimits

LEMMA QuoteTyped ==
  ASSUME ServerInv, NEW r \in Requests, req[r].pc = "half"
  PROVE  /\ Quote(req[r]) \in 0 .. Supply
         /\ MinOut(Quote(req[r])) \in Nat
         /\ LET act == [req[r].action EXCEPT !.min_out = MinOut(Quote(req[r]))]
            IN  /\ act \in Actions
                /\ act.amount = req[r].action.amount
                /\ act.a_to_b = req[r].action.a_to_b
                /\ act.expiry = req[r].action.expiry
                /\ act.min_out = MinOut(Quote(req[r]))
                /\ Planned(act, Quote(req[r]))
  <1>1. /\ req[r].action \in Actions /\ req[r].va \in 1 .. Supply
        /\ req[r].action.amount \in AmountsIn
        /\ req[r].action.expiry \in Expiries
    BY RequestFacts DEF Held
  <1>2. req[r].action.amount \in Nat
    BY <1>1 DEF Actions
  <1>3. pool[Route].vault_b \in 1 .. Supply
    BY VaultsInRange DEF ServerInv, AgentInv, AgentTypes
  <1>4. Quote(req[r]) \in 0 .. Supply
    BY <1>1, <1>2, <1>3, QuoteInRange DEF Quote
  <1>5. Quote(req[r]) \in Nat
    BY <1>4, SupplyType
  <1>6. MinOut(Quote(req[r])) \in Nat
    BY <1>5, MinOutBounds
  <1> DEFINE m == MinOut(Quote(req[r]))
             act == [req[r].action EXCEPT !.min_out = m]
  <1>7. m \in Nat
    BY <1>6
  <1> HIDE DEF m
  <1>8. /\ act \in Actions
        /\ act.amount = req[r].action.amount
        /\ act.a_to_b = req[r].action.a_to_b
        /\ act.expiry = req[r].action.expiry
        /\ act.min_out = m
    BY <1>1, <1>7 DEF Actions
  <1> HIDE DEF act
  <1>9. Planned(act, Quote(req[r]))
    BY <1>1, <1>4, <1>8 DEF Planned, m
  <1> QED
    BY <1>4, <1>6, <1>8, <1>9 DEF act, m

LEMMA QuoteSecondMoves ==
  ASSUME ServerInv, NEW r \in Requests, QuoteSecond(r)
  PROVE  /\ Moved(r, SlotsRead(Self), signed, now)
         /\ OffersInv'
  <1> DEFINE quote == Quote(req[r])
             act == [req[r].action EXCEPT !.min_out = MinOut(quote)]
             asked == act.expiry - RequestTTL
             planned == [req[r] EXCEPT !.action = act, !.quote = quote,
                                       !.va = 0]
             done == [planned EXCEPT !.pc = "done"]
             run == [planned EXCEPT !.pc = "allowed"]
  <1>1. /\ req[r].pc = "half" /\ pending' = pending /\ spend' = spend
        /\ UNCHANGED vars
        /\ IF req[r].kind = "interpret"
           THEN /\ req' = [req EXCEPT ![r] = done]
                /\ offers' = offers \cup {[action |-> act, quote |-> quote]}
           ELSE /\ IF CheckSwap(act, {spend[InputOf(act)]}, asked)
                   THEN req' = [req EXCEPT ![r] = run]
                   ELSE Abandon(r)
                /\ UNCHANGED offers
    BY DEF QuoteSecond
  <1>2. /\ quote \in 0 .. Supply /\ quote \in Nat /\ act \in Actions
        /\ act.amount = req[r].action.amount
        /\ act.expiry = req[r].action.expiry
        /\ Planned(act, quote)
    BY <1>1, QuoteTyped, SupplyType
  <1>3. /\ req[r] \in RequestState /\ r \notin pending
        /\ req[r].intent \in signed \cup {NoIntent}
        /\ act.expiry \in Nat /\ act.expiry <= now + RequestTTL
        /\ RequestTTL \in Nat /\ now \in Nat
        /\ \A t \in Nat : act.expiry = t + RequestTTL => t <= now
    BY <1>1, <1>2, RequestFacts, ServerAssumption DEF Held, Actions
  <1> HIDE DEF quote, act
  <1>4. /\ done \in RequestState /\ done.pc = "done"
        /\ done.intent = req[r].intent
        /\ run \in RequestState /\ run.pc = "allowed" /\ run.action = act
        /\ run.quote = quote /\ run.kind = req[r].kind
        /\ run.intent = req[r].intent
    BY <1>2, <1>3 DEF RequestState, Stages
  <1> HIDE DEF done, run
  <1>5. CASE req[r].kind = "interpret"
    <2>1. Held(done, SlotsRead(Self), signed, now)
      BY <1>3, <1>4 DEF Held, HasPlanned, HasSigned
    <2>2. \A x \in Mints : Pays(x, req[r], done)
      BY <1>1, <1>4, RequestFacts, QuietPays DEF Uncounted
    <2>3. Moved(r, SlotsRead(Self), signed, now)
      BY <1>1, <1>3, <1>4, <1>5, <2>1, <2>2, RequestFacts DEF Moved
    <2>4. OffersInv'
      BY <1>1, <1>2, <1>5 DEF ServerInv, OffersInv
    <2> QED
      BY <2>3, <2>4
  <1>6. CASE req[r].kind # "interpret"
                /\ CheckSwap(act, {spend[InputOf(act)]}, asked)
    <2>1. asked \in Int /\ asked <= now
      BY <1>3
    <2>2. /\ WithinLimits(act, now)
          /\ spend[InputOf(act)] + act.amount <= maxAmountInDaily
      <3>1. /\ act.amount \in Nat /\ maxAmountInPerTx \in Nat
            /\ maxExpirySeconds \in Nat
        BY <1>2, ServerAssumption DEF Actions
      <3>2. /\ act.amount > 0 /\ act.amount <= maxAmountInPerTx
            /\ act.expiry - asked <= maxExpirySeconds
            /\ spend[InputOf(act)] + act.amount <= maxAmountInDaily
        BY <1>6 DEF CheckSwap, TimeAndSlippage
      <3> HIDE DEF asked
      <3> QED
        BY <1>3, <2>1, <3>1, <3>2 DEF WithinLimits
    <2>3. Held(run, SlotsRead(Self), signed, now)
      BY <1>2, <1>3, <1>4, <2>2 DEF Held, HasPlanned, HasSigned
    <2>4. ASSUME NEW x \in Mints PROVE Pays(x, req[r], run)
      <3>1. CASE InputOf(act) = x /\ run.kind = "run"
        <4>1. Due(run, x) = act.amount
          BY <1>4, <3>1 DEF Due, Uncounted
        <4> QED
          BY <1>1, <2>2, <3>1, <4>1 DEF Pays
      <3>2. CASE ~(InputOf(act) = x /\ run.kind = "run")
        <4>1. Due(run, x) = 0 /\ Due(req[r], x) = 0
          BY <1>1, <1>4, <3>2 DEF Due, Uncounted
        <4>2. spend[x] \in Nat
          BY RequestFacts
        <4> QED
          BY <1>1, <4>1, <4>2 DEF Pays
      <3> QED
        BY <3>1, <3>2
    <2>5. Moved(r, SlotsRead(Self), signed, now)
      BY <1>1, <1>3, <1>4, <1>6, <2>3, <2>4, RequestFacts DEF Moved
    <2>6. OffersInv'
      BY <1>1, <1>6 DEF ServerInv, OffersInv
    <2> QED
      BY <2>5, <2>6
  <1>7. CASE req[r].kind # "interpret"
                /\ ~CheckSwap(act, {spend[InputOf(act)]}, asked)
    <2>1. Abandon(r) /\ r \notin pending' /\ pending' \subseteq pending
      BY <1>1, <1>3, <1>7
    <2>2. Moved(r, SlotsRead(Self), signed, now)
      BY <1>1, <2>1, AbandonMoves
    <2>3. OffersInv'
      BY <1>1, <1>7 DEF ServerInv, OffersInv
    <2> QED
      BY <2>2, <2>3
  <1> QED
    BY <1>5, <1>6, <1>7

LEMMA StartExecuteMoves ==
  ASSUME ServerInv, NEW r \in Requests, NEW offer \in offers,
         StartExecute(r, offer)
  PROVE  Moved(r, SlotsRead(Self), signed, now)
  <1> DEFINE q == [Blank EXCEPT !.pc = "allowed", !.kind = "execute",
                     !.action = offer.action, !.quote = offer.quote]
  <1>1. /\ req[r].pc = "idle" /\ pending' = pending /\ spend' = spend
        /\ IF CheckSwap(offer.action, {}, now)
           THEN req' = [req EXCEPT ![r] = q]
           ELSE Abandon(r)
    BY DEF StartExecute
  <1>2. /\ offer.action \in Actions /\ Planned(offer.action, offer.quote)
        /\ offer.quote \in Nat
    BY SupplyType DEF ServerInv, OffersInv, Planned
  <1>3. r \notin pending /\ now \in Nat /\ req[r] \in RequestState
    BY <1>1, RequestFacts
  <1>4. CASE CheckSwap(offer.action, {}, now)
    <2>1. /\ q \in RequestState /\ q.pc = "allowed"
          /\ q.action = offer.action /\ q.quote = offer.quote
          /\ q.kind = "execute" /\ q.intent = NoIntent
      <3> DEFINE b == [Blank EXCEPT !.pc = "idle"]
      <3>1. b \in RequestState /\ b.intent = NoIntent
        BY BlankTyped
      <3>2. q = [b EXCEPT !.pc = "allowed", !.kind = "execute",
                          !.action = offer.action, !.quote = offer.quote]
        BY DEF Blank
      <3> HIDE DEF b
      <3> QED
        BY <1>2, <3>1, <3>2 DEF RequestState, Stages
    <2> HIDE DEF q
    <2>2. WithinLimits(offer.action, now)
      BY <1>2, <1>3, <1>4, CheckedWithinLimits
    <2>3. Held(q, SlotsRead(Self), signed, now)
      BY <1>2, <2>1, <2>2 DEF Held, HasPlanned, HasSigned
    <2>4. \A x \in Mints : Pays(x, req[r], q)
      BY <1>1, <1>3, <2>1, RequestFacts, QuietPays
    <2> QED
      BY <1>1, <1>3, <1>4, <2>1, <2>3, <2>4, RequestFacts DEF Moved
  <1>5. CASE ~CheckSwap(offer.action, {}, now)
    BY <1>1, <1>3, <1>5, AbandonMoves
  <1> QED
    BY <1>4, <1>5

LEMMA ReadStateMoves ==
  ASSUME ServerInv, NEW r \in Requests, ReadState(r)
  PROVE  Moved(r, SlotsRead(Self), signed, now)
  <1> DEFINE q == [req[r] EXCEPT !.pc = "slotted", !.epoch = agent[Self].epoch,
                                 !.nonce = agent[Self].nonce]
  <1>1. /\ req[r].pc = "allowed" /\ pending' = pending /\ spend' = spend
        /\ req' = [req EXCEPT ![r].pc = "slotted",
             ![r].epoch = agent[Self].epoch, ![r].nonce = agent[Self].nonce]
    BY DEF ReadState
  <1>2. req' = [req EXCEPT ![r] = q]
    BY <1>1 DEF ServerInv, RequestsInv
  <1>3. agent[Self] \in AgentState
    BY RouteTyped DEF ServerInv, AgentInv, AgentTypes
  <1>4. agent[Self].epoch \in Nat /\ agent[Self].nonce \in Nat
    BY <1>3, AgentAssumption DEF AgentState
  <1>5. req[r] \in RequestState
    BY RequestFacts
  <1>6. /\ q \in RequestState /\ q.pc = "slotted" /\ q.kind = req[r].kind
        /\ q.action = req[r].action /\ q.quote = req[r].quote
        /\ q.intent = req[r].intent
        /\ q.epoch = agent[Self].epoch /\ q.nonce = agent[Self].nonce
    BY <1>4, <1>5 DEF RequestState, Stages
  <1> HIDE DEF q
  <1>7. Slot(q) \in SlotsRead(Self)
    BY <1>6 DEF Slot, SlotsRead
  <1>8. Held(q, SlotsRead(Self), signed, now)
    BY <1>1, <1>6, <1>7, RequestFacts DEF Held, HasPlanned, HasSigned
  <1>9. \A x \in Mints : Pays(x, req[r], q)
    BY <1>1, <1>5, <1>6, RequestFacts, QuietPays DEF Uncounted
  <1> QED
    BY <1>1, <1>2, <1>6, <1>8, <1>9, RequestFacts DEF Moved

(* The intent that is asked for is one.                                    *)
LEMMA RequestedTyped ==
  ASSUME NEW q \in RequestState, Planned(q.action, q.quote)
  PROVE  RequestedIntent(q) \in Intents
  <1>1. /\ q.epoch \in Nat /\ q.nonce \in Nat /\ q.action \in Actions
        /\ q.action.a_to_b \in BOOLEAN
    BY DEF RequestState, Actions
  <1>2. /\ InOf(Route, q.action.a_to_b) \in Mints
        /\ OutOf(Route, q.action.a_to_b) \in Mints
        /\ Route \in Pools /\ Self \in Agents
    BY <1>1, RouteTyped
  <1>3. KeyOf[Self] \in Roots
    BY <1>2, AgentAssumption
  <1>4. /\ q.action.amount \in AmountsIn /\ q.action.min_out \in MinOuts
        /\ q.action.expiry \in Expiries
    BY PlanAssumption DEF Planned
  <1> QED
    BY <1>1, <1>2, <1>3, <1>4 DEF RequestedIntent, Intents

LEMMA SignRequestMoves ==
  ASSUME ServerInv, NEW r \in Requests, SignRequest(r)
  PROVE  Moved(r, SlotsRead(Self), signed', now)
  <1> DEFINE i == RequestedIntent(req[r])
             q == [req[r] EXCEPT !.pc = "signed", !.intent = i]
  <1>1. /\ req[r].pc = "slotted" /\ pending' = pending /\ spend' = spend
        /\ IF req[r].epoch < NumEpochs
           THEN /\ signed' = signed \cup {i}
                /\ req' = [req EXCEPT ![r].pc = "signed", ![r].intent = i]
           ELSE Abandon(r) /\ signed' = signed
    BY DEF SignRequest
  <1>2. /\ req[r] \in RequestState /\ r \notin pending
        /\ Held(req[r], SlotsRead(Self), signed, now)
        /\ Planned(req[r].action, req[r].quote)
    BY <1>1, RequestFacts DEF Held, HasPlanned
  <1>3. i \in Intents
    BY <1>2, RequestedTyped
  <1>4. CASE req[r].epoch < NumEpochs
    <2>1. req' = [req EXCEPT ![r] = q]
      BY <1>1, <1>4 DEF ServerInv, RequestsInv
    <2> HIDE DEF i
    <2>2. /\ q \in RequestState /\ q.pc = "signed" /\ q.intent = i
          /\ q.kind = req[r].kind /\ q.action = req[r].action
          /\ q.quote = req[r].quote /\ q.epoch = req[r].epoch
          /\ q.nonce = req[r].nonce
      BY <1>2, <1>3 DEF RequestState, Stages
    <2> HIDE DEF q
    <2>3. RequestedIntent(q) = i
      BY <2>2 DEF RequestedIntent, i
    <2>4. Held(q, SlotsRead(Self), signed', now)
      BY <1>1, <1>2, <1>4, <2>2, <2>3 DEF Held, HasPlanned, HasSigned
    <2>5. \A x \in Mints : Pays(x, req[r], q)
      BY <1>1, <1>2, <2>2, RequestFacts, QuietPays DEF Uncounted
    <2> QED
      BY <1>1, <1>2, <2>1, <2>2, <2>4, <2>5, RequestFacts DEF Moved
  <1>5. CASE ~(req[r].epoch < NumEpochs)
    BY <1>1, <1>2, <1>5, AbandonMoves
  <1> QED
    BY <1>4, <1>5

(* A handler that goes on, with what it held.                              *)
LEMMA OnwardMoves ==
  ASSUME ServerInv, NEW r \in Requests, NEW q \in RequestState,
         req' = [req EXCEPT ![r] = q], spend' = spend,
         pending' \subseteq pending \cup {r},
         r \in pending' => q.pc \in {"sent", "unknown"},
         q.kind = req[r].kind, q.action = req[r].action,
         q.quote = req[r].quote, q.epoch = req[r].epoch,
         q.nonce = req[r].nonce, q.intent = req[r].intent,
         req[r].pc \in HasSigned,
         q.pc \in HasSigned \ {"confirmed", "late"},
         q.pc \in Uncounted => req[r].pc \in Uncounted
  PROVE  Moved(r, SlotsRead(Self), signed, now)
  <1>1. RequestedIntent(q) = RequestedIntent(req[r])
    BY DEF RequestedIntent
  <1>2. Held(q, SlotsRead(Self), signed, now)
    BY <1>1, RequestFacts DEF Held, HasPlanned, HasSigned
  <1>3. \A x \in Mints : Pays(x, req[r], q)
    BY RequestFacts, QuietPays
  <1> QED
    BY <1>2, <1>3, RequestFacts DEF Moved

LEMMA StageMoves ==
  ASSUME ServerInv, NEW r \in Requests, StageSignature(r)
  PROVE  Moved(r, SlotsRead(Self), signed, now)
  <1> DEFINE q == [req[r] EXCEPT !.staged = @ + 1]
  <1>1. /\ req[r].pc = "signed" /\ pending' = pending /\ spend' = spend
        /\ req[r].staged < NumChunks
        /\ req' = [req EXCEPT ![r].staged = @ + 1]
    BY DEF StageSignature, keyVars
  <1>2. req' = [req EXCEPT ![r] = q]
    BY <1>1 DEF ServerInv, RequestsInv
  <1>3. req[r] \in RequestState /\ r \notin pending
    BY <1>1, RequestFacts
  <1>4. req[r].staged + 1 \in 0 .. NumChunks
    BY <1>1, <1>3, BufferAssumption DEF RequestState
  <1>5. /\ q \in RequestState /\ q.pc = req[r].pc /\ q.kind = req[r].kind
        /\ q.action = req[r].action /\ q.quote = req[r].quote
        /\ q.epoch = req[r].epoch /\ q.nonce = req[r].nonce
        /\ q.intent = req[r].intent
    BY <1>3, <1>4 DEF RequestState
  <1> HIDE DEF q
  <1> QED
    BY <1>1, <1>2, <1>3, <1>5, OnwardMoves DEF HasSigned, Uncounted

(* What the agent holds is a natural number.                               *)
LEMMA BalanceTyped ==
  ASSUME ServerInv, NEW q \in RequestState
  PROVE  OutputBalance(q) \in Nat
  <1>1. q.action.a_to_b \in BOOLEAN
    BY DEF RequestState, Actions
  <1>2. OutOf(Route, q.action.a_to_b) \in Mints /\ Self \in Holders
    BY <1>1, RouteTyped
  <1> QED
    BY <1>2 DEF OutputBalance, ServerInv, AgentInv, AgentTypes, AmmTypeOK

LEMMA ReadBeforeMoves ==
  ASSUME ServerInv, NEW r \in Requests, ReadBefore(r)
  PROVE  Moved(r, SlotsRead(Self), signed, now)
  <1> DEFINE b == OutputBalance(req[r])
             q == [req[r] EXCEPT !.before = b, !.pc = "measured"]
  <1>1. /\ req[r].pc = "signed" /\ pending' = pending /\ spend' = spend
        /\ req' = [req EXCEPT ![r].before = b, ![r].pc = "measured"]
    BY DEF ReadBefore
  <1>2. req' = [req EXCEPT ![r] = q]
    BY <1>1 DEF ServerInv, RequestsInv
  <1>3. req[r] \in RequestState /\ r \notin pending /\ b \in Nat
    BY <1>1, RequestFacts, BalanceTyped
  <1> HIDE DEF b
  <1>4. /\ q \in RequestState /\ q.pc = "measured" /\ q.kind = req[r].kind
        /\ q.action = req[r].action /\ q.quote = req[r].quote
        /\ q.epoch = req[r].epoch /\ q.nonce = req[r].nonce
        /\ q.intent = req[r].intent
    BY <1>3 DEF RequestState, Stages
  <1> HIDE DEF q
  <1> QED
    BY <1>1, <1>2, <1>3, <1>4, OnwardMoves DEF HasSigned, Uncounted

(* A change of stage and nothing else.                                     *)
LEMMA GotoMoves ==
  ASSUME ServerInv, NEW r \in Requests, NEW pc \in Stages, Goto(r, pc)
  PROVE  \E q \in RequestState :
           /\ req' = [req EXCEPT ![r] = q]
           /\ q.pc = pc /\ q.kind = req[r].kind
           /\ q.action = req[r].action /\ q.quote = req[r].quote
           /\ q.epoch = req[r].epoch /\ q.nonce = req[r].nonce
           /\ q.intent = req[r].intent
  <1> DEFINE q == [req[r] EXCEPT !.pc = pc]
  <1>1. req' = [req EXCEPT ![r] = q]
    BY DEF Goto, ServerInv, RequestsInv
  <1>2. req[r] \in RequestState
    BY RequestFacts
  <1>3. /\ q \in RequestState /\ q.pc = pc /\ q.kind = req[r].kind
        /\ q.action = req[r].action /\ q.quote = req[r].quote
        /\ q.epoch = req[r].epoch /\ q.nonce = req[r].nonce
        /\ q.intent = req[r].intent
    BY <1>2 DEF RequestState
  <1> HIDE DEF q
  <1> QED
    BY <1>1, <1>3

LEMMA SendMoves ==
  ASSUME ServerInv, NEW r \in Requests, Send(r)
  PROVE  Moved(r, SlotsRead(Self), signed, now)
  <1>1. /\ req[r].pc = "measured" /\ Goto(r, "sent") /\ spend' = spend
        /\ pending' = pending \cup {r}
    BY DEF Send
  <1>2. PICK q \in RequestState :
          /\ req' = [req EXCEPT ![r] = q]
          /\ q.pc = "sent" /\ q.kind = req[r].kind
          /\ q.action = req[r].action /\ q.quote = req[r].quote
          /\ q.epoch = req[r].epoch /\ q.nonce = req[r].nonce
          /\ q.intent = req[r].intent
    BY <1>1, GotoMoves DEF Stages
  <1> QED
    BY <1>1, <1>2, OnwardMoves DEF HasSigned, Uncounted

LEMMA GiveUpMoves ==
  ASSUME ServerInv, NEW r \in Requests, GiveUp(r)
  PROVE  Moved(r, SlotsRead(Self), signed, now)
  <1>1. /\ req[r].pc = "sent" /\ Goto(r, "unknown") /\ spend' = spend
        /\ pending' = pending
    BY DEF GiveUp
  <1>2. PICK q \in RequestState :
          /\ req' = [req EXCEPT ![r] = q]
          /\ q.pc = "unknown" /\ q.kind = req[r].kind
          /\ q.action = req[r].action /\ q.quote = req[r].quote
          /\ q.epoch = req[r].epoch /\ q.nonce = req[r].nonce
          /\ q.intent = req[r].intent
    BY <1>1, GotoMoves DEF Stages
  <1> QED
    BY <1>1, <1>2, OnwardMoves DEF HasSigned, Uncounted

LEMMA FinishMoves ==
  ASSUME ServerInv, NEW r \in Requests, Finish(r)
  PROVE  Moved(r, SlotsRead(Self), signed, now)
  <1> DEFINE got == OutputBalance(req[r]) - req[r].before
             q == [req[r] EXCEPT !.pc = "done", !.received = got]
             x0 == InputOf(req[r].action)
             amount == req[r].action.amount
  <1>1. /\ req[r].pc = "confirmed" /\ pending' = pending
        /\ req' = [req EXCEPT ![r].pc = "done", ![r].received = got]
        /\ spend' = IF req[r].kind = "run"
                    THEN [spend EXCEPT ![x0] = @ + amount] ELSE spend
    BY DEF Finish
  <1>2. req' = [req EXCEPT ![r] = q]
    BY <1>1 DEF ServerInv, RequestsInv
  <1>3. /\ req[r] \in RequestState /\ r \notin pending
        /\ req[r].intent \in signed \cup {NoIntent}
        /\ spend \in [Mints -> Nat]
    BY <1>1, RequestFacts DEF Held
  <1>4. got \in Int /\ x0 \in Mints /\ amount \in Nat
    <2>1. OutputBalance(req[r]) \in Nat /\ req[r].before \in Nat
      BY <1>3, BalanceTyped DEF RequestState
    <2>2. req[r].action.a_to_b \in BOOLEAN /\ amount \in Nat
      BY <1>3 DEF RequestState, Actions
    <2> QED
      BY <2>1, <2>2, RouteTyped DEF InputOf
  <1> HIDE DEF got
  <1>5. q \in RequestState /\ q.pc = "done" /\ q.intent = req[r].intent
    BY <1>3, <1>4 DEF RequestState, Stages
  <1> HIDE DEF q
  <1>6. Held(q, SlotsRead(Self), signed, now)
    BY <1>3, <1>5 DEF Held, HasPlanned, HasSigned
  <1>7. \A x \in Mints : Due(q, x) = 0
    BY <1>5 DEF Due, Uncounted
  <1>8. CASE req[r].kind = "run"
    <2>1. /\ spend' \in [Mints -> Nat] /\ spend'[x0] = spend[x0] + amount
          /\ \A x \in Mints \ {x0} : spend'[x] = spend[x]
      BY <1>1, <1>3, <1>4, <1>8
    <2>2. \A x \in Mints : Due(req[r], x) = IF x = x0 THEN amount ELSE 0
      BY <1>1, <1>8 DEF Due, Uncounted
    <2>3. \A x \in Mints : spend[x] \in Nat /\ spend'[x] \in Nat
      BY <1>3, <2>1
    <2> HIDE DEF amount, x0
    <2>4. \A x \in Mints :
            spend'[x] + Due(q, x) <= spend[x] + Due(req[r], x)
      BY <1>4, <1>7, <2>1, <2>2, <2>3
    <2>5. \A x \in Mints : Pays(x, req[r], q)
      BY <2>4 DEF Pays
    <2> QED
      BY <1>1, <1>2, <1>3, <1>5, <1>6, <2>1, <2>5 DEF Moved
  <1>9. CASE req[r].kind # "run"
    <2>1. spend' = spend
      BY <1>1, <1>9
    <2>2. \A x \in Mints : Pays(x, req[r], q)
      BY <1>3, <1>5, <2>1, QuietPays DEF Uncounted
    <2> QED
      BY <1>1, <1>2, <1>3, <1>5, <1>6, <2>1, <2>2 DEF Moved
  <1> QED
    BY <1>8, <1>9

LEMMA FailMoves ==
  ASSUME ServerInv, NEW r \in Requests, RequestFails(r)
  PROVE  Moved(r, SlotsRead(Self), signed, now)
  <1>1. /\ Abandon(r) /\ pending' = pending /\ spend' = spend
        /\ req[r].pc \notin {"sent", "unknown"}
    BY DEF RequestFails
  <1>2. r \notin pending
    BY <1>1, RequestFacts
  <1> QED
    BY <1>1, <1>2, AbandonMoves

LEMMA AnswerMoves ==
  ASSUME ServerInv, NEW r \in Requests, Answer(r)
  PROVE  Moved(r, SlotsRead(Self), signed, now)
  <1> DEFINE q == [Blank EXCEPT !.pc = "idle"]
  <1>1. /\ req' = [req EXCEPT ![r] = Blank] /\ r \notin pending
        /\ pending' = pending /\ spend' = spend
    BY DEF Answer
  <1>2. Blank = q
    BY DEF Blank
  <1>3. q \in RequestState /\ q.pc = "idle" /\ q.intent = NoIntent
    BY BlankTyped
  <1>4. req' = [req EXCEPT ![r] = q]
    BY <1>1, <1>2
  <1> HIDE DEF q
  <1>5. Held(q, SlotsRead(Self), signed, now)
    BY <1>3 DEF Held, HasPlanned, HasSigned
  <1>6. \A x \in Mints : Pays(x, req[r], q)
    BY <1>1, <1>3, RequestFacts, QuietPays DEF Uncounted
  <1> QED
    BY <1>1, <1>3, <1>4, <1>5, <1>6, RequestFacts DEF Moved

LEMMA DropMoves ==
  ASSUME ServerInv, NEW r \in Requests, Drop(r)
  PROVE  Moved(r, SlotsRead(Self), signed, now)
  <1>1. /\ r \in pending /\ pending' = pending \ {r} /\ spend' = spend
        /\ IF req[r].pc = "sent" THEN Abandon(r) ELSE req' = req
    BY DEF Drop
  <1>2. CASE req[r].pc = "sent"
    BY <1>1, <1>2, AbandonMoves
  <1>3. CASE req[r].pc # "sent"
    <2>1. req[r].pc = "unknown" /\ req[r] \in RequestState
      BY <1>1, <1>3, RequestFacts
    <2>2. req' = [req EXCEPT ![r] = req[r]]
      BY <1>1, <1>3 DEF ServerInv, RequestsInv
    <2> QED
      BY <1>1, <2>1, <2>2, OnwardMoves DEF HasSigned, Uncounted
  <1> QED
    BY <1>2, <1>3

(* What lands is the swap that was asked for, and nothing else.            *)
LEMMA LandSwaps ==
  ASSUME ServerInv, NEW r \in Requests, Land(r)
  PROVE  LET i == RequestedIntent(req[r])
         IN  /\ req[r].pc \in {"sent", "unknown"}
             /\ req[r].intent = i /\ i \in Intents
             /\ r \in Buffers /\ i.route = Route
             /\ i.output_mint = OutOf(Route, req[r].action.a_to_b)
             /\ i.min_out = req[r].action.min_out
             /\ ExecuteSwap(Self, r, i.route, i.input_mint, i.output_mint,
                            i.amount_in, i.min_out, i.expiry)
  <1>1. r \in pending
    BY DEF Land
  <1>2. req[r].pc \in {"sent", "unknown"} /\ req[r] \in RequestState
    BY <1>1, RequestFacts
  <1>3. /\ req[r].intent = RequestedIntent(req[r])
        /\ Planned(req[r].action, req[r].quote)
    BY <1>2, RequestFacts DEF Held, HasPlanned, HasSigned
  <1>4. RequestedIntent(req[r]) \in Intents /\ r \in Buffers
    BY <1>2, <1>3, RequestedTyped, ServerAssumption
  <1>5. /\ RequestedIntent(req[r]).route = Route
        /\ RequestedIntent(req[r]).output_mint
             = OutOf(Route, req[r].action.a_to_b)
        /\ RequestedIntent(req[r]).min_out = req[r].action.min_out
    BY DEF RequestedIntent
  <1>6. ExecuteSwap(Self, r, req[r].intent.route, req[r].intent.input_mint,
                    req[r].intent.output_mint, req[r].intent.amount_in,
                    req[r].intent.min_out, req[r].intent.expiry)
    BY DEF Land
  <1> QED
    BY <1>2, <1>3, <1>4, <1>5, <1>6

(* The balance check of the program makes up for whatever happened to the  *)
(* pool since the quote.                                                   *)
LEMMA LandFills ==
  ASSUME ServerInv, NEW r \in Requests, Land(r), AmmTypeOK'
  PROVE  LET out == OutOf(Route, req[r].action.a_to_b)
             paid == balance'[Self][out] - balance[Self][out]
         IN  /\ paid \in Nat
             /\ BpsDenominator * paid
                  > (BpsDenominator - SlippageBps) * req[r].quote
                      - BpsDenominator
  <1> DEFINE out == OutOf(Route, req[r].action.a_to_b)
             old == balance[Self][out]
             new == balance'[Self][out]
             quote == req[r].quote
             keep == BpsDenominator - SlippageBps
  <1>1. /\ req[r].pc \in {"sent", "unknown"}
        /\ new - old >= req[r].action.min_out
    BY LandSwaps DEF ExecuteSwap
  <1>2. req[r] \in RequestState /\ req[r].action.min_out = MinOut(quote)
    BY <1>1, RequestFacts DEF Held, HasPlanned, HasSigned, Planned
  <1>3. quote \in Nat /\ req[r].action.a_to_b \in BOOLEAN
    BY <1>2 DEF RequestState, Actions
  <1>4. out \in Mints /\ Self \in Holders
    BY <1>3, RouteTyped
  <1>5. old \in Nat /\ new \in Nat
    BY <1>4 DEF ServerInv, AgentInv, AgentTypes, AmmTypeOK
  <1>6. /\ MinOut(quote) \in Nat
        /\ quote * keep < BpsDenominator * (MinOut(quote) + 1)
    BY <1>3, MinOutBounds
  <1>7. keep \in Nat /\ BpsDenominator = 10000
    BY ServerAssumption DEF BpsDenominator
  <1>8. quote * keep = keep * quote /\ keep * quote \in Nat
    BY <1>3, <1>7
  <1> DEFINE least == MinOut(quote)
             kept == keep * quote
  <1>9. /\ least \in Nat /\ kept \in Nat /\ new - old >= least
        /\ kept < 10000 * (least + 1)
    BY <1>1, <1>2, <1>6, <1>7, <1>8
  <1> HIDE DEF new, old, least, kept
  <1>10. new - old \in Nat /\ 10000 * (new - old) > kept - 10000
    BY <1>5, <1>9
  <1> QED
    BY <1>7, <1>10 DEF new, old, kept

LEMMA LandMoves ==
  ASSUME ServerInv, NEW r \in Requests, Land(r), AmmTypeOK'
  PROVE  Moved(r, SlotsRead(Self), signed, now)
  <1> DEFINE out == OutOf(Route, req[r].action.a_to_b)
             paid == balance'[Self][out] - balance[Self][out]
             pc == IF req[r].pc = "sent" THEN "confirmed" ELSE "late"
             q == [req[r] EXCEPT !.pc = pc, !.paid = paid]
  <1>1. /\ pending' = pending \ {r} /\ spend' = spend
        /\ req' = [req EXCEPT
             ![r].pc = IF @ = "sent" THEN "confirmed" ELSE "late",
             ![r].paid = paid]
    BY DEF Land
  <1>2. req' = [req EXCEPT ![r] = q]
    BY <1>1 DEF ServerInv, RequestsInv
  <1>3. req[r].pc \in {"sent", "unknown"} /\ req[r] \in RequestState
    BY LandSwaps, RequestFacts
  <1>4. /\ paid \in Nat
        /\ BpsDenominator * paid
             > (BpsDenominator - SlippageBps) * req[r].quote - BpsDenominator
    BY LandFills
  <1>5. pc \in {"confirmed", "late"} /\ (pc = "confirmed" => req[r].pc = "sent")
    BY <1>3
  <1> HIDE DEF paid, pc
  <1>6. /\ q \in RequestState /\ q.pc = pc /\ q.kind = req[r].kind
        /\ q.action = req[r].action /\ q.quote = req[r].quote
        /\ q.epoch = req[r].epoch /\ q.nonce = req[r].nonce
        /\ q.intent = req[r].intent /\ q.paid = paid
    BY <1>3, <1>4, <1>5 DEF RequestState, Stages
  <1> HIDE DEF q
  <1>7. RequestedIntent(q) = RequestedIntent(req[r])
    BY <1>6 DEF RequestedIntent
  <1>8. Filled(q)
    BY <1>4, <1>6 DEF Filled
  <1>9. Held(q, SlotsRead(Self), signed, now)
    BY <1>3, <1>5, <1>6, <1>7, <1>8, RequestFacts
    DEF Held, HasPlanned, HasSigned
  <1>10. \A x \in Mints : Pays(x, req[r], q)
    BY <1>1, <1>3, <1>5, <1>6, RequestFacts, QuietPays DEF Uncounted
  <1> QED
    BY <1>1, <1>2, <1>6, <1>9, <1>10, RequestFacts DEF Moved
-----------------------------------------------------------------------------
(* The steps of the backend are steps of the agent.                        *)

LEMMA SignIsSign ==
  ASSUME ServerInv, NEW r \in Requests, SignRequest(r)
  PROVE  /\ UNCHANGED vars \/ Sign
         /\ now' = now /\ minted' = minted
         /\ \A i \in signed' \ signed :
              /\ i = RequestedIntent(req[r])
              /\ WithinLimits(req[r].action, now)
  <1> DEFINE act == req[r].action
             slot == Slot(req[r])
  <1>1. /\ req[r].pc = "slotted"
        /\ UNCHANGED <<ammVars, buffer, now, agent, spent>>
    BY DEF SignRequest
  <1>2. /\ req[r] \in RequestState /\ act \in Actions
        /\ slot \in SlotsRead(Self)
        /\ Planned(act, req[r].quote) /\ WithinLimits(act, now)
    BY <1>1, RequestFacts DEF Held, HasPlanned
  <1>3. CASE req[r].epoch < NumEpochs
    <2>1. /\ Cardinality(signed) < MaxSigned
          /\ signed' = signed \cup {RequestedIntent(req[r])}
      BY <1>3 DEF SignRequest
    <2>2. /\ Self \in Agents /\ Route \in Pools /\ act.a_to_b \in BOOLEAN
          /\ act.amount \in AmountsIn /\ act.min_out \in MinOuts
          /\ act.expiry \in Expiries
      BY <1>2, RouteTyped, PlanAssumption DEF Planned, Actions
    <2>3. agent[Self].live
      BY DEF ServerInv, PoolInv
    <2>4. slot.epoch = req[r].epoch /\ slot.nonce = req[r].nonce
      BY DEF Slot
    <2>5. SignSwap(Self, slot, Route, act.a_to_b, act.amount, act.min_out,
                   act.expiry)
      BY <1>1, <1>3, <2>1, <2>3, <2>4 DEF SignSwap, RequestedIntent
    <2>6. Sign
      BY <1>2, <2>2, <2>5 DEF Sign
    <2> QED
      BY <1>1, <1>2, <2>1, <2>6 DEF ammVars
  <1>4. CASE ~(req[r].epoch < NumEpochs)
    <2>1. signed' = signed
      BY <1>4 DEF SignRequest
    <2> QED
      BY <1>1, <2>1 DEF vars, keyVars, ammVars
  <1> QED
    BY <1>3, <1>4

LEMMA StageIsStage ==
  ASSUME ServerInv, NEW r \in Requests, StageSignature(r)
  PROVE  Stage(signed) /\ UNCHANGED <<ammVars, now, keyVars>>
  <1>1. /\ req[r].pc = "signed" /\ req[r].staged < NumChunks
        /\ WriteBuffer(r, req[r].staged + 1,
                       Piece(req[r].intent, req[r].staged + 1))
        /\ UNCHANGED <<ammVars, now, keyVars>>
    BY DEF StageSignature
  <1>2. req[r] \in RequestState /\ req[r].intent \in signed
    BY <1>1, RequestFacts DEF Held, HasSigned
  <1>3. req[r].staged + 1 \in Chunks /\ r \in Buffers
    BY <1>1, <1>2, ServerAssumption, BufferAssumption DEF RequestState, Chunks
  <1> QED
    BY <1>1, <1>2, <1>3 DEF Stage

LEMMA LandIsSubmit ==
  ASSUME ServerInv, NEW r \in Requests, Land(r)
  PROVE  Submit /\ now' = now /\ signed' = signed /\ minted' = minted
  <1> DEFINE i == RequestedIntent(req[r])
  <1>1. /\ i \in Intents /\ r \in Buffers
        /\ ExecuteSwap(Self, r, i.route, i.input_mint, i.output_mint,
                       i.amount_in, i.min_out, i.expiry)
    BY LandSwaps
  <1> HIDE DEF i
  <1>2. /\ i.route \in Pools /\ i.input_mint \in Mints
        /\ i.output_mint \in Mints /\ i.amount_in \in AmountsIn
        /\ i.min_out \in MinOuts /\ i.expiry \in Expiries
        /\ Self \in Agents
    BY <1>1, RouteTyped DEF Intents
  <1>3. Submit
    BY <1>1, <1>2 DEF Submit
  <1>4. now' = now /\ signed' = signed /\ minted' = minted
    BY <1>1 DEF ExecuteSwap, Swap
  <1> QED
    BY <1>3, <1>4

(* All that one request's handler and transaction do.                      *)
LEMMA RequestSteps ==
  ASSUME ServerInv, NEW r \in Requests, Handle(r) \/ Network(r)
  PROVE  /\ UNCHANGED vars \/ Next
         /\ now' = now /\ minted' = minted
         /\ \A i \in signed' \ signed :
              /\ i = RequestedIntent(req[r])
              /\ WithinLimits(req[r].action, now)
  <1>1. CASE SignRequest(r)
    BY <1>1, SignIsSign DEF Next
  <1>2. CASE StageSignature(r)
    <2>1. Stage(signed) /\ UNCHANGED <<ammVars, now, keyVars>>
      BY <1>2, StageIsStage
    <2>2. Next
      BY <2>1 DEF Next
    <2> QED
      BY <2>1, <2>2 DEF ammVars, keyVars
  <1>3. CASE Land(r)
    BY <1>3, LandIsSubmit DEF Next
  <1>4. CASE UNCHANGED vars
    BY <1>4 DEF vars, ammVars, keyVars
  <1>5. SignRequest(r) \/ StageSignature(r) \/ Land(r) \/ UNCHANGED vars
    BY DEF Handle, Network, StartPlan, QuoteFirst, QuoteSecond, StartExecute,
           ReadState, ReadBefore, Send, GiveUp, Finish, RequestFails, Answer,
           Drop
  <1> QED
    BY <1>1, <1>2, <1>3, <1>4, <1>5

LEMMA RequestMoves ==
  ASSUME ServerInv, NEW r \in Requests, Handle(r) \/ Network(r), AmmTypeOK'
  PROVE  Moved(r, SlotsRead(Self), signed', now) /\ OffersInv'
  <1>1. CASE SignRequest(r)
    <2>1. offers' = offers
      BY <1>1 DEF SignRequest
    <2> QED
      BY <1>1, <2>1, SignRequestMoves DEF ServerInv, OffersInv
  <1>2. CASE ~SignRequest(r)
    <2>1. signed' = signed
      BY <1>2 DEF Handle, Network, StartPlan, QuoteFirst, QuoteSecond,
           StartExecute, ReadState, StageSignature, ReadBefore, Send, GiveUp,
           Finish, RequestFails, Answer, Drop, Land, ExecuteSwap, vars, keyVars
    <2>2. QuoteSecond(r) \/ offers' = offers
      BY <1>2 DEF Handle, Network, StartPlan, QuoteFirst, StartExecute,
           ReadState, StageSignature, ReadBefore, Send, GiveUp, Finish,
           RequestFails, Answer, Drop, Land
    <2>3. OffersInv'
      BY <2>2, QuoteSecondMoves DEF ServerInv, OffersInv
    <2>4. Moved(r, SlotsRead(Self), signed, now)
      <3>1. CASE Handle(r)
        <4>1. ASSUME NEW kind \in Kinds \ {"execute"},
                     NEW a_to_b \in Directions, NEW d \in AmountsIn,
                     StartPlan(r, kind, a_to_b, d)
              PROVE  Moved(r, SlotsRead(Self), signed, now)
          BY <4>1, StartPlanMoves
        <4>2. ASSUME NEW offer \in offers, StartExecute(r, offer)
              PROVE  Moved(r, SlotsRead(Self), signed, now)
          BY <4>2, StartExecuteMoves
        <4> QED
          BY <1>2, <3>1, <4>1, <4>2, QuoteFirstMoves, QuoteSecondMoves,
             ReadStateMoves, StageMoves, ReadBeforeMoves, SendMoves,
             GiveUpMoves, FinishMoves, FailMoves, AnswerMoves DEF Handle
      <3>2. CASE Network(r)
        BY <3>2, LandMoves, DropMoves DEF Network
      <3> QED
        BY <3>1, <3>2
    <2> QED
      BY <2>1, <2>3, <2>4
  <1> QED
    BY <1>1, <1>2

LEMMA MarketStep ==
  ASSUME Market, UNCHANGED <<buffer, now, keyVars, web>>
  PROVE  Next /\ minted' = minted
  <1>1. PICK h \in Holders \ Agents, d \in Trades, a_to_b \in BOOLEAN :
          Swap(h, Route, d, 0, a_to_b)
    BY DEF Market
  <1>2. Route \in Pools
    BY ServerAssumption
  <1>3. AmmNext(Holders \ Agents)
    BY <1>1, <1>2 DEF AmmNext
  <1> QED
    BY <1>1, <1>3 DEF Next, Swap

(* Every step: one request's, or none of theirs.                           *)
LEMMA ServerSteps ==
  ASSUME ServerInv, [ServerNext]_serverVars
  PROVE  /\ UNCHANGED vars \/ Next
         /\ minted' = minted
         /\ \/ \E r \in Requests : Handle(r) \/ Network(r)
            \/ UNCHANGED web /\ signed' = signed
  <1>1. CASE \E r \in Requests : Handle(r) \/ Network(r)
    BY <1>1, RequestSteps
  <1>2. CASE Market /\ UNCHANGED <<buffer, now, keyVars, web>>
    BY <1>2, MarketStep DEF keyVars
  <1>3. CASE Tick /\ UNCHANGED web
    BY <1>3 DEF Tick, Next, ammVars, keyVars
  <1>4. CASE UNCHANGED serverVars
    BY <1>4 DEF serverVars, vars, ammVars, keyVars
  <1> QED
    BY <1>1, <1>2, <1>3, <1>4 DEF ServerNext
-----------------------------------------------------------------------------
(* The invariant is kept.                                                  *)

(* The slots an agent has been at, the signer's past and time only grow.   *)
LEMMA StepGrows ==
  ASSUME AgentInv, agent[Self].live, [Next]_vars
  PROVE  /\ SlotsRead(Self) \subseteq SlotsRead(Self)'
         /\ signed \subseteq signed' /\ now <= now'
         /\ agent'[Self].live
  <1>1. /\ Self \in Agents /\ AgentTypes /\ now \in Nat /\ MaxTime \in Nat
        /\ agent[Self] \in AgentState /\ spent[Self] \in Seq(signed)
    <2>1. Self \in Agents /\ AgentTypes
      BY RouteTyped DEF AgentInv
    <2>2. now \in Nat /\ MaxTime \in Nat
      BY <2>1, AgentAssumption DEF AgentTypes
    <2>3. agent[Self] \in AgentState /\ spent[Self] \in Seq(signed)
      BY <2>1 DEF AgentTypes
    <2> QED
      BY <2>1, <2>2, <2>3
  <1>2. CASE \E a \in Agents : CreateAgent(a)
    <2>1. PICK a \in Agents : CreateAgent(a)
      BY <1>2
    <2>2. a # Self
      BY <2>1 DEF CreateAgent
    <2>3. agent'[Self] = agent[Self] /\ UNCHANGED <<now, signed, spent>>
      BY <1>1, <2>1, <2>2 DEF CreateAgent, AgentTypes
    <2> QED
      BY <1>1, <2>3 DEF SlotsRead
  <1>3. CASE Sign
    BY <1>1, <1>3 DEF Sign, SignSwap, SlotsRead
  <1>4. CASE Submit
    <2>1. PICK a \in Agents, b \in Buffers, p \in Pools, x \in Mints,
               y \in Mints, amount_in \in AmountsIn, min_out \in MinOuts,
               expiry \in Expiries :
            ExecuteSwap(a, b, p, x, y, amount_in, min_out, expiry)
      BY <1>4 DEF Submit
    <2> DEFINE i == IntentOf(a, p, x, y, amount_in, min_out, expiry)
    <2>2. /\ i \in signed /\ agent[a].epoch < NumEpochs
          /\ spent' = [spent EXCEPT ![a] = Append(spent[a], i)]
          /\ agent' = [agent EXCEPT ![a] = AdvanceSigning(agent[a])]
          /\ now' = now /\ signed' = signed
      BY <1>1, <2>1, SwapAuthorised
    <2>3. Slot(i) = Slot(agent[a])
      BY DEF IntentOf, Slot
    <2> HIDE DEF i
    <2>4. CASE a = Self
      <3>1. /\ spent'[Self] = Append(spent[Self], i)
            /\ agent'[Self] = AdvanceSigning(agent[Self])
        BY <1>1, <2>2, <2>4 DEF AgentTypes
      <3>2. /\ Len(spent'[Self]) = Len(spent[Self]) + 1
            /\ Len(spent[Self]) \in Nat
            /\ spent'[Self][Len(spent[Self]) + 1] = i
            /\ \A n \in 1 .. Len(spent[Self]) :
                 spent'[Self][n] = spent[Self][n]
        BY <1>1, <2>2, <3>1
      <3>3. Slot(agent[Self]) \in SlotsRead(Self)'
        BY <2>3, <2>4, <3>2 DEF SlotsRead
      <3>4. \A n \in 1 .. Len(spent[Self]) :
              Slot(spent[Self][n]) \in SlotsRead(Self)'
        BY <3>2 DEF SlotsRead
      <3>5. SlotsRead(Self) \subseteq SlotsRead(Self)'
        BY <3>3, <3>4 DEF SlotsRead
      <3>6. Counts(Self)
        BY <1>1 DEF AgentInv
      <3>7. agent'[Self].live
        BY <1>1, <2>2, <2>4, <3>1, <3>6, AdvanceCounts DEF Counts
      <3> QED
        BY <1>1, <2>2, <3>5, <3>7
    <2>5. CASE a # Self
      <3>1. spent'[Self] = spent[Self] /\ agent'[Self] = agent[Self]
        BY <1>1, <2>2, <2>5 DEF AgentTypes
      <3> QED
        BY <1>1, <2>2, <3>1 DEF SlotsRead
    <2> QED
      BY <2>4, <2>5
  <1>5. CASE Tick
    BY <1>1, <1>5 DEF Tick, keyVars, SlotsRead
  <1>6. CASE UNCHANGED <<now, keyVars>>
    BY <1>1, <1>6 DEF keyVars, SlotsRead
  <1>7. \/ \E a \in Agents : CreateAgent(a)
        \/ Sign \/ Submit \/ Tick \/ UNCHANGED <<now, keyVars>>
    BY DEF Next, vars
  <1> QED
    BY <1>2, <1>3, <1>4, <1>5, <1>6, <1>7

LEMMA ServerGrows ==
  ASSUME ServerInv, [ServerNext]_serverVars
  PROVE  /\ AgentInv'
         /\ SlotsRead(Self) \subseteq SlotsRead(Self)'
         /\ signed \subseteq signed' /\ now <= now'
         /\ now \in Nat /\ now' \in Nat
  <1>1. [Next]_vars
    BY ServerSteps
  <1>2. AgentInv' /\ AgentInv /\ agent[Self].live
    BY <1>1, AgentInvNext DEF ServerInv, PoolInv
  <1>3. now \in Nat /\ now' \in Nat
    BY <1>2, AgentAssumption DEF AgentInv, AgentTypes
  <1> QED
    BY <1>1, <1>2, <1>3, StepGrows

LEMMA PoolInvNext ==
  ASSUME ServerInv, [ServerNext]_serverVars
  PROVE  PoolInv'
  <1>1. [Next]_vars /\ minted' = minted
    BY ServerSteps
  <1>2. AgentInv /\ AgentInv' /\ AmmTypeOK /\ AmmTypeOK'
    BY ServerGrows DEF ServerInv, AgentInv, AgentTypes
  <1>3. agent'[Self].live
    BY <1>1, StepGrows DEF ServerInv, PoolInv
  <1>4. TokensConserved'
    BY <1>1, <1>2, ConservedBeside DEF ServerInv, PoolInv
  <1>5. Product(Route)' > 0
    <2>1. Route \in Pools
      BY RouteTyped
    <2>2. Product(Route)' >= Product(Route) \/ pool' = pool
      BY <1>1, <1>2, <2>1, ProductBeside DEF ProductHolds
    <2>3. pool' = pool => Product(Route)' = Product(Route)
      BY DEF Product
    <2>4. Product(Route) \in Nat /\ Product(Route) > 0
      <3>1. pool[Route] \in PoolState
        BY <1>2, <2>1 DEF AmmTypeOK
      <3>2. Product(Route) \in Nat
        BY <3>1 DEF Product, PoolState
      <3> QED
        BY <3>2 DEF ServerInv, PoolInv
    <2>5. Product(Route)' \in Nat
      <3>1. pool'[Route] \in PoolState
        BY <1>2, <2>1 DEF AmmTypeOK
      <3> QED
        BY <3>1 DEF Product, PoolState
    <2> HIDE DEF Product
    <2> QED
      BY <2>2, <2>3, <2>4, <2>5
  <1>6. \A x \in Mints : minted'[x] <= Supply
    BY <1>1 DEF ServerInv, PoolInv
  <1> QED
    BY <1>3, <1>4, <1>5, <1>6 DEF PoolInv

(* What a request's step does, seen from the next state.                   *)
LEMMA MovedOn ==
  ASSUME ServerInv, [ServerNext]_serverVars
  PROVE  \/ /\ UNCHANGED web /\ signed' = signed
         \/ \E r \in Requests :
              /\ Handle(r) \/ Network(r)
              /\ Moved(r, SlotsRead(Self), signed', now) /\ OffersInv'
  <1>1. AmmTypeOK'
    BY ServerGrows DEF AgentInv, AgentTypes
  <1> QED
    BY <1>1, ServerSteps, RequestMoves

LEMMA RequestsInvNext ==
  ASSUME ServerInv, [ServerNext]_serverVars
  PROVE  RequestsInv' /\ PendingInv' /\ OffersInv'
  <1> DEFINE slots == SlotsRead(Self)
             slots2 == SlotsRead(Self)'
  <1>1. /\ slots \subseteq slots2 /\ signed \subseteq signed'
        /\ now <= now' /\ now \in Nat /\ now' \in Nat
    BY ServerGrows
  <1> HIDE DEF slots, slots2
  <1>2. ASSUME NEW s \in Requests
        PROVE  req[s] \in RequestState /\ Held(req[s], slots2, signed', now')
    BY <1>1, RequestFacts, HeldMore DEF slots
  <1>3. CASE UNCHANGED web
    <2>1. req' = req /\ pending' = pending /\ offers' = offers
      BY <1>3 DEF web
    <2>2. RequestsInv'
      BY <1>2, <2>1 DEF ServerInv, RequestsInv, slots2
    <2> QED
      BY <2>1, <2>2 DEF ServerInv, PendingInv, OffersInv
  <1>4. CASE \E r \in Requests :
               Moved(r, SlotsRead(Self), signed', now) /\ OffersInv'
    <2>1. PICK r \in Requests : Moved(r, slots, signed', now) /\ OffersInv'
      BY <1>4 DEF slots
    <2>2. PICK q \in RequestState :
            /\ req' = [req EXCEPT ![r] = q]
            /\ Held(q, slots, signed', now)
            /\ r \in pending' => q.pc \in {"sent", "unknown"}
            /\ pending' \subseteq pending \cup {r}
      BY <2>1 DEF Moved
    <2>3. /\ req' \in [Requests -> RequestState] /\ req'[r] = q
          /\ \A s \in Requests \ {r} : req'[s] = req[s]
      BY <2>2, OneRequest DEF ServerInv
    <2>4. Held(q, slots2, signed', now')
      BY <1>1, <2>2, HeldMore
    <2>5. \A s \in Requests : Held(req'[s], slots2, signed', now')
      BY <1>2, <2>3, <2>4
    <2>6. RequestsInv'
      BY <2>3, <2>5 DEF RequestsInv, slots2
    <2>7. PendingInv'
      BY <2>2, <2>3 DEF ServerInv, PendingInv
    <2> QED
      BY <2>1, <2>6, <2>7
  <1> QED
    BY <1>3, <1>4, MovedOn

(* A run that is still to be counted is within the limit of one            *)
(* transaction.                                                            *)
LEMMA DueBounded ==
  ASSUME ServerInv, NEW s \in Requests, NEW x
  PROVE  Due(req[s], x) \in 0 .. maxAmountInPerTx
  <1>1. maxAmountInPerTx \in Nat /\ req[s] \in RequestState
    BY RequestFacts, ServerAssumption
  <1>2. CASE req[s].pc \in Uncounted
    <2>1. req[s].action.amount \in 1 .. maxAmountInPerTx
      BY <1>2, RequestFacts
      DEF Held, HasPlanned, HasSigned, Uncounted, WithinLimits
    <2> QED
      BY <1>1, <2>1 DEF Due
  <1>3. CASE req[s].pc \notin Uncounted
    BY <1>1, <1>3 DEF Due
  <1> QED
    BY <1>2, <1>3

LEMMA SpendInvNext ==
  ASSUME ServerInv, [ServerNext]_serverVars
  PROVE  SpendInv'
  <1>1. CASE UNCHANGED web
    <2>1. req' = req /\ spend' = spend
      BY <1>1 DEF web
    <2> QED
      BY <2>1 DEF ServerInv, SpendInv, AllDue, OverrunLimit
  <1>2. CASE \E r \in Requests : Moved(r, SlotsRead(Self), signed', now)
    <2>1. PICK r \in Requests : Moved(r, SlotsRead(Self), signed', now)
      BY <1>2
    <2>2. PICK q \in RequestState :
            /\ req' = [req EXCEPT ![r] = q]
            /\ spend' \in [Mints -> Nat]
            /\ \A x \in Mints : Pays(x, req[r], q)
      BY <2>1 DEF Moved
    <2>3. /\ req' \in [Requests -> RequestState] /\ req'[r] = q
          /\ \A s \in Requests \ {r} : req'[s] = req[s]
      BY <2>2, OneRequest DEF ServerInv
    <2>4. ASSUME NEW x \in Mints
          PROVE  spend'[x] + AllDue(x)' <= OverrunLimit
      <3> DEFINE f == [s \in Requests |-> Due(req[s], x)]
                 g == [s \in Requests |-> Due(req'[s], x)]
                 others == Cardinality(Requests) - 1
      <3>1. /\ \A s \in Requests : f[s] \in Nat
            /\ \A s \in Requests : f[s] \in 0 .. maxAmountInPerTx
            /\ g[r] \in Nat /\ g[r] = Due(q, x) /\ f[r] = Due(req[r], x)
            /\ \A s \in Requests : g[s] \in Nat
            /\ \A s \in Requests \ {r} : g[s] = f[s]
        BY <2>3, DueType, DueBounded, RequestFacts
      <3>2. IsFiniteSet(Requests) /\ Requests # {}
        BY ServerAssumption
      <3>3. /\ AllDue(x) = SumOver(f, Requests)
            /\ AllDue(x)' = SumOver(g, Requests)
        BY DEF AllDue
      <3>4. spend[x] \in Nat /\ spend'[x] \in Nat
        BY <2>2, RequestFacts
      <3>5. spend[x] + SumOver(f, Requests) <= OverrunLimit
        BY <3>3 DEF ServerInv, SpendInv
      <3>6. SumOver(f, Requests) \in Nat /\ SumOver(g, Requests) \in Nat
        BY <3>1, <3>2, SumType
      <3>7. Pays(x, req[r], q)
        BY <2>2
      <3>8. /\ IsFiniteSet(Requests \ {r}) /\ others \in Nat
            /\ Cardinality(Requests \ {r}) = others
        <4>1. /\ IsFiniteSet(Requests \ {r})
              /\ Cardinality(Requests \ {r}) = others
          BY <3>2, FS_RemoveElement
        <4>2. Cardinality(Requests \ {r}) \in Nat
          BY <4>1, FS_CardinalityType
        <4> HIDE DEF others
        <4> QED
          BY <4>1, <4>2
      <3>9. /\ maxAmountInDaily \in Nat /\ maxAmountInPerTx \in Nat
            /\ OverrunLimit = maxAmountInDaily + others * maxAmountInPerTx
            /\ others * maxAmountInPerTx \in Nat
        BY <3>8, ServerAssumption DEF OverrunLimit
      <3> HIDE DEF f, g, others
      <3>10. CASE spend'[x] + g[r] <= spend[x] + f[r]
        <4>1. SumOver(g, Requests) = SumOver(f, Requests) - f[r] + g[r]
          BY <3>1, <3>2, SumUpdate
        <4> QED
          BY <3>1, <3>3, <3>4, <3>5, <3>6, <3>9, <3>10, <4>1
      <3>11. CASE spend'[x] = spend[x] /\ spend[x] + g[r] <= maxAmountInDaily
        <4>1. SumOver(g, Requests \ {r}) = SumOver(g, Requests) - g[r]
          BY <3>1, <3>2, SumRemove
        <4>2. \A s \in Requests \ {r} : g[s] \in 0 .. maxAmountInPerTx
          BY <3>1
        <4>3. SumOver(g, Requests \ {r}) <= maxAmountInPerTx * others
          BY <3>8, <3>9, <4>2, SumBound
        <4>4. maxAmountInPerTx * others = others * maxAmountInPerTx
          BY <3>8, <3>9
        <4> QED
          BY <3>1, <3>3, <3>4, <3>6, <3>9, <3>11, <4>1, <4>3, <4>4
      <3> QED
        BY <3>1, <3>7, <3>10, <3>11 DEF Pays
    <2> QED
      BY <2>2, <2>4 DEF SpendInv, OverrunLimit
  <1> QED
    BY <1>1, <1>2, MovedOn

(* What one request's step adds to the swaps that executed it adds to what *)
(* is counted, is to be counted or is missed.                              *)
Accounts(x, q, q2) ==
  /\ SpentOf(x)' \in Nat
  /\ SpentOf(x)' + spend[x] + Spending(q, x) + missed * maxAmountInPerTx
       <= SpentOf(x) + spend'[x] + Spending(q2, x) + missed' * maxAmountInPerTx

LEMMA CountFacts ==
  ASSUME ServerInv, NEW x \in Mints
  PROVE  /\ missed \in Nat /\ maxAmountInPerTx \in Nat
         /\ missed * maxAmountInPerTx \in Nat
         /\ spend[x] \in Nat /\ SpentOf(x) \in Nat
         /\ \A r \in Requests : /\ Spending(req[r], x) \in Nat
                               /\ Spending(req[r], x) <= maxAmountInPerTx
  <1>1. missed \in Nat /\ maxAmountInPerTx \in Nat /\ spend[x] \in Nat
    BY ServerAssumption DEF ServerInv, CountInv, SpendInv
  <1>2. missed * maxAmountInPerTx \in Nat
    BY <1>1
  <1>3. \A r \in Requests : Due(req[r], x) \in 0 .. maxAmountInPerTx
    BY DueBounded
  <1>4. SpentOf(x) \in Nat
    <2> DEFINE f == [n \in 1 .. Len(spent[Self]) |-> spent[Self][n].amount_in]
               S == {n \in 1 .. Len(spent[Self]) :
                       spent[Self][n].input_mint = x}
    <2>1. spent[Self] \in Seq(Intents)
      <3>1. /\ spent \in [Agents -> Seq(signed)] /\ signed \subseteq Intents
            /\ Self \in Agents
        BY RouteTyped DEF ServerInv, AgentInv, AgentTypes
      <3> QED
        BY <3>1
    <2>2. \A n \in S : f[n] \in Nat
      <3>1. \A n \in 1 .. Len(spent[Self]) : spent[Self][n] \in Intents
        BY <2>1
      <3>2. \A j \in Intents : j.amount_in \in Nat
        BY AgentAssumption DEF Intents
      <3> QED
        BY <3>1, <3>2
    <2>3. IsFiniteSet(S)
      <3>1. Len(spent[Self]) \in Nat
        BY <2>1
      <3>2. IsFiniteSet(1 .. Len(spent[Self]))
        BY <3>1, FS_Interval
      <3> QED
        BY <3>2, FS_Subset
    <2> HIDE DEF f, S
    <2>4. SumOver(f, S) \in Nat
      BY <2>2, <2>3, SumType
    <2> QED
      BY <2>4 DEF SpentOf, f, S
  <1> QED
    BY <1>1, <1>2, <1>3, <1>4 DEF Spending

(* No more waits to be counted than the limit has been looked at for.      *)
LEMMA ToCountIsDue ==
  ASSUME ServerInv, NEW x \in Mints
  PROVE  /\ ToCount(x) <= AllDue(x)
         /\ ToCount(x) \in Nat /\ AllDue(x) \in Nat
  <1> DEFINE f == [r \in Requests |-> Spending(req[r], x)]
             g == [r \in Requests |-> Due(req[r], x)]
  <1>1. \A r \in Requests : f[r] \in Nat /\ g[r] \in Nat /\ f[r] <= g[r]
    BY RequestFacts, DueType DEF Spending
  <1>2. IsFiniteSet(Requests)
    BY ServerAssumption
  <1> HIDE DEF f, g
  <1>3. /\ SumOver(f, Requests) <= SumOver(g, Requests)
        /\ SumOver(f, Requests) \in Nat /\ SumOver(g, Requests) \in Nat
    BY <1>1, <1>2, SumMonotone, SumType
  <1> QED
    BY <1>3 DEF ToCount, AllDue, f, g

(* A swap of the agent's is the last of its swaps.                         *)
LEMMA SpentOfAppend ==
  ASSUME NEW i \in Intents, spent[Self] \in Seq(Intents),
         spent'[Self] = Append(spent[Self], i), NEW x \in Mints
  PROVE  SpentOf(x)' = SpentOf(x) + (IF i.input_mint = x THEN i.amount_in ELSE 0)
  <1> DEFINE s == spent[Self]
             t == Append(s, i)
             N == Len(s)
             f == [n \in 1 .. N |-> s[n].amount_in]
             g == [n \in 1 .. N + 1 |-> t[n].amount_in]
             S == {n \in 1 .. N : s[n].input_mint = x}
             T == {n \in 1 .. N + 1 : t[n].input_mint = x}
  <1>1. /\ N \in Nat /\ Len(t) = N + 1 /\ t[N + 1] = i
        /\ \A n \in 1 .. N : t[n] = s[n] /\ s[n] \in Intents
    OBVIOUS
  <1>2. SpentOf(x) = SumOver(f, S) /\ SpentOf(x)' = SumOver(g, T)
    BY <1>1 DEF SpentOf
  <1>3. /\ i.amount_in \in Nat
        /\ \A n \in 1 .. N : s[n].amount_in \in Nat
    BY <1>1, AgentAssumption DEF Intents
  <1>4. /\ S \subseteq 1 .. N /\ IsFiniteSet(S) /\ N + 1 \notin S
        /\ \A n \in S : f[n] \in Nat /\ g[n] = f[n]
        /\ g[N + 1] = i.amount_in
        /\ T = IF i.input_mint = x THEN S \cup {N + 1} ELSE S
    <2>1. IsFiniteSet(1 .. N)
      BY <1>1, FS_Interval
    <2>2. IsFiniteSet(S) /\ S \subseteq 1 .. N
      BY <2>1, FS_Subset
    <2>3. /\ \A n \in 1 .. N : n \in 1 .. N + 1 /\ n # N + 1
          /\ 1 .. N + 1 = (1 .. N) \cup {N + 1}
      BY <1>1
    <2> HIDE DEF t, N, s
    <2>4. \A n \in S : f[n] \in Nat /\ g[n] = f[n]
      BY <1>1, <1>3, <2>3
    <2>5. g[N + 1] = i.amount_in
      BY <1>1, <2>3
    <2>6. T = IF i.input_mint = x THEN S \cup {N + 1} ELSE S
      BY <1>1, <2>3
    <2> QED
      BY <2>2, <2>3, <2>4, <2>5, <2>6
  <1> HIDE DEF s, t, N, f, g, S, T
  <1>5. SumOver(f, S) \in Nat
    BY <1>4, SumType
  <1>6. CASE i.input_mint = x
    <2> DEFINE z == N + 1
    <2>1. SumOver(g, S \cup {z}) = SumOver(f, S) + g[z]
      <3>1. /\ IsFiniteSet(S) /\ z \notin S /\ g[z] \in Nat
            /\ \A n \in S : f[n] \in Nat
            /\ \A n \in S : g[n] = f[n]
        BY <1>3, <1>4
      <3> HIDE DEF z
      <3> QED
        BY <3>1, SumAdd
    <2> QED
      BY <1>2, <1>4, <1>6, <2>1
  <1>7. CASE i.input_mint # x
    <2>1. SumOver(g, S) = SumOver(f, S)
      BY <1>4, SumEqual
    <2> QED
      BY <1>2, <1>4, <1>5, <1>7, <2>1
  <1> QED
    BY <1>6, <1>7

(* What lands is put down as spent: by its run, if that is still there to  *)
(* count it, or as missed.                                                 *)
LEMMA LandAccounts ==
  ASSUME ServerInv, NEW r \in Requests, Land(r), NEW x \in Mints
  PROVE  missed' \in Nat /\ Accounts(x, req[r], req'[r])
  <1> DEFINE i == RequestedIntent(req[r])
             act == req[r].action
  <1>1. /\ req[r].pc \in {"sent", "unknown"} /\ i \in Intents
        /\ ExecuteSwap(Self, r, i.route, i.input_mint, i.output_mint,
                       i.amount_in, i.min_out, i.expiry)
    BY LandSwaps
  <1>2. /\ spend' = spend
        /\ missed' = IF req[r].kind = "run" /\ req[r].pc = "sent"
                     THEN missed ELSE missed + 1
        /\ req'[r].pc = IF req[r].pc = "sent" THEN "confirmed" ELSE "late"
        /\ req'[r].kind = req[r].kind /\ req'[r].action = act
    BY RequestFacts DEF Land, ServerInv, RequestsInv, RequestState
  <1>3. /\ i.input_mint = InputOf(act) /\ i.amount_in = act.amount
        /\ act.amount \in 1 .. maxAmountInPerTx
    <2>1. WithinLimits(act, now)
      BY <1>1, RequestFacts DEF Held, HasPlanned, HasSigned
    <2> QED
      BY <2>1 DEF RequestedIntent, InputOf, WithinLimits
  <1>4. SpentOf(x)' = SpentOf(x) + (IF i.input_mint = x THEN i.amount_in ELSE 0)
    <2>1. /\ spent \in [Agents -> Seq(signed)] /\ signed \subseteq Intents
          /\ Self \in Agents
      BY RouteTyped DEF ServerInv, AgentInv, AgentTypes
    <2>2. spent[Self] \in Seq(Intents)
      BY <2>1
    <2> HIDE DEF i
    <2> DEFINE j == IntentOf(Self, i.route, i.input_mint, i.output_mint,
                             i.amount_in, i.min_out, i.expiry)
    <2>3. /\ i.route \in Pools /\ r \in Buffers /\ Self \in Agents
          /\ AgentTypes
      BY <1>1, LandSwaps, RouteTyped
      DEF i, Intents, ServerInv, AgentInv
    <2>4. j \in signed /\ spent' = [spent EXCEPT ![Self] = Append(@, j)]
      BY <1>1, <2>3, SwapAuthorised
    <2>5. j.input_mint = i.input_mint /\ j.amount_in = i.amount_in
      BY DEF IntentOf
    <2> HIDE DEF j
    <2>6. spent'[Self] = Append(spent[Self], j) /\ j \in Intents
      BY <2>1, <2>4
    <2> QED
      BY <2>2, <2>5, <2>6, SpentOfAppend
  <1> HIDE DEF i, act
  <1>5. /\ missed \in Nat /\ maxAmountInPerTx \in Nat
        /\ missed * maxAmountInPerTx \in Nat
        /\ spend[x] \in Nat /\ SpentOf(x) \in Nat
    BY CountFacts
  <1>6. missed' \in Nat /\ Spending(req[r], x) = 0
    BY <1>1, <1>2, <1>5 DEF Spending
  <1>7. SpentOf(x)' \in Nat
    BY <1>3, <1>4, <1>5
  <1>8. CASE req[r].kind = "run" /\ req[r].pc = "sent"
    <2>1. Spending(req'[r], x) = IF InputOf(act) = x THEN act.amount ELSE 0
      BY <1>2, <1>8 DEF Spending, Due, Uncounted
    <2> QED
      BY <1>2, <1>3, <1>4, <1>5, <1>6, <1>7, <1>8, <2>1 DEF Accounts
  <1>9. CASE ~(req[r].kind = "run" /\ req[r].pc = "sent")
    <2>1. Spending(req'[r], x) = 0
      BY <1>2, <1>9 DEF Spending, Due
    <2>2. missed' * maxAmountInPerTx
            = missed * maxAmountInPerTx + maxAmountInPerTx
      BY <1>2, <1>5, <1>9
    <2> QED
      BY <1>2, <1>3, <1>4, <1>5, <1>6, <1>7, <2>1, <2>2 DEF Accounts
  <1> QED
    BY <1>6, <1>8, <1>9

LEMMA FinishAccounts ==
  ASSUME ServerInv, NEW r \in Requests, Finish(r) \/ RequestFails(r),
         NEW x \in Mints
  PROVE  missed' \in Nat /\ Accounts(x, req[r], req'[r])
  <1>1. /\ missed \in Nat /\ maxAmountInPerTx \in Nat
        /\ missed * maxAmountInPerTx \in Nat
        /\ spend[x] \in Nat /\ SpentOf(x) \in Nat
        /\ Spending(req[r], x) \in Nat
        /\ Spending(req[r], x) <= maxAmountInPerTx
    BY CountFacts
  <1>2. /\ spent' = spent /\ req[r] \in RequestState
        /\ req \in [Requests -> RequestState]
    BY RequestFacts DEF Finish, RequestFails, vars, keyVars, ServerInv,
                        RequestsInv
  <1>3. SpentOf(x)' = SpentOf(x)
    BY <1>2 DEF SpentOf
  <1>4. Spending(req'[r], x) = 0
    <2>1. req'[r].pc # "confirmed"
      BY <1>2 DEF Finish, RequestFails, Abandon, Blank, RequestState
    <2> QED
      BY <2>1 DEF Spending
  <1>5. CASE Finish(r)
    <2>1. /\ req[r].pc = "confirmed" /\ missed' = missed
          /\ spend' = IF req[r].kind = "run"
                      THEN [spend EXCEPT ![InputOf(req[r].action)]
                              = @ + req[r].action.amount]
                      ELSE spend
      BY <1>5 DEF Finish
    <2>2. spend \in [Mints -> Nat]
      BY RequestFacts
    <2>3. Spending(req[r], x)
            = IF req[r].kind = "run" /\ InputOf(req[r].action) = x
              THEN req[r].action.amount ELSE 0
      BY <2>1 DEF Spending, Due, Uncounted
    <2>4. spend'[x] = spend[x] + Spending(req[r], x)
      BY <1>1, <2>1, <2>2, <2>3
    <2> QED
      BY <1>1, <1>3, <1>4, <2>1, <2>4 DEF Accounts
  <1>6. CASE RequestFails(r)
    <2>1. /\ spend' = spend
          /\ missed' = IF req[r].kind = "run" /\ req[r].pc = "confirmed"
                       THEN missed + 1 ELSE missed
      BY <1>6 DEF RequestFails
    <2>2. CASE req[r].kind = "run" /\ req[r].pc = "confirmed"
      <3>1. missed' * maxAmountInPerTx
              = missed * maxAmountInPerTx + maxAmountInPerTx
        BY <1>1, <2>1, <2>2
      <3> QED
        BY <1>1, <1>3, <1>4, <2>1, <3>1 DEF Accounts
    <2>3. CASE ~(req[r].kind = "run" /\ req[r].pc = "confirmed")
      <3>1. Spending(req[r], x) = 0 /\ missed' = missed
        BY <2>1, <2>3 DEF Spending, Due
      <3> QED
        BY <1>1, <1>3, <1>4, <2>1, <3>1 DEF Accounts
    <2> QED
      BY <2>2, <2>3
  <1> QED
    BY <1>5, <1>6

(* Nothing else a request does has to do with what is spent.               *)
LEMMA OtherAccounts ==
  ASSUME ServerInv, NEW r \in Requests, Handle(r) \/ Network(r),
         ~Land(r), ~Finish(r), ~RequestFails(r), NEW x \in Mints,
         NEW q \in RequestState
  PROVE  missed' \in Nat /\ Accounts(x, req[r], q)
  <1>1. /\ req[r].pc # "confirmed" /\ spend' = spend /\ missed' = missed
        /\ spent' = spent
    <2>1. CASE Drop(r)
      BY <2>1, RequestFacts DEF Drop, vars, keyVars
    <2>2. CASE SignRequest(r) \/ StageSignature(r)
      BY <2>2 DEF SignRequest, StageSignature, keyVars
    <2>3. CASE \/ QuoteFirst(r) \/ QuoteSecond(r) \/ ReadState(r)
               \/ ReadBefore(r) \/ Send(r) \/ GiveUp(r) \/ Answer(r)
      BY <2>3 DEF QuoteFirst, QuoteSecond, ReadState, ReadBefore, Send,
                  GiveUp, Answer, vars, keyVars
    <2>4. ASSUME NEW kind, NEW a_to_b, NEW d, StartPlan(r, kind, a_to_b, d)
          PROVE  /\ req[r].pc # "confirmed" /\ spend' = spend
                 /\ missed' = missed /\ spent' = spent
      BY <2>4 DEF StartPlan, vars, keyVars
    <2>5. ASSUME NEW offer, StartExecute(r, offer)
          PROVE  /\ req[r].pc # "confirmed" /\ spend' = spend
                 /\ missed' = missed /\ spent' = spent
      BY <2>5 DEF StartExecute, vars, keyVars
    <2> QED
      BY <2>1, <2>2, <2>3, <2>4, <2>5 DEF Handle, Network
  <1>2. SpentOf(x)' = SpentOf(x) /\ Spending(req[r], x) = 0
    BY <1>1 DEF SpentOf, Spending
  <1>3. /\ missed \in Nat /\ missed * maxAmountInPerTx \in Nat
        /\ spend[x] \in Nat /\ SpentOf(x) \in Nat
    BY CountFacts
  <1>4. Spending(q, x) \in Nat
    BY DueType DEF Spending
  <1> QED
    BY <1>1, <1>2, <1>3, <1>4 DEF Accounts

LEMMA CountInvNext ==
  ASSUME ServerInv, [ServerNext]_serverVars
  PROVE  CountInv'
  <1>1. CASE UNCHANGED web /\ spent' = spent
    <2>1. req' = req /\ spend' = spend /\ missed' = missed
      BY <1>1 DEF web
    <2> QED
      BY <1>1, <2>1 DEF ServerInv, CountInv, ToCount, SpentOf
  <1>2. ASSUME NEW r \in Requests, Handle(r) \/ Network(r)
        PROVE  CountInv'
    <2>1. AmmTypeOK'
      BY ServerGrows DEF AgentInv, AgentTypes
    <2>2. PICK q \in RequestState :
            req' = [req EXCEPT ![r] = q] /\ spend' \in [Mints -> Nat]
      BY <1>2, <2>1, RequestMoves DEF Moved
    <2>3. /\ req' \in [Requests -> RequestState] /\ req'[r] = q
          /\ \A s \in Requests \ {r} : req'[s] = req[s]
      BY <2>2, OneRequest DEF ServerInv
    <2>4. ASSUME NEW x \in Mints
          PROVE  /\ missed' \in Nat
                 /\ SpentOf(x)' <= spend'[x] + ToCount(x)'
                                     + missed' * maxAmountInPerTx
      <3>1. missed' \in Nat /\ Accounts(x, req[r], q)
        BY <1>2, <2>3, LandAccounts, FinishAccounts, OtherAccounts
      <3> DEFINE f == [s \in Requests |-> Spending(req[s], x)]
                 g == [s \in Requests |-> Spending(req'[s], x)]
      <3>2. /\ missed * maxAmountInPerTx \in Nat /\ spend[x] \in Nat
            /\ SpentOf(x) \in Nat /\ maxAmountInPerTx \in Nat
            /\ \A s \in Requests : f[s] \in Nat
        BY CountFacts
      <3>3. /\ \A s \in Requests \ {r} : g[s] = f[s]
            /\ g[r] = Spending(q, x) /\ f[r] = Spending(req[r], x)
            /\ g[r] \in Nat
        BY <2>3, DueType DEF Spending
      <3>4. /\ ToCount(x) = SumOver(f, Requests)
            /\ ToCount(x)' = SumOver(g, Requests)
        BY DEF ToCount
      <3>5. SpentOf(x) <= spend[x] + ToCount(x) + missed * maxAmountInPerTx
        BY DEF ServerInv, CountInv
      <3>6. spend'[x] \in Nat /\ missed' * maxAmountInPerTx \in Nat
        <4>1. spend'[x] \in Nat
          BY <2>2
        <4> DEFINE n == missed'
        <4>2. n \in Nat /\ maxAmountInPerTx \in Nat
          BY <3>1, <3>2
        <4> HIDE DEF n
        <4>3. n * maxAmountInPerTx \in Nat
          BY <4>2
        <4> QED
          BY <4>1, <4>3 DEF n
      <3>7. SpentOf(x)' \in Nat
        BY <3>1 DEF Accounts
      <3>8. IsFiniteSet(Requests)
        BY ServerAssumption
      <3> HIDE DEF f, g
      <3>9. /\ SumOver(g, Requests) = SumOver(f, Requests) - f[r] + g[r]
            /\ SumOver(f, Requests) \in Nat
        BY <3>2, <3>3, <3>8, SumUpdate, SumType
      <3> DEFINE m == missed * maxAmountInPerTx
                 m2 == missed' * maxAmountInPerTx
      <3>10. SpentOf(x)' + spend[x] + f[r] + m
               <= SpentOf(x) + spend'[x] + g[r] + m2
        BY <3>1, <3>3 DEF Accounts
      <3> HIDE DEF m, m2
      <3> QED
        BY <3>1, <3>2, <3>3, <3>4, <3>5, <3>6, <3>7, <3>9, <3>10 DEF m, m2
    <2>5. Mints # {}
      BY RouteTyped
    <2> QED
      BY <2>4, <2>5 DEF CountInv
  <1>3. (UNCHANGED web /\ spent' = spent)
          \/ \E r \in Requests : Handle(r) \/ Network(r)
    BY DEF ServerNext, Market, Swap, Tick, serverVars, vars, keyVars
  <1> QED
    BY <1>1, <1>2, <1>3

LEMMA SignedLimitsNext ==
  ASSUME ServerInv, [ServerNext]_serverVars
  PROVE  SignedWithinLimits'
  <1>1. /\ signed' \subseteq Intents /\ now <= now' /\ now \in Nat
        /\ now' \in Nat /\ maxExpirySeconds \in Nat /\ Expiries \subseteq Nat
    BY ServerGrows, ServerAssumption, AgentAssumption DEF AgentInv, AgentTypes
  <1>2. ASSUME NEW i \in signed'
        PROVE  /\ i.amount_in \in 1 .. maxAmountInPerTx
               /\ i.expiry <= now' + maxExpirySeconds
    <2>1. i.expiry \in Nat
      BY <1>1 DEF Intents
    <2>2. CASE i \in signed
      BY <1>1, <2>1, <2>2 DEF ServerInv, SignedWithinLimits
    <2>3. CASE i \notin signed
      <3>1. \E r \in Requests : /\ i = RequestedIntent(req[r])
                                /\ WithinLimits(req[r].action, now)
        BY <2>3, ServerSteps, RequestSteps
      <3>2. /\ i.amount_in \in 1 .. maxAmountInPerTx
            /\ i.expiry <= now + maxExpirySeconds
        BY <3>1 DEF RequestedIntent, WithinLimits
      <3> QED
        BY <1>1, <2>1, <3>2
    <2> QED
      BY <2>2, <2>3
  <1> QED
    BY <1>2 DEF SignedWithinLimits

LEMMA ServerInvNext == ServerInv /\ [ServerNext]_serverVars => ServerInv'
  <1> SUFFICES ASSUME ServerInv, [ServerNext]_serverVars PROVE ServerInv'
    OBVIOUS
  <1>1. AgentInv' /\ PoolInv'
    BY ServerGrows, PoolInvNext
  <1>2. RequestsInv' /\ PendingInv' /\ OffersInv'
    BY RequestsInvNext
  <1>3. SpendInv' /\ CountInv' /\ SignedWithinLimits'
    BY SpendInvNext, CountInvNext, SignedLimitsNext
  <1> QED
    BY <1>1, <1>2, <1>3 DEF ServerInv
-----------------------------------------------------------------------------
(* It holds when the backend starts.                                       *)

LEMMA StartTypes == ServerInit => AgentInv
  <1> SUFFICES ASSUME ServerInit PROVE AgentInv
    OBVIOUS
  <1>1. /\ {AgentFunds, Float} \subseteq Nat /\ Liquidity \in Nat
        /\ Cardinality(Holders \ Agents) \in Nat
    BY ServerAssumption, FS_Difference, FS_CardinalityType, CpSwapAssumption
  <1>2. pool \in [Pools -> PoolState]
    BY <1>1 DEF ServerInit, PoolState
  <1>3. balance \in [Holders -> [Mints -> Nat]]
    BY <1>1 DEF ServerInit
  <1>4. minted \in [Mints -> Nat]
    <2> DEFINE m == [x \in Mints |->
                 (IF x \in {Route[1], Route[2]} THEN Liquidity ELSE 0)
                   + AgentFunds + Float * Cardinality(Holders \ Agents)]
    <2>1. minted = m
      BY DEF ServerInit
    <2>2. Float * Cardinality(Holders \ Agents) \in Nat
      BY <1>1
    <2>3. m \in [Mints -> Nat]
      BY <1>1, <2>2
    <2> QED
      BY <2>1, <2>3
  <1>5. agent \in [Agents -> AgentState]
    <2>1. \A a \in Agents : (a = Self) \in BOOLEAN
      OBVIOUS
    <2> QED
      BY <2>1, CreatedCounts DEF ServerInit
  <1>6. buffer \in [Buffers -> [Chunks -> Pieces(signed)]]
    BY DEF ServerInit, BufferInit, Pieces
  <1>7. spent \in [Agents -> Seq(signed)]
    BY DEF ServerInit
  <1>8. ASSUME NEW a \in Agents PROVE Counts(a)
    BY AgentAssumption DEF ServerInit, Counts, Created
  <1>9. now \in 0 .. MaxTime /\ signed \subseteq Intents
    BY AgentAssumption DEF ServerInit
  <1> QED
    BY <1>2, <1>3, <1>4, <1>5, <1>6, <1>7, <1>8, <1>9
    DEF AgentInv, AgentTypes, AmmTypeOK

(* What bootstrap mints is what the accounts and the pool then hold.       *)
LEMMA StartConserves == ServerInit => TokensConserved
  <1> SUFFICES ASSUME ServerInit, NEW x \in Mints
               PROVE  SumOver(HeldBy(x), Holders)
                        + SumOver(InVaults(x), Pools) = minted[x]
    BY DEF TokensConserved, HeldBy, InVaults
  <1> DEFINE others == Holders \ Agents
             inPool == IF x \in {Route[1], Route[2]} THEN Liquidity ELSE 0
  <1>1. /\ AgentFunds \in Nat /\ Float \in Nat /\ inPool \in Nat
        /\ IsFiniteSet(others) /\ Cardinality(others) \in Nat
        /\ Self \in Holders /\ Self \notin others /\ Route \in Pools
        /\ Route[1] # Route[2]
    <2>1. AgentFunds \in Nat /\ Float \in Nat /\ inPool \in Nat
      BY ServerAssumption
    <2>2. IsFiniteSet(others)
      BY FS_Difference, CpSwapAssumption
    <2>3. Cardinality(others) \in Nat
      BY <2>2, FS_CardinalityType
    <2> QED
      BY <2>1, <2>2, <2>3, RouteTyped
  <1>2. /\ \A h \in others : HeldBy(x)[h] = Float
        /\ HeldBy(x)[Self] = AgentFunds
        /\ \A h \in Holders \ (others \cup {Self}) : HeldBy(x)[h] = 0
    BY <1>1 DEF ServerInit, HeldBy
  <1>3. SumOver(HeldBy(x), others) = Float * Cardinality(others)
    <2>1. \A h \in others : HeldBy(x)[h] \in 0 .. Float
      BY <1>1, <1>2
    <2> QED
      BY <1>1, <1>2, <2>1, SumBound
  <1>4. SumOver(HeldBy(x), others \cup {Self})
          = SumOver(HeldBy(x), others) + AgentFunds
    <2> DEFINE f == HeldBy(x)
    <2>1. /\ \A h \in others : f[h] \in Nat /\ f[h] = f[h]
          /\ f[Self] \in Nat /\ f[Self] = AgentFunds
      BY <1>1, <1>2
    <2> HIDE DEF f, others
    <2>2. SumOver(f, others \cup {Self}) = SumOver(f, others) + f[Self]
      BY <1>1, <2>1, SumAdd
    <2> QED
      BY <2>1, <2>2 DEF f
  <1>5. SumOver(HeldBy(x), Holders) = SumOver(HeldBy(x), others \cup {Self})
    BY <1>1, <1>2, SumSupport
  <1>6. /\ InVaults(x)[Route] = inPool
        /\ \A p \in Pools \ {Route} : InVaults(x)[p] = 0
    BY <1>1 DEF ServerInit, InVaults, VaultOf
  <1>7. SumOver(InVaults(x), {Route}) = inPool
    <2>1. SumOver(InVaults(x), {}) = 0 /\ IsFiniteSet({})
      BY SumEmpty, FS_EmptySet
    <2>2. SumOver(InVaults(x), {} \cup {Route})
            = SumOver(InVaults(x), {}) + InVaults(x)[Route]
      <3> DEFINE f == InVaults(x)
                 none == {}
      <3>1. /\ \A p \in none : f[p] \in Nat /\ f[p] = f[p]
            /\ f[Route] \in Nat /\ IsFiniteSet(none) /\ Route \notin none
        BY <1>1, <1>6, <2>1
      <3> HIDE DEF f, none
      <3>2. SumOver(f, none \cup {Route}) = SumOver(f, none) + f[Route]
        BY <3>1, SumAdd
      <3> QED
        BY <3>2 DEF f, none
    <2> QED
      BY <1>1, <1>6, <2>1, <2>2
  <1>8. SumOver(InVaults(x), Pools) = inPool
    BY <1>1, <1>6, <1>7, SumSupport
  <1>9. minted[x] = inPool + AgentFunds + Float * Cardinality(others)
    BY DEF ServerInit
  <1>10. Float * Cardinality(others) \in Nat
    BY <1>1
  <1> HIDE DEF others, inPool
  <1> QED
    BY <1>1, <1>3, <1>4, <1>5, <1>8, <1>9, <1>10

LEMMA StartPool == ServerInit => PoolInv
  <1> SUFFICES ASSUME ServerInit PROVE PoolInv
    OBVIOUS
  <1>1. Liquidity \in Nat /\ Liquidity > 0 /\ Self \in Agents /\ Route \in Pools
    BY ServerAssumption
  <1>2. agent[Self].live
    BY <1>1 DEF ServerInit, Created
  <1>3. Product(Route) > 0
    <2>1. pool[Route].vault_a = Liquidity /\ pool[Route].vault_b = Liquidity
      BY <1>1 DEF ServerInit
    <2>2. Liquidity * Liquidity > 0
      BY <1>1
    <2> QED
      BY <2>1, <2>2 DEF Product
  <1>4. ASSUME NEW x \in Mints PROVE minted[x] <= Supply
    <2> DEFINE float == Float * Cardinality(Holders \ Agents)
               inPool == IF x \in {Route[1], Route[2]} THEN Liquidity ELSE 0
    <2>1. float \in Nat /\ AgentFunds \in Nat
      <3>1. Cardinality(Holders \ Agents) \in Nat
        BY FS_Difference, FS_CardinalityType, CpSwapAssumption
      <3> QED
        BY <3>1, ServerAssumption
    <2>2. minted[x] = inPool + AgentFunds + float
      BY DEF ServerInit
    <2>3. Supply = Liquidity + AgentFunds + float
      BY DEF Supply
    <2>4. inPool \in Nat /\ inPool <= Liquidity
      BY <1>1
    <2> HIDE DEF float, inPool
    <2> QED
      BY <1>1, <2>1, <2>2, <2>3, <2>4
  <1> QED
    BY <1>2, <1>3, <1>4, StartConserves DEF PoolInv

LEMMA StartSpend == ServerInit => SpendInv
  <1> SUFFICES ASSUME ServerInit PROVE SpendInv
    OBVIOUS
  <1>1. spend = [x \in Mints |-> 0] /\ \A r \in Requests : req[r] = Blank
    BY DEF ServerInit
  <1>2. ASSUME NEW x \in Mints PROVE AllDue(x) = 0
    <2> DEFINE f == [r \in Requests |-> Due(req[r], x)]
    <2>1. \A r \in Requests : f[r] = 0
      BY <1>1 DEF Due, Blank, Uncounted
    <2>2. SumOver(f, Requests) = SumOver(f, {})
      BY <2>1, SumSupport
    <2>3. SumOver(f, {}) = 0
      BY SumEmpty
    <2> QED
      BY <2>2, <2>3 DEF AllDue
  <1>3. 0 <= OverrunLimit /\ OverrunLimit \in Nat
    <2> DEFINE others == Cardinality(Requests) - 1
    <2>1. others \in Nat
      <3>1. Cardinality(Requests) \in Nat /\ Cardinality(Requests) # 0
        BY ServerAssumption, FS_CardinalityType, FS_EmptySet
      <3> QED
        BY <3>1
    <2>2. maxAmountInDaily \in Nat /\ maxAmountInPerTx \in Nat
      BY ServerAssumption
    <2>3. OverrunLimit = maxAmountInDaily + others * maxAmountInPerTx
      BY DEF OverrunLimit
    <2> HIDE DEF others
    <2>4. others * maxAmountInPerTx \in Nat
      BY <2>1, <2>2
    <2> QED
      BY <2>2, <2>3, <2>4
  <1> QED
    BY <1>1, <1>2, <1>3 DEF SpendInv

LEMMA StartCount == ServerInit => CountInv
  <1> SUFFICES ASSUME ServerInit PROVE CountInv
    OBVIOUS
  <1>1. /\ spend = [x \in Mints |-> 0] /\ missed = 0
        /\ \A r \in Requests : req[r].pc = "idle"
        /\ spent[Self] = << >>
    BY RouteTyped DEF ServerInit, Blank
  <1>2. ASSUME NEW x \in Mints PROVE SpentOf(x) = 0 /\ ToCount(x) = 0
    <2> DEFINE S == {n \in 1 .. Len(spent[Self]) :
                       spent[Self][n].input_mint = x}
               f == [r \in Requests |-> Spending(req[r], x)]
    <2>1. S = {}
      BY <1>1
    <2>2. SpentOf(x) = 0
      BY <2>1, SumEmpty DEF SpentOf
    <2>3. \A r \in Requests : f[r] = 0
      BY <1>1 DEF Spending
    <2>4. SumOver(f, Requests) = SumOver(f, {})
      BY <2>3, SumSupport
    <2> QED
      BY <2>2, <2>4, SumEmpty DEF ToCount
  <1>3. maxAmountInPerTx \in Nat
    BY ServerAssumption
  <1> QED
    BY <1>1, <1>2, <1>3 DEF CountInv

LEMMA ServerInvInit == ServerInit => ServerInv
  <1> SUFFICES ASSUME ServerInit PROVE ServerInv
    OBVIOUS
  <1>1. RequestsInv
    <2> DEFINE b == [Blank EXCEPT !.pc = "idle"]
    <2>1. b \in RequestState /\ b.pc = "idle" /\ b.intent = NoIntent
      BY BlankTyped
    <2>2. req = [r \in Requests |-> b]
      BY DEF ServerInit, Blank
    <2> HIDE DEF b
    <2> QED
      BY <2>1, <2>2 DEF RequestsInv, Held, HasPlanned, HasSigned
  <1>2. PendingInv /\ OffersInv /\ SignedWithinLimits
    BY DEF ServerInit, PendingInv, OffersInv, SignedWithinLimits
  <1> QED
    BY <1>1, <1>2, StartTypes, StartPool, StartSpend, StartCount
    DEF ServerInv

LEMMA ServerInvHolds == ServerSpec => []ServerInv
  BY ServerInvInit, ServerInvNext, PTL DEF ServerSpec
-----------------------------------------------------------------------------
(* Everything the handlers hold is of its type: an intent they go on with  *)
(* was signed, and a transaction under way has a request that sent it      *)
(* (server.ts, pipeline.ts).                                               *)
THEOREM SwapServerTypeCorrect == ServerSpec => []ServerTypeOK
  <1>1. ServerInv => ServerTypeOK
    <2> SUFFICES ASSUME ServerInv PROVE ServerTypeOK
      OBVIOUS
    <2>1. AgentTypeOK
      BY AgentInvTypes DEF ServerInv
    <2>2. ASSUME NEW r \in Requests
          PROVE  /\ r \in pending => req[r].pc \in {"sent", "unknown"}
                 /\ req[r].intent \in signed \cup {NoIntent}
                 /\ req[r].quote \in Nat /\ req[r].paid \in Nat
                 /\ req[r].received \in Int
      BY RequestFacts DEF Held, RequestState
    <2>3. \A o \in offers : o.action.min_out \in Nat
      BY DEF ServerInv, OffersInv, Actions
    <2> QED
      BY <2>1, <2>2, <2>3 DEF ServerTypeOK, ServerInv, PendingInv, SpendInv
  <1> QED
    BY <1>1, ServerInvHolds, PTL

(* Whatever the handlers, the network and the traders do, the chain and    *)
(* the signer take only the agent's steps: no handler asks for a signature *)
(* at a slot the agent has not been at, and nothing but the staged         *)
(* signature is submitted (handleExecute, runSwap).                        *)
THEOREM ServerTakesAgentSteps == ServerSpec => AgentSteps
  <1>1. ServerInv /\ [ServerNext]_serverVars => [UNCHANGED vars \/ Next]_vars
    BY ServerSteps
  <1> QED
    BY <1>1, ServerInvHolds, PTL DEF ServerSpec, AgentSteps

(* Every swap the signer has put its name to is within the policy's limit  *)
(* of one transaction and expires no later than it allows (checkSwap).     *)
THEOREM SignedAsThePolicyAllows == ServerSpec => []SignedWithinLimits
  <1>1. ServerInv => SignedWithinLimits
    BY DEF ServerInv
  <1> QED
    BY <1>1, ServerInvHolds, PTL

(* A swap that executed paid what its quote promised less the slippage,    *)
(* though the quote's two reserves were read apart and the pool has moved  *)
(* since (planSwap, execute_swap).                                         *)
THEOREM FilledAsItWasPlanned == ServerSpec => []FilledWithinSlippage
  <1>1. ServerInv => FilledWithinSlippage
    BY DEF ServerInv, RequestsInv, Held, Filled, FilledWithinSlippage
  <1> QED
    BY <1>1, ServerInvHolds, PTL

(* What the agent has spent of a token exceeds the daily limit by no more  *)
(* than one transaction's limit for every request but one, checked against *)
(* the same count, and for every swap that executed without being counted  *)
(* (runSwap, SpendTracker, handleExecute).                                 *)
THEOREM SpendingIsBounded == ServerSpec => []SpendingBounded
  <1>1. ServerInv => SpendingBounded
    <2> SUFFICES ASSUME ServerInv, NEW x \in Mints
                 PROVE  SpentOf(x) <= maxAmountInDaily
                          + (Cardinality(Requests) - 1 + missed)
                              * maxAmountInPerTx
      BY DEF SpendingBounded
    <2> DEFINE others == Cardinality(Requests) - 1
    <2>1. spend[x] + AllDue(x) <= maxAmountInDaily + others * maxAmountInPerTx
      BY DEF ServerInv, SpendInv, OverrunLimit
    <2>2. SpentOf(x) <= spend[x] + ToCount(x) + missed * maxAmountInPerTx
      BY DEF ServerInv, CountInv
    <2>3. /\ missed \in Nat /\ missed * maxAmountInPerTx \in Nat
          /\ maxAmountInPerTx \in Nat /\ maxAmountInDaily \in Nat
          /\ spend[x] \in Nat /\ SpentOf(x) \in Nat
      BY CountFacts, ServerAssumption
    <2>4. /\ ToCount(x) <= AllDue(x)
          /\ ToCount(x) \in Nat /\ AllDue(x) \in Nat
      BY ToCountIsDue
    <2>5. others \in Int
      <3>1. Cardinality(Requests) \in Nat
        BY ServerAssumption, FS_CardinalityType
      <3> QED
        BY <3>1
    <2> HIDE DEF others
    <2>6. /\ (others + missed) * maxAmountInPerTx
               = others * maxAmountInPerTx + missed * maxAmountInPerTx
          /\ others * maxAmountInPerTx \in Int
      BY <2>3, <2>5
    <2>7. SpentOf(x) <= maxAmountInDaily + (others + missed) * maxAmountInPerTx
      BY <2>1, <2>2, <2>3, <2>4, <2>6
    <2> QED
      BY <2>7 DEF others
  <1> QED
    BY <1>1, ServerInvHolds, PTL

(* Behind the backend the agent and its pool keep what they promise: no    *)
(* token is created or lost, and no round trip through the pool gains.     *)
THEOREM SwapServerKeepsTokens ==
  ServerSpec => [](TokensConserved /\ RoundTripNeverGains)
  <1>1. ServerInv => TokensConserved /\ RoundTripNeverGains
    BY RoundTripsAt DEF ServerInv, PoolInv, AgentInv, AgentTypes
  <1> QED
    BY <1>1, ServerInvHolds, PTL

LEMMA ServerStepInAgent ==
  ServerInv /\ [ServerNext]_serverVars => [Next]_vars /\ AgentInv
  BY ServerSteps DEF ServerInv

(* Nor do the handlers, however they interleave, move the agent's tokens   *)
(* but as it signed, lower a pool's product, or have more executed than    *)
(* the key can bear: the swaps are the ledger of a many-time key           *)
(* (execute_swap, swap).                                                   *)
THEOREM SwapServerKeepsAgent ==
  ServerSpec => SwapsAsSigned /\ ProductNeverFalls /\ ImplementsLedger
  <1>1. ServerInv /\ [ServerNext]_serverVars
          => [AgentTokensMoveAsSigned]_balance
    BY ServerStepInAgent, StepSwapsAsSigned
  <1>2. ServerInv /\ [ServerNext]_serverVars => [ProductHolds]_pool
    BY ServerStepInAgent, ProductBeside
  <1>3. ServerInv /\ [ServerNext]_serverVars => [Ledger!Next]_<<signed, spent>>
    BY ServerStepInAgent, NextRefines
  <1>4. ServerInit => Ledger!Init
    BY DEF ServerInit, Ledger!Init
  <1> QED
    BY <1>1, <1>2, <1>3, <1>4, ServerInvHolds, PTL
    DEF ServerSpec, SwapsAsSigned, ProductNeverFalls, ImplementsLedger,
        Ledger!Spec
=============================================================================
