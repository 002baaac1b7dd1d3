------------------------------- MODULE CpSwap -------------------------------
(***************************************************************************)
(* The constant-product market maker (programs/cpswap/src/lib.rs) that the *)
(* agent's swaps are routed through: a pool holds two vaults and swaps one *)
(* token for the other at the ratio of its reserves, less a fee.           *)
(***************************************************************************)
EXTENDS Integers, FiniteSets, FiniteSums

CONSTANTS
  Mints,      \* tokens
  Pools,      \* pools, by the pair of their mints
  Holders,    \* owners of token accounts, one account per token
  Deposits,   \* amounts minted to a holder and added to a pool
  Trades,     \* amounts holders swap
  MaxMinted   \* bound: units of each token minted

ASSUME CpSwapAssumption ==
  /\ IsFiniteSet(Holders) /\ IsFiniteSet(Pools)
  /\ Pools \subseteq {q \in Mints \X Mints : q[1] # q[2]}
  /\ Deposits \subseteq Nat /\ Trades \subseteq Nat
  /\ MaxMinted \in Nat

VARIABLES
  pool,      \* [Pools -> Pool account and the balances of its vaults]
  balance,   \* [Holders -> [Mints -> balance of the token account]]
  minted     \* history: units of each token minted

ammVars == <<pool, balance, minted>>

FeeBps == 30
BpsDenominator == 10000

PoolState == [live : BOOLEAN, vault_a : Nat, vault_b : Nat]

AmmTypeOK ==
  /\ pool \in [Pools -> PoolState]
  /\ balance \in [Holders -> [Mints -> Nat]]
  /\ minted \in [Mints -> Nat]

AmmInit ==
  /\ pool = [p \in Pools |-> [live |-> FALSE, vault_a |-> 0, vault_b |-> 0]]
  /\ balance = [h \in Holders |-> [x \in Mints |-> 0]]
  /\ minted = [x \in Mints |-> 0]
-----------------------------------------------------------------------------
(* An account credited, or debited by a negative amount; a pool's vaults   *)
(* likewise.                                                               *)
Credit(b, h, x, amount) == [b EXCEPT ![h][x] = @ + amount]

CreditVaults(p, a, b) ==
  [pool EXCEPT ![p] =
     [pool[p] EXCEPT !.vault_a = @ + a, !.vault_b = @ + b]]

MintTo(h, x, amount) ==
  /\ minted[x] + amount <= MaxMinted
  /\ balance' = Credit(balance, h, x, amount)
  /\ minted' = [minted EXCEPT ![x] = @ + amount]
  /\ UNCHANGED pool

InitPool(p) ==
  /\ ~pool[p].live
  /\ pool' = [pool EXCEPT ![p].live = TRUE]
  /\ UNCHANGED <<balance, minted>>

AddLiquidity(h, p, amount_a, amount_b) ==
  /\ pool[p].live
  /\ amount_a <= balance[h][p[1]] /\ amount_b <= balance[h][p[2]]
  /\ pool' = CreditVaults(p, amount_a, amount_b)
  /\ balance' = Credit(Credit(balance, h, p[1], -amount_a),
                       h, p[2], -amount_b)
  /\ UNCHANGED minted

AfterFee(amount_in) ==
  (amount_in * (BpsDenominator - FeeBps)) \div BpsDenominator

(* Fault: the output is priced before the input is added to the reserve.   *)
AmountAtSpot(reserve_in, reserve_out, amount_in) ==
  (reserve_out * AfterFee(amount_in)) \div reserve_in

(* Fault: the output is rounded up.                                        *)
AmountRoundedUp(reserve_in, reserve_out, amount_in) ==
  (reserve_out * amount_in + reserve_in + amount_in - 1)
    \div (reserve_in + amount_in)

AmountOut(reserve_in, reserve_out, amount_in) ==
  (reserve_out * AfterFee(amount_in)) \div (reserve_in + AfterFee(amount_in))

InOf(p, a_to_b) == IF a_to_b THEN p[1] ELSE p[2]
OutOf(p, a_to_b) == IF a_to_b THEN p[2] ELSE p[1]

ReserveIn(p, a_to_b) == IF a_to_b THEN pool[p].vault_a ELSE pool[p].vault_b
ReserveOut(p, a_to_b) == IF a_to_b THEN pool[p].vault_b ELSE pool[p].vault_a

Out(p, a_to_b, amount_in) ==
  AmountOut(ReserveIn(p, a_to_b), ReserveOut(p, a_to_b), amount_in)

(* Fault: the pool takes in what it priced, the amount less the fee.       *)
TakeInNet(p, a_to_b, amount_in, out) ==
  IF a_to_b
  THEN CreditVaults(p, AfterFee(amount_in), -out)
  ELSE CreditVaults(p, -out, AfterFee(amount_in))

(* The two transfers, as the vaults see them.                              *)
TakeIn(p, a_to_b, amount_in, out) ==
  IF a_to_b
  THEN CreditVaults(p, amount_in, -out)
  ELSE CreditVaults(p, -out, amount_in)

(* A swap out of and into the token accounts of one holder.                *)
Swap(h, p, amount_in, min_out, a_to_b) ==
  LET out == Out(p, a_to_b, amount_in)
  IN
  /\ pool[p].live
  /\ ReserveIn(p, a_to_b) > 0 /\ ReserveOut(p, a_to_b) > 0
  /\ amount_in > 0
  /\ out >= min_out
  /\ out > 0 /\ out < ReserveOut(p, a_to_b)
  /\ amount_in <= balance[h][InOf(p, a_to_b)]
  /\ pool' = TakeIn(p, a_to_b, amount_in, out)
  /\ balance' = Credit(Credit(balance, h, InOf(p, a_to_b), -amount_in),
                       h, OutOf(p, a_to_b), out)
  /\ UNCHANGED minted
-----------------------------------------------------------------------------
(* What the owners of the holders in S may do with the pools.              *)
AmmNext(S) ==
  \/ \E h \in Holders, x \in Mints, d \in Deposits : MintTo(h, x, d)
  \/ \E p \in Pools : InitPool(p)
  \/ \E h \in S, p \in Pools, d, e \in Deposits : AddLiquidity(h, p, d, e)
  \/ \E h \in S, p \in Pools, amount \in Trades, a_to_b \in BOOLEAN :
       Swap(h, p, amount, 0, a_to_b)

AmmSpec == AmmInit /\ [][AmmNext(Holders)]_ammVars
-----------------------------------------------------------------------------
(* PROPERTIES                                                              *)

Product(p) == pool[p].vault_a * pool[p].vault_b

(* The product of a pool's reserves never falls, so that a pool once       *)
(* funded is never drained: whatever the rounding, a swap pays out no more *)
(* than the curve allows (swap).                                           *)
ProductHolds == \A p \in Pools : Product(p)' >= Product(p)

ProductNeverFalls == [][ProductHolds]_pool

VaultOf(p, x) ==
  IF x = p[1] THEN pool[p].vault_a
  ELSE IF x = p[2] THEN pool[p].vault_b ELSE 0

(* Swapping and adding liquidity neither create nor destroy a token.       *)
TokensConserved ==
  \A x \in Mints :
    SumOver([h \in Holders |-> balance[h][x]], Holders)
      + SumOver([p \in Pools |-> VaultOf(p, x)], Pools) = minted[x]

(* Trading back and forth in an unmoved pool never gains: what a swap paid *)
(* out, swapped back, returns at most what was paid in (swap).             *)
RoundTripNeverGains ==
  \A p \in Pools, a_to_b \in BOOLEAN, amount \in Trades :
    LET rin == ReserveIn(p, a_to_b)
        rout == ReserveOut(p, a_to_b)
        out == AmountOut(rin, rout, amount)
    IN  rin > 0 /\ rout > 0 /\ out > 0 /\ out < rout =>
          AmountOut(rout - out, rin + amount, out) <= amount
=============================================================================
