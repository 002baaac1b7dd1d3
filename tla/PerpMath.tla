------------------------------ MODULE PerpMath ------------------------------
(***************************************************************************)
(* The pure settlement arithmetic of the perpetuals program (module `math` *)
(* of programs/porst_perp/src/lib.rs).  Amounts are base units of the      *)
(* collateral token, prices are positive integers, rates are basis points. *)
(*                                                                         *)
(* Rust computes in u64/u128/i128.  Products are exact here: they fit      *)
(* their wide types for notionals below 2^63 and ages below 2^40 seconds,  *)
(* beyond which pnl's saturating_mul may cut a profit and the product of   *)
(* borrow_fee overflow.  The width that can bite before that, the u64 of a *)
(* notional, is the constant U64Max.                                       *)
(***************************************************************************)
EXTENDS Integers

CONSTANT U64Max     \* the largest u64

ASSUME U64MaxAssumption == U64Max \in Nat

BpsDenominator == 10000
SecondsPerHour == 3600

SIDE_LONG == 0
SIDE_SHORT == 1
Sides == {SIDE_LONG, SIDE_SHORT}

(* Division of Rust's signed integers: it truncates toward zero, unlike    *)
(* \div, which rounds down.                                                *)
TruncDiv(a, b) == IF a >= 0 THEN a \div b ELSE -((-a) \div b)

Notional(collateral, leverage) == collateral * leverage

FitsU64(n) == n <= U64Max

(* Profit of a position of the given notional, negative for a loss.        *)
Pnl(side, notional, entry, exit) ==
  LET raw == TruncDiv(notional * (exit - entry), entry)
  IN  IF side = SIDE_LONG THEN raw ELSE -raw

OpenFee(notional, bps) == (notional * bps) \div BpsDenominator

(* The carry is charged per second; a clock that reads earlier than the    *)
(* opening time charges nothing.                                           *)
BorrowFee(notional, bpsPerHour, elapsed) ==
  LET e == IF elapsed < 0 THEN 0 ELSE elapsed
  IN  (notional * bpsPerHour * e) \div (BpsDenominator * SecondsPerHour)

Maintenance(notional, bps) == (notional * bps) \div BpsDenominator

Equity(collateral, pnl, fees) == collateral + pnl - fees

(* Fault: a vault that cannot pay all pays nothing.                        *)
PayoutAllOrNothing(equity, vaultBalance) ==
  IF equity > 0 /\ equity <= vaultBalance THEN equity ELSE 0

(* What a settlement pays: the equity, never negative and never more than  *)
(* the vault holds.                                                        *)
Payout(equity, vaultBalance) ==
  IF equity <= 0 THEN 0
  ELSE IF equity <= vaultBalance THEN equity ELSE vaultBalance

IsLiquidatable(equity, maintenance) == equity <= maintenance
=============================================================================
