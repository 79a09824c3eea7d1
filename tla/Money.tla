-------------------------------- MODULE Money --------------------------------
(***************************************************************************)
(* The money arithmetic of common/utils/money.util.ts. Amounts are whole   *)
(* Toman, rates are basis points, and Math.round of a non-negative         *)
(* quotient rounds a half up.                                              *)
(***************************************************************************)
EXTENDS Integers

Larger(a, b) == IF a >= b THEN a ELSE b
Smaller(a, b) == IF a <= b THEN a ELSE b

\* Math.round((amount * bps) / 10_000) for a non-negative amount.
BpsOf(amount, bps) == (amount * bps + 5000) \div 10000

\* A discount can never exceed the subtotal or be negative.
CappedDiscount(subtotal, discountAmount) ==
  Smaller(Larger(discountAmount, 0), subtotal)

\* computeOrderTotals over a subtotal: service charge on the discounted
\* subtotal, tax on both, and the courier fee on top of everything. A charge
\* that is switched off is a zero rate.
OrderTotal(subtotal, discountAmount, rates, deliveryFee) ==
  LET base == subtotal - CappedDiscount(subtotal, discountAmount)
      service == BpsOf(base, rates.serviceBps)
      tax == BpsOf(base + service, rates.taxBps)
  IN  base + service + tax + Larger(0, deliveryFee)
=============================================================================
