-------------------------------- MODULE Fees ---------------------------------
(***************************************************************************)
(* The amounts of a fill: the exact quote notional of a price and a        *)
(* quantity (order/mod.rs) and the fee in basis points, rounded up         *)
(* (order/fees.rs).                                                        *)
(***************************************************************************)
EXTENDS Integers

MaxBps == 10000          \* BasisPoint::MAX

BasisPoint == 0 .. MaxBps

\* BasisPoint::mul_ceil.  The product is taken on the quotient and on the
\* remainder of the amount so that it cannot leave the 256-bit range.
mul_ceil(bps, amount) ==
    IF bps = 0 \/ amount = 0 THEN 0
    ELSE IF bps = MaxBps THEN amount
    ELSE (amount \div MaxBps) * bps
         + ((amount % MaxBps) * bps + (MaxBps - 1)) \div MaxBps

\* Price::checked_mul_quantity_scaled, where the product fits.
Notional(price, quantity, base_scale) == (price * quantity) \div base_scale

\* The assertion of checked_mul_quantity_scaled.
Exact(price, quantity, base_scale) == (price * quantity) % base_scale = 0

=============================================================================
