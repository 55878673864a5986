----------------------------- MODULE FeesProofs ------------------------------
(***************************************************************************)
(* Facts about the fee and notional arithmetic for every amount and rate.  *)
(***************************************************************************)
EXTENDS Fees, TLAPS

\* Division with remainder by the positive MaxBps or a base scale.
LEMMA DivMod ==
    ASSUME NEW n \in Nat, NEW d \in Nat \ {0}
    PROVE  /\ n \div d \in Nat /\ n % d \in Nat
           /\ n = (n \div d) * d + (n % d)
           /\ n % d < d
  BY SMT

\* A quotient times a rate stays below the quotient times MaxBps.
LEMMA RateScales ==
    ASSUME NEW q \in Nat, NEW bps \in BasisPoint
    PROVE  q * bps \in Nat /\ q * bps <= q * MaxBps
  BY SMT DEF BasisPoint, MaxBps

\* The rounded-up quotient of the remainder part of mul_ceil.
LEMMA CeilPart ==
    ASSUME NEW n \in Nat
    PROVE  LET c == (n + (MaxBps - 1)) \div MaxBps
           IN  c \in Nat /\ n <= c * MaxBps /\ c * MaxBps < n + MaxBps
  BY SMT DEF MaxBps

\* mul_ceil returns the least fee that is not below amount * bps / 10000: the
\* split into quotient and remainder, which keeps the product in 256 bits,
\* rounds exactly like the unsplit formula (BasisPoint::mul_ceil).
THEOREM MulCeilIsCeiling ==
    ASSUME NEW bps \in BasisPoint, NEW amount \in Nat
    PROVE  /\ mul_ceil(bps, amount) \in Nat
           /\ bps * amount <= mul_ceil(bps, amount) * MaxBps
           /\ mul_ceil(bps, amount) * MaxBps < bps * amount + MaxBps
<1>1. CASE bps = 0 \/ amount = 0
  BY <1>1, SMT DEF mul_ceil, MaxBps, BasisPoint
<1>2. CASE bps # 0 /\ amount # 0 /\ bps = MaxBps
  BY <1>2, SMT DEF mul_ceil, MaxBps, BasisPoint
<1>3. CASE bps # 0 /\ amount # 0 /\ bps # MaxBps
  <2> DEFINE q == amount \div MaxBps
             r == amount % MaxBps
             c == (r * bps + (MaxBps - 1)) \div MaxBps
  <2>1. q \in Nat /\ r \in Nat /\ amount = q * MaxBps + r /\ bps \in Nat
    BY DivMod, SMT DEF MaxBps, BasisPoint
  <2>2. r * bps \in Nat
    BY <2>1, SMT
  <2>3. c \in Nat /\ r * bps <= c * MaxBps /\ c * MaxBps < r * bps + MaxBps
    BY <2>2, CeilPart
  <2>4. mul_ceil(bps, amount) = q * bps + c
    BY <1>3 DEF mul_ceil
  <2>5. q * bps \in Nat
    BY <2>1, SMT
  <2> HIDE DEF q, r, c
  <2>6. bps * amount = (q * bps) * MaxBps + r * bps
    BY <2>1, SMT DEF MaxBps
  <2> QED
    BY <2>2, <2>3, <2>4, <2>5, <2>6, SMT DEF MaxBps
<1> QED
  BY <1>1, <1>2, <1>3

\* A fee never exceeds the amount it is taken from, so that FeePool::withhold
\* cannot panic whatever the rate and the amount.
THEOREM FeeWithinAmount ==
    ASSUME NEW bps \in BasisPoint, NEW amount \in Nat
    PROVE  mul_ceil(bps, amount) <= amount
<1> DEFINE m == mul_ceil(bps, amount)
<1>1. m \in Nat /\ m * MaxBps < bps * amount + MaxBps
  BY MulCeilIsCeiling
<1>2. bps * amount <= amount * MaxBps
  <2>1. amount * bps <= amount * MaxBps
    BY RateScales
  <2>2. amount * bps = bps * amount
    BY SMT DEF BasisPoint, MaxBps
  <2> QED BY <2>1, <2>2
<1> HIDE DEF m
<1>3. \A y \in Int : y <= amount * MaxBps /\ m * MaxBps < y + MaxBps
                        => m <= amount
  BY <1>1, SMT DEF MaxBps
<1>4. bps * amount \in Int
  BY SMT DEF BasisPoint, MaxBps
<1>5. m <= amount
  BY <1>1, <1>2, <1>3, <1>4
<1> QED
  BY <1>5 DEF m

\* On a pair whose tick times lot is a multiple of the base scale, every
\* notional is exact: the assertion of checked_mul_quantity_scaled cannot fail
\* for a price on the tick and a quantity on the lot (add_trading_pair,
\* validate_order).
THEOREM PairsSettleExactly ==
    ASSUME NEW scale \in Nat \ {0}, NEW tick \in Nat, NEW lot \in Nat,
           (tick * lot) % scale = 0,
           NEW p \in Nat, NEW k \in Nat
    PROVE  Exact(tick * p, lot * k, scale)
<1> DEFINE x == (tick * lot) \div scale
<1>1. x \in Nat /\ tick * lot = x * scale
  BY DivMod, SMT
<1> HIDE DEF x
<1>2. (tick * p) * (lot * k) = (x * (p * k)) * scale
  <2>1. (tick * p) * (lot * k) = (tick * lot) * (p * k)
    BY SMT
  <2> QED
    BY <2>1, <1>1, SMT
<1>3. x * (p * k) \in Nat
  BY <1>1, SMT
<1>4. \A n \in Nat : (n * scale) % scale = 0
  BY SMT
<1> QED
  BY <1>2, <1>3, <1>4 DEF Exact

=============================================================================
