------------------------------ MODULE Quantity -------------------------------
(***************************************************************************)
(* Quantity (order/mod.rs): a 256-bit unsigned number as two u128 limbs,   *)
(* with checked arithmetic built from 64-bit halves, and its encodings.    *)
(* The widths are parameters: Half stands for 2^64, so that a limb has     *)
(* Half^2 values and a quantity Half^4; a half has BytesPerHalf digits in  *)
(* base Byte.  What is checked is the carrying between limbs and halves,   *)
(* which does not depend on the base.                                      *)
(*                                                                         *)
(* The state is a balance and an amount that is credited to it or debited. *)
(***************************************************************************)
EXTENDS Integers, SequencesExt

CONSTANTS None,          \* Option::None
          Byte, BytesPerHalf,
          MaxBps         \* BasisPoint::MAX (10_000)

Half == Byte ^ BytesPerHalf
Word == Half * Half

\* In the code 256, 8 and 10_000.
ASSUME WidthAssumption ==
    /\ Byte \in Nat /\ BytesPerHalf \in Nat /\ MaxBps \in Nat
    /\ Byte >= 2 /\ BytesPerHalf >= 1 /\ MaxBps >= 1
    /\ Half \in Nat
    /\ Half >= 2
    /\ (MaxBps - 1) * (MaxBps - 1) < Half

VARIABLES balance, amount

vars == <<balance, amount>>

U64 == 0 .. Half - 1
U128 == 0 .. Word - 1
Quantities == [high : U128, low : U128]

\* None is a value of its own.
ASSUME NoneAssumption == None \notin U128 /\ None \notin Quantities

Q(high, low) == [high |-> high, low |-> low]
ZERO == Q(0, 0)
from_u128(n) == Q(0, n)
is_zero(x) == x.high = 0 /\ x.low = 0

\* What the limbs stand for, and the reference for every checked operation.
Value(x) == x.high * Word + x.low
Capacity == Word * Word
Exactly(n) == IF n \in 0 .. Capacity - 1 THEN Q(n \div Word, n % Word) ELSE None

-----------------------------------------------------------------------------
(* Primitive operations on a limb: u128::overflowing_add and _sub, with the *)
(* carry as a number, checked_*, the shifts by 64 and | of two halves.      *)

overflowing_add(a, b) == <<(a + b) % Word, IF a + b >= Word THEN 1 ELSE 0>>
overflowing_sub(a, b) == <<(a - b) % Word, IF a < b THEN 1 ELSE 0>>
checked(n) == IF n \in U128 THEN n ELSE None
shl_64(a) == (a * Half) % Word
shr_64(a) == a \div Half
low_64(a) == a % Half

\* a << 64 | b: a sum as long as b has no bits above the 64th.
join(a, b) == IF b < Half THEN shl_64(a) + b ELSE shl_64(a)

-----------------------------------------------------------------------------

\* Faulty variant of checked_add: the carry is not added to the high limb.
checked_add_no_carry(x, y) ==
    LET low == overflowing_add(x.low, y.low)
        high == checked(x.high + y.high)
    IN  IF high = None THEN None ELSE Q(high, low[1])

checked_add(x, y) ==
    LET low == overflowing_add(x.low, y.low)
        sum == checked(x.high + y.high)
        high == IF sum = None THEN None ELSE checked(sum + low[2])
    IN  IF high = None THEN None ELSE Q(high, low[1])

\* The borrow is added to the subtrahend, and that sum is checked too.
checked_sub(x, y) ==
    LET low == overflowing_sub(x.low, y.low)
        take == checked(y.high + low[2])
        high == IF take = None THEN None ELSE checked(x.high - take)
    IN  IF is_zero(y) THEN x
        ELSE IF high = None THEN None ELSE Q(high, low[1])

\* Ord: the high limbs first.
less(x, y) == x.high < y.high \/ (x.high = y.high /\ x.low < y.low)

checked_mul_u64(x, rhs) ==
    LET prod_lo == low_64(x.low) * rhs
        prod_hi == shr_64(x.low) * rhs
        low == overflowing_add(prod_lo, shl_64(prod_hi))
        product == checked(x.high * rhs)
        spilled == IF product = None THEN None
                   ELSE checked(product + shr_64(prod_hi))
        high == IF spilled = None THEN None ELSE checked(spilled + low[2])
    IN  IF high = None THEN None ELSE Q(high, low[1])

checked_shl_64(x) ==
    IF shr_64(x.high) # 0 THEN None
    ELSE Q(join(x.high, shr_64(x.low)), shl_64(x.low))

checked_mul_u128(x, rhs) ==
    LET lo == checked_mul_u64(x, low_64(rhs))
        hi == checked_mul_u64(x, shr_64(rhs))
        shifted == IF hi = None THEN None ELSE checked_shl_64(hi)
    IN  IF rhs < Half THEN checked_mul_u64(x, rhs)
        ELSE IF lo = None \/ shifted = None THEN None
        ELSE checked_add(lo, shifted)

\* Schoolbook division by a u64, the high limb first.
checked_div_rem_u64(x, d) ==
    LET dividend2 == join(x.high % d, shr_64(x.low))
        dividend3 == join(dividend2 % d, low_64(x.low))
    IN  IF d = 0 THEN None
        ELSE IF x.high = 0 THEN <<from_u128(x.low \div d), x.low % d>>
        ELSE <<Q(x.high \div d, join(dividend2 \div d, dividend3 \div d)),
               dividend3 % d>>

is_multiple_of(x, lot_size) ==
    IF x.high = 0 THEN x.low % lot_size = 0
    ELSE checked_div_rem_u64(x, lot_size)[2] = 0

\* Price::checked_mul_quantity_scaled.  The quotient is returned with the
\* remainder, which the code asserts to be zero.
checked_mul_quantity_scaled(price, quantity, base_scale) ==
    LET product == checked_mul_u128(quantity, price)
    IN  IF product = None THEN None ELSE checked_div_rem_u64(product, base_scale)

\* Faulty variant of mul_ceil: multiply first, then divide.
mul_ceil_naive(bps, x) ==
    LET product == checked_mul_u64(x, bps)
        rounded == IF product = None THEN None
                   ELSE checked_add(product, from_u128(MaxBps - 1))
    IN  IF rounded = None THEN None ELSE checked_div_rem_u64(rounded, MaxBps)[1]

\* BasisPoint::mul_ceil on limbs; None is a failed expect.
mul_ceil(bps, x) ==
    LET parts == checked_div_rem_u64(x, MaxBps)
        main == checked_mul_u64(parts[1], bps)
        rem_num == parts[2] * bps
        rem_ceil == (rem_num + MaxBps - 1) \div MaxBps
    IN  IF bps = 0 \/ is_zero(x) THEN ZERO
        ELSE IF bps = MaxBps THEN x
        ELSE IF main = None \/ rem_num \notin U64 THEN None
        ELSE checked_add(main, from_u128(rem_ceil))

-----------------------------------------------------------------------------
(* Encodings.  A byte string is a sequence of digits, most significant one  *)
(* first.                                                                   *)

Bytes(n, len) == [i \in 1 .. len |-> (n \div Byte ^ (len - i)) % Byte]
Number(bytes) == FoldLeft(LAMBDA n, digit : n * Byte + digit, 0, bytes)

WordBytes == 2 * BytesPerHalf
Width == 2 * WordBytes      \* 32 in the code

to_be_bytes(x) == Bytes(x.high, WordBytes) \o Bytes(x.low, WordBytes)

\* Shorter strings are padded on the left.
from_be_bytes(bytes) ==
    LET padded == [i \in 1 .. Width |->
                     IF i <= Width - Len(bytes) THEN 0
                     ELSE bytes[i - (Width - Len(bytes))]]
    IN  IF Len(bytes) > Width THEN None
        ELSE Q(Number(SubSeq(padded, 1, WordBytes)),
               Number(SubSeq(padded, WordBytes + 1, Width)))

to_nat(x) == IF x.high = 0 THEN x.low ELSE Number(to_be_bytes(x))

\* BigUint::to_bytes_be: the shortest string, and one zero byte for zero.
Shortest(n) ==
    LET enough == {len \in 1 .. Width + 1 : n < Byte ^ len}
    IN  Bytes(n, CHOOSE len \in enough : \A other \in enough : len <= other)

\* TryFrom<&Nat>.
try_from(n) == IF n >= Byte ^ Width THEN None ELSE from_be_bytes(Shortest(n))

\* Faulty variant of encode: every zero byte is dropped.
encode_no_zeros(x) ==
    [tag |-> 2, value |-> SelectSeq(to_be_bytes(x), LAMBDA digit : digit # 0)]

\* minicbor Encode: an unsigned integer if it fits 64 bits, else a bignum whose
\* leading zero bytes are dropped.
encode(x) ==
    LET bytes == to_be_bytes(x)
        start == CHOOSE i \in 1 .. Width + 1 :
                    /\ \A j \in 1 .. i - 1 : bytes[j] = 0
                    /\ i <= Width => bytes[i] # 0
    IN  IF x.high = 0 /\ x.low < Half
        THEN [tag |-> 0, value |-> <<x.low>>]
        ELSE [tag |-> 2, value |-> SubSeq(bytes, start, Width)]

decode(item) ==
    IF item.tag = 0 THEN from_u128(item.value[1]) ELSE from_be_bytes(item.value)

-----------------------------------------------------------------------------

Init == balance \in Quantities /\ amount \in Quantities

\* A credit or debit is refused if the operation returns None.
Credit == /\ checked_add(balance, amount) # None
          /\ balance' = checked_add(balance, amount)
          /\ UNCHANGED amount

Debit == /\ checked_sub(balance, amount) # None
         /\ balance' = checked_sub(balance, amount)
         /\ UNCHANGED amount

Next == Credit \/ Debit

Spec == Init /\ [][Next]_vars

-----------------------------------------------------------------------------
(* Properties.                                                              *)

\* Addition, subtraction and comparison of the limbs are those of the numbers,
\* and None is returned exactly when the result does not fit: no carry or
\* borrow is lost at the boundary of the limbs, also where the borrow meets
\* the largest high limb (Quantity::checked_add, checked_sub, cmp).
ArithmeticExact ==
    /\ checked_add(balance, amount) = Exactly(Value(balance) + Value(amount))
    /\ checked_sub(balance, amount) = Exactly(Value(balance) - Value(amount))
    /\ less(balance, amount) <=> Value(balance) < Value(amount)

\* The product with a u128 is exact or None, never cut: the two partial
\* products and their shifts lose no bit (checked_mul_u128, checked_mul_u64).
MultiplicationExact ==
    /\ checked_mul_u128(balance, amount.low) = Exactly(Value(balance) * amount.low)
    /\ checked_mul_u128(amount, balance.high)
         = Exactly(Value(amount) * balance.high)

\* Long division by any u64 gives the quotient and remainder of the numbers,
\* on the fast path and on the long one, and divisibility agrees with it; so
\* does the scaled product of a price and a quantity (checked_div_rem_u64,
\* is_multiple_of, Price::checked_mul_quantity_scaled).
DivisionExact ==
    \A d \in {low_64(amount.low), shr_64(amount.low)} \ {0} :
        /\ checked_div_rem_u64(balance, d)
             = <<Exactly(Value(balance) \div d), Value(balance) % d>>
        /\ is_multiple_of(balance, d) <=> Value(balance) % d = 0
        /\ LET product == Value(balance) * amount.high
               scaled == checked_mul_quantity_scaled(amount.high, balance, d)
           IN  scaled = IF product >= Capacity THEN None
                        ELSE <<Exactly(product \div d), product % d>>

\* A fee never fails and is the rounded-up share, for every amount up to
\* Quantity::MAX: "A naive (amount x bps) / 10_000 would trap on amounts in the
\* top 1/10_000 of u256" (order/fees.rs).
FeeExact ==
    \A bps \in 0 .. MaxBps :
        mul_ceil(bps, balance)
          = Exactly((Value(balance) * bps + MaxBps - 1) \div MaxBps)

\* Products, quotients and fees are those of the numbers, or None where they do
\* not fit, on every path of the limb arithmetic (order/mod.rs, order/fees.rs).
ProductsExact == MultiplicationExact /\ DivisionExact /\ FeeExact

\* Every encoding is read back as it was written, and nothing beyond 256 bits
\* is taken in (to_be_bytes, the CBOR item, Nat).
EncodingsRoundTrip ==
    /\ from_be_bytes(to_be_bytes(balance)) = balance
    /\ decode(encode(balance)) = balance
    /\ to_nat(balance) = Value(balance)
    /\ try_from(to_nat(balance)) = balance
    /\ try_from(Value(balance) + Value(amount))
         = Exactly(Value(balance) + Value(amount))

=============================================================================
