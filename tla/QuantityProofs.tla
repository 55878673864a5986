--------------------------- MODULE QuantityProofs ----------------------------
(***************************************************************************)
(* The limb arithmetic of Quantity is that of the numbers, for every width *)
(* of the halves, the 64 bits of the code included.                        *)
(***************************************************************************)
EXTENDS Quantity, TLAPS

\* The limbs stay within u128.
TypeOK == balance \in Quantities /\ amount \in Quantities

\* A limb has at least two values.
LEMMA WordIsNat == Word \in Nat /\ Word >= 2 /\ Word > 0
  <1>1. Half \in Nat /\ Half >= 2
    BY WidthAssumption
  <1>2. \A h \in Nat : h >= 2 => h * h \in Nat /\ h * h >= 2
    OBVIOUS
  <1> QED BY <1>1, <1>2 DEF Word

\* The limbs of a number are determined by it: the reference Exactly returns
\* them for every number written with a low limb below Word, and None if the
\* high limb does not fit or is negative.
LEMMA ExactlyLimbs ==
    ASSUME NEW h \in Int, NEW l \in U128
    PROVE  Exactly(h * Word + l) = IF h \in U128 THEN Q(h, l) ELSE None
  <1> DEFINE W == Word
  <1>w. W \in Nat /\ W > 0
    BY WordIsNat
  <1>l. l \in Nat /\ l < W
    BY <1>w DEF U128
  <1> HIDE DEF W
  <1>1. (h * W + l) \in Int /\ (h * W + l) \div W = h /\ (h * W + l) % W = l
    BY <1>w, <1>l
  <1>2. CASE h \in 0 .. W - 1
    <2>1. h * W + l >= 0
      BY <1>w, <1>l, <1>2
    <2>2. h * W + l < W * W
      BY <1>w, <1>l, <1>2
    <2> QED BY <1>1, <1>2, <2>1, <2>2, <1>w DEF Exactly, Capacity, U128, W
  <1>3. CASE h < 0
    <2>1. h * W + l < 0
      BY <1>w, <1>l, <1>3
    <2> QED BY <1>1, <1>3, <2>1, <1>w DEF Exactly, Capacity, U128, W
  <1>4. CASE h >= W
    <2>1. h * W + l >= W * W
      BY <1>w, <1>l, <1>4
    <2> QED BY <1>1, <1>4, <2>1, <1>w DEF Exactly, Capacity, U128, W
  <1> QED BY <1>2, <1>3, <1>4, <1>w

\* checked_add is exact, and None exactly on overflow: the carry of the low
\* limbs reaches the high one.
LEMMA AddExact ==
    ASSUME NEW x \in Quantities, NEW y \in Quantities
    PROVE  checked_add(x, y) = Exactly(Value(x) + Value(y))
  <1> DEFINE W == Word
  <1>w. W \in Nat /\ W > 0 /\ W = Word
    BY WordIsNat
  <1> HIDE DEF W
  <1>1. PICK xh \in Int, xl \in Int, yh \in Int, yl \in Int :
           /\ x.high = xh /\ x.low = xl /\ y.high = yh /\ y.low = yl
           /\ 0 <= xh /\ xh < W /\ 0 <= xl /\ xl < W
           /\ 0 <= yh /\ yh < W /\ 0 <= yl /\ yl < W
    BY <1>w DEF Quantities, U128
  <1>2. Value(x) + Value(y) = xh * W + xl + (yh * W + yl)
    BY <1>1, <1>w DEF Value
  <1>3. CASE xl + yl < W
    <2>1. (xl + yl) % W = xl + yl
      BY <1>1, <1>3, <1>w
    <2>2. overflowing_add(x.low, y.low) = <<xl + yl, 0>>
      BY <1>1, <1>3, <2>1, <1>w DEF overflowing_add
    <2>3. xl + yl \in U128
      BY <1>1, <1>3, <1>w DEF U128
    <2>4. Value(x) + Value(y) = (xh + yh) * W + (xl + yl)
      BY <1>1, <1>2, <1>w
    <2>5. Exactly(Value(x) + Value(y))
            = IF xh + yh \in U128 THEN Q(xh + yh, xl + yl) ELSE None
      BY <2>3, <2>4, <1>1, <1>w, ExactlyLimbs
    <2>6. checked_add(x, y) = IF xh + yh \in U128 THEN Q(xh + yh, xl + yl) ELSE None
      BY <2>2, <1>1, NoneAssumption DEF checked_add, checked
    <2> QED BY <2>5, <2>6
  <1>4. CASE xl + yl >= W
    <2>1. (xl + yl) % W = xl + yl - W
      <3>1. xl + yl = W + (xl + yl - W) /\ 0 <= xl + yl - W /\ xl + yl - W < W
        BY <1>1, <1>4, <1>w
      <3> QED BY <1>1, <1>w, <3>1
    <2>2. overflowing_add(x.low, y.low) = <<xl + yl - W, 1>>
      BY <1>1, <1>4, <2>1, <1>w DEF overflowing_add
    <2>3. xl + yl - W \in U128
      BY <1>1, <1>4, <1>w DEF U128
    <2>4. Value(x) + Value(y) = (xh + yh + 1) * W + (xl + yl - W)
      BY <1>1, <1>2, <1>w
    <2>5. Exactly(Value(x) + Value(y))
            = IF xh + yh + 1 \in U128 THEN Q(xh + yh + 1, xl + yl - W) ELSE None
      BY <2>3, <2>4, <1>1, <1>w, ExactlyLimbs
    <2>6. xh + yh + 1 \in U128 => xh + yh \in U128
      BY <1>1, <1>w DEF U128
    <2>7. checked_add(x, y)
            = IF xh + yh + 1 \in U128 THEN Q(xh + yh + 1, xl + yl - W) ELSE None
      BY <2>2, <2>6, <1>1, NoneAssumption DEF checked_add, checked
    <2> QED BY <2>5, <2>7
  <1> QED BY <1>1, <1>3, <1>4, <1>w

\* checked_sub is exact, and None exactly when the result would be negative:
\* the borrow reaches the high limb, and the sum of the borrow and the largest
\* high limb, which does not fit, is a refusal too.
LEMMA SubExact ==
    ASSUME NEW x \in Quantities, NEW y \in Quantities
    PROVE  checked_sub(x, y) = Exactly(Value(x) - Value(y))
  <1> DEFINE W == Word
  <1>w. W \in Nat /\ W > 0 /\ W = Word
    BY WordIsNat
  <1> HIDE DEF W
  <1>1. PICK xh \in Int, xl \in Int, yh \in Int, yl \in Int :
           /\ x.high = xh /\ x.low = xl /\ y.high = yh /\ y.low = yl
           /\ 0 <= xh /\ xh < W /\ 0 <= xl /\ xl < W
           /\ 0 <= yh /\ yh < W /\ 0 <= yl /\ yl < W
    BY <1>w DEF Quantities, U128
  <1>2. Value(x) - Value(y) = xh * W + xl - (yh * W + yl)
    BY <1>1, <1>w DEF Value
  <1>3. x = Q(xh, xl)
    BY <1>1 DEF Quantities, Q
  <1>4. CASE xl >= yl
    <2>1. (xl - yl) % W = xl - yl
      BY <1>1, <1>4, <1>w
    <2>2. overflowing_sub(x.low, y.low) = <<xl - yl, 0>>
      BY <1>1, <1>4, <2>1, <1>w DEF overflowing_sub
    <2>3. xl - yl \in U128
      BY <1>1, <1>4, <1>w DEF U128
    <2>4. Value(x) - Value(y) = (xh - yh) * W + (xl - yl)
      BY <1>1, <1>2, <1>w
    <2>5. Exactly(Value(x) - Value(y))
            = IF xh - yh \in U128 THEN Q(xh - yh, xl - yl) ELSE None
      BY <2>3, <2>4, <1>1, <1>w, ExactlyLimbs
    <2>6. yh \in U128 /\ xh \in U128 /\ yh + 0 = yh /\ xh - 0 = xh /\ xl - 0 = xl
      BY <1>1, <1>w DEF U128
    <2>7. CASE is_zero(y)
      <3>1. yh = 0 /\ yl = 0
        BY <2>7, <1>1 DEF is_zero
      <3>2. checked_sub(x, y) = x
        BY <2>7 DEF checked_sub
      <3> QED BY <3>1, <3>2, <2>5, <2>6, <1>3
    <2>8. CASE ~ is_zero(y)
      <3>1. checked_sub(x, y) = IF xh - yh \in U128 THEN Q(xh - yh, xl - yl) ELSE None
        BY <2>2, <2>6, <2>8, <1>1, NoneAssumption DEF checked_sub, checked
      <3> QED BY <3>1, <2>5
    <2> QED BY <2>7, <2>8
  <1>5. CASE xl < yl
    <2>1. (xl - yl) % W = xl - yl + W
      <3>1. xl - yl = (0 - 1) * W + (xl - yl + W)
            /\ 0 <= xl - yl + W /\ xl - yl + W < W
        BY <1>1, <1>5, <1>w
      <3> QED BY <1>1, <1>w, <3>1
    <2>2. overflowing_sub(x.low, y.low) = <<xl - yl + W, 1>>
      BY <1>1, <1>5, <2>1, <1>w DEF overflowing_sub
    <2>3. xl - yl + W \in U128
      BY <1>1, <1>5, <1>w DEF U128
    <2>4. Value(x) - Value(y) = (xh - (yh + 1)) * W + (xl - yl + W)
      BY <1>1, <1>2, <1>w
    <2>5. Exactly(Value(x) - Value(y))
            = IF xh - (yh + 1) \in U128 THEN Q(xh - (yh + 1), xl - yl + W) ELSE None
      BY <2>3, <2>4, <1>1, <1>w, ExactlyLimbs
    <2>6. xh - (yh + 1) \in U128 => yh + 1 \in U128
      BY <1>1, <1>w DEF U128
    <2>7. ~ is_zero(y)
      BY <1>1, <1>5 DEF is_zero
    <2>8. checked_sub(x, y)
            = IF xh - (yh + 1) \in U128 THEN Q(xh - (yh + 1), xl - yl + W) ELSE None
      BY <2>2, <2>6, <2>7, <1>1, NoneAssumption DEF checked_sub, checked
    <2> QED BY <2>5, <2>8
  <1> QED BY <1>1, <1>4, <1>5

\* Comparing the high limbs first is comparing the numbers (Ord).
LEMMA LessExact ==
    ASSUME NEW x \in Quantities, NEW y \in Quantities
    PROVE  less(x, y) <=> Value(x) < Value(y)
  <1> DEFINE W == Word
  <1>w. W \in Nat /\ W > 0 /\ W = Word
    BY WordIsNat
  <1> HIDE DEF W
  <1>1. PICK xh \in Int, xl \in Int, yh \in Int, yl \in Int :
           /\ x.high = xh /\ x.low = xl /\ y.high = yh /\ y.low = yl
           /\ 0 <= xh /\ xh < W /\ 0 <= xl /\ xl < W
           /\ 0 <= yh /\ yh < W /\ 0 <= yl /\ yl < W
    BY <1>w DEF Quantities, U128
  <1>2. Value(x) = xh * W + xl /\ Value(y) = yh * W + yl
    BY <1>1, <1>w DEF Value
  <1>3. xh < yh => xh * W + xl < yh * W + yl
    <2> SUFFICES ASSUME xh < yh PROVE xh * W + xl < yh * W + yl
      OBVIOUS
    <2>1. (xh + 1) * W <= yh * W
      BY <1>1, <1>w
    <2>2. (xh + 1) * W = xh * W + W
      BY <1>1, <1>w
    <2> QED BY <1>1, <1>w, <2>1, <2>2
  <1>4. yh < xh => yh * W + yl < xh * W + xl
    <2> SUFFICES ASSUME yh < xh PROVE yh * W + yl < xh * W + xl
      OBVIOUS
    <2>1. (yh + 1) * W <= xh * W
      BY <1>1, <1>w
    <2>2. (yh + 1) * W = yh * W + W
      BY <1>1, <1>w
    <2> QED BY <1>1, <1>w, <2>1, <2>2
  <1>5. xh = yh => (xh * W + xl < yh * W + yl <=> xl < yl)
    BY <1>1, <1>w
  <1>6. less(x, y) <=> xh < yh \/ (xh = yh /\ xl < yl)
    BY <1>1 DEF less
  <1>7. xh * W + xl \in Int /\ yh * W + yl \in Int
    BY <1>1, <1>w
  <1> QED BY <1>1, <1>2, <1>3, <1>4, <1>5, <1>6, <1>7

\* What the reference returns is a quantity unless it is None.
LEMMA ExactlyIsQuantity ==
    ASSUME NEW n \in Int, Exactly(n) # None
    PROVE  Exactly(n) \in Quantities
  <1> DEFINE W == Word
  <1>w. W \in Nat /\ W > 0 /\ W = Word
    BY WordIsNat
  <1> HIDE DEF W
  <1>1. 0 <= n /\ n < W * W /\ Exactly(n) = Q(n \div W, n % W)
    BY <1>w DEF Exactly, Capacity
  <1>2. n % W \in 0 .. W - 1 /\ n \div W \in Int /\ n = W * (n \div W) + (n % W)
    BY <1>w
  <1>3. \A q \in Int, r \in Int :
          0 <= r /\ r < W /\ 0 <= W * q + r /\ W * q + r < W * W => 0 <= q /\ q < W
    <2> TAKE q \in Int, r \in Int
    <2>1. q <= 0 - 1 => W * q <= W * (0 - 1)
      BY <1>w
    <2>2. q >= W => W * q >= W * W
      BY <1>w
    <2>3. W * q \in Int /\ W * W \in Int /\ W * (0 - 1) = 0 - W
      BY <1>w
    <2> QED BY <2>1, <2>2, <2>3, <1>w
  <1>4. n \div W \in 0 .. W - 1
    BY <1>1, <1>2, <1>3, <1>w
  <1> QED BY <1>1, <1>2, <1>4, <1>w DEF Quantities, Q, U128

\* The value of a quantity is a number.
LEMMA ValueIsInt ==
    ASSUME NEW x \in Quantities
    PROVE  Value(x) \in Int
  <1>1. Word \in Nat
    BY WordIsNat
  <1>2. x.high \in Int /\ x.low \in Int
    BY <1>1 DEF Quantities, U128
  <1> QED BY <1>1, <1>2 DEF Value

\* Credits and debits keep the limbs within u128.
THEOREM LimbsInRange == Spec => []TypeOK
  <1>1. Init => TypeOK
    BY DEF Init, TypeOK
  <1>2. TypeOK /\ [Next]_vars => TypeOK'
    <2> SUFFICES ASSUME TypeOK, [Next]_vars PROVE TypeOK'
      OBVIOUS
    <2>1. balance \in Quantities /\ amount \in Quantities
      BY DEF TypeOK
    <2>2. Value(balance) \in Int /\ Value(amount) \in Int
      BY <2>1, ValueIsInt
    <2>3. Value(balance) + Value(amount) \in Int /\ Value(balance) - Value(amount) \in Int
      BY <2>2
    <2>4. CASE Credit
      <3>1. balance' = Exactly(Value(balance) + Value(amount)) /\ balance' # None
            /\ amount' = amount
        BY <2>1, <2>4, AddExact DEF Credit
      <3>2. balance' \in Quantities
        BY <3>1, <2>3, ExactlyIsQuantity
      <3> QED BY <3>1, <3>2, <2>1 DEF TypeOK
    <2>5. CASE Debit
      <3>1. balance' = Exactly(Value(balance) - Value(amount)) /\ balance' # None
            /\ amount' = amount
        BY <2>1, <2>5, SubExact DEF Debit
      <3>2. balance' \in Quantities
        BY <3>1, <2>3, ExactlyIsQuantity
      <3> QED BY <3>1, <3>2, <2>1 DEF TypeOK
    <2>6. CASE UNCHANGED vars
      BY <2>1, <2>6 DEF vars, TypeOK
    <2> QED BY <2>4, <2>5, <2>6 DEF Next
  <1> QED BY <1>1, <1>2, PTL DEF Spec

\* Addition, subtraction and comparison are exact in every reachable state,
\* whatever the width of a limb.
THEOREM ArithmeticIsExact == Spec => []ArithmeticExact
  <1>1. TypeOK => ArithmeticExact
    BY AddExact, SubExact, LessExact DEF TypeOK, ArithmeticExact
  <1> QED BY <1>1, LimbsInRange, PTL
=============================================================================
