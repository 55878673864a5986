------------------------ MODULE OrderLifecycleProofs -------------------------
(***************************************************************************)
(* Every behaviour of OrderLifecycle keeps its records sound, whatever the *)
(* orders are; and an order that has ended stays as it is.                 *)
(***************************************************************************)
EXTENDS OrderLifecycle, TLAPS

\* A new order is sound.
LEMMA FreshIsSound ==
    ASSUME NEW r, Fresh(r)
    PROVE  SoundOrder(r)
  BY SMT DEF Fresh, SoundOrder, Order

\* Canceling a live order keeps it sound: it is not filled.
LEMMA CanceledIsSound ==
    ASSUME NEW r, SoundOrder(r), r.status \in {"Pending", "Open"}
    PROVE  SoundOrder([r EXCEPT !.status = "Canceled"])
  BY SMT DEF SoundOrder, Order

\* What a round makes of a sound order is sound.
LEMMA AdvanceIsSound ==
    ASSUME NEW r, NEW s, SoundOrder(r), Advances(r, s)
    PROVE  SoundOrder(s)
<1>1. CASE s = r
  BY <1>1
<1>2. CASE s # r
  <2> DEFINE q == s.filled_quantity
             st == s.status
  <2>1. /\ q \in r.filled_quantity .. r.quantity
        /\ s = [r EXCEPT !.filled_quantity = q, !.status = st]
        /\ st \in {"Filled", "Open", "Expired"}
        /\ r.status \notin Terminal
    BY <1>2 DEF Advances
  <2>2. r \in Order /\ r.filled_quantity \in Nat /\ r.quantity \in Nat \ {0}
    BY DEF SoundOrder, Order
  <2>3. q \in Nat /\ q <= r.quantity
    BY <2>1, <2>2, SMT
  <2>4. /\ s \in Order /\ s.quantity = r.quantity
        /\ s.time_in_force = r.time_in_force
    <3> HIDE DEF q, st
    <3> QED BY <2>1, <2>2, <2>3 DEF Order
  <2>5. CASE st = "Filled" /\ q = r.quantity
    BY <2>2, <2>3, <2>4, <2>5, SMT DEF SoundOrder
  <2>6. CASE st = "Open" /\ q < r.quantity /\ r.time_in_force = "GoodTilCanceled"
    BY <2>2, <2>3, <2>4, <2>6, SMT DEF SoundOrder
  <2>7. CASE st = "Expired" /\ q = 0
    BY <2>2, <2>3, <2>4, <2>7, SMT DEF SoundOrder
  <2> QED
    BY <1>2, <2>5, <2>6, <2>7 DEF Advances
<1> QED
  BY <1>1, <1>2

\* One step of the specification keeps every order sound.
LEMMA StepIsSound == Sound /\ [Next]_orders => Sound'
<1> SUFFICES ASSUME \A id \in DOMAIN orders : SoundOrder(orders[id]), [Next]_orders
             PROVE  \A id \in DOMAIN orders' : SoundOrder(orders'[id])
  BY DEF Sound
<1>1. ASSUME NEW i \in OrderIds \ DOMAIN orders, Place(i)
      PROVE  \A id \in DOMAIN orders' : SoundOrder(orders'[id])
  BY <1>1, FreshIsSound DEF Place
<1>2. ASSUME NEW i \in DOMAIN orders, Cancel(i)
      PROVE  \A id \in DOMAIN orders' : SoundOrder(orders'[id])
  <2>1. SoundOrder([orders[i] EXCEPT !.status = "Canceled"])
    BY <1>2, CanceledIsSound DEF Cancel
  <2> QED
    BY <1>2, <2>1 DEF Cancel
<1>3. ASSUME NEW b \in Books, Round(b)
      PROVE  \A id \in DOMAIN orders' : SoundOrder(orders'[id])
  <2> SUFFICES ASSUME NEW id \in DOMAIN orders
               PROVE  SoundOrder(orders'[id])
    BY <1>3 DEF Round
  <2>1. CASE id[1] = b
    BY <1>3, <2>1, AdvanceIsSound DEF Round
  <2>2. CASE id[1] # b
    BY <1>3, <2>2 DEF Round
  <2> QED
    BY <2>1, <2>2
<1>4. CASE UNCHANGED orders
  BY <1>4
<1> QED
  BY <1>1, <1>2, <1>3, <1>4 DEF Next

\* Every order is sound in every state: fills never exceed the quantity, and a
\* fill-or-kill order is never partly filled (OrderUpdate::apply, build).
THEOREM OrdersAreSound == Spec => []Sound
<1>1. Init => Sound
  BY DEF Init, Sound
<1> QED
  BY <1>1, StepIsSound, PTL DEF Spec

\* The lifecycle keeps ended orders as they are, for any set of orders.
THEOREM OrdersEndForGood == Spec => EndedForGood
<1> DEFINE Kept == \A id \in DOMAIN orders :
                      /\ id \in DOMAIN orders'
                      /\ orders[id].status \in Terminal => orders'[id] = orders[id]
<1>1. [Next]_orders => [Kept]_orders
  <2>1. ASSUME NEW i \in OrderIds \ DOMAIN orders, Place(i) PROVE Kept
    BY <2>1 DEF Place
  <2>2. ASSUME NEW i \in DOMAIN orders, Cancel(i) PROVE Kept
    BY <2>2 DEF Cancel, Terminal
  <2>3. ASSUME NEW b \in Books, Round(b) PROVE Kept
    BY <2>3 DEF Round, Advances
  <2> QED
    BY <2>1, <2>2, <2>3 DEF Next
<1> QED
  BY <1>1, PTL DEF Spec, EndedForGood

=============================================================================
