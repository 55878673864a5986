--------------------------- MODULE OrderLifecycle ----------------------------
(***************************************************************************)
(* What the exchange promises about orders, without books, queues, chunks, *)
(* settlement or upgrades: orders are placed, canceled, and advanced by    *)
(* matching rounds.  A round touches one book, takes pending orders in the *)
(* order of their numbers, buys as much as it sells, respects price-time   *)
(* priority, fills a fill-or-kill order completely or not at all, and      *)
(* leaves no two open orders that could trade.                             *)
(***************************************************************************)
EXTENDS Integers, FiniteSets, FiniteSetsExt

CONSTANTS OrderIds,      \* pairs <<book, number>>
          Books

VARIABLE orders          \* the orders placed so far: id -> order

Order == [side : {"Buy", "Sell"}, price : Nat, quantity : Nat \ {0},
          time_in_force : {"GoodTilCanceled", "FillOrKill"},
          status : {"Pending", "Open", "Filled", "Canceled", "Expired"},
          filled_quantity : Nat]

Terminal == {"Filled", "Canceled", "Expired"}

Init == orders = << >>

Fresh(r) == r \in Order /\ r.status = "Pending" /\ r.filled_quantity = 0

\* A new order gets the highest number of its book.
Place(id) ==
    /\ DOMAIN orders' = DOMAIN orders \cup {id}
    /\ \A i \in DOMAIN orders : /\ orders'[i] = orders[i]
                                /\ i[1] = id[1] => i[2] < id[2]
    /\ Fresh(orders'[id])

Cancel(id) ==
    /\ orders[id].status \in {"Pending", "Open"}
    /\ orders' = [orders EXCEPT ![id].status = "Canceled"]

Better(side, p, q) == IF side = "Buy" THEN p > q ELSE p < q

\* What a round may make of one order.
Advances(old, new) ==
    \/ new = old
    \/ /\ old.status \notin Terminal
       /\ new.filled_quantity \in old.filled_quantity .. old.quantity
       /\ new = [old EXCEPT !.filled_quantity = new.filled_quantity,
                            !.status = new.status]
       /\ \/ /\ new.status = "Filled"
             /\ new.filled_quantity = old.quantity
          \/ /\ new.status = "Open"
             /\ new.filled_quantity < old.quantity
             /\ old.time_in_force = "GoodTilCanceled"
          \/ /\ new.status = "Expired"
             /\ new.filled_quantity = 0
             /\ old.status = "Pending"
             /\ old.time_in_force = "FillOrKill"

Gain(id) == orders'[id].filled_quantity - orders[id].filled_quantity

Of(b, side) == {id \in DOMAIN orders : id[1] = b /\ orders[id].side = side}

InTurn(b) ==
    \A i, j \in DOMAIN orders :
        /\ i[1] = b /\ j[1] = b /\ i[2] < j[2]
        /\ orders[i].status = "Pending" /\ orders[j].status = "Pending"
        /\ orders'[j].status # "Pending"
        => orders'[i].status # "Pending"

\* An open order gains only if every open order ahead of it is filled.
ByPriority(b) ==
    \A side \in {"Buy", "Sell"} : \A i, j \in Of(b, side) :
        /\ orders[i].status = "Open" /\ orders[j].status = "Open"
        /\ \/ Better(side, orders[i].price, orders[j].price)
           \/ orders[i].price = orders[j].price /\ i[2] < j[2]
        /\ Gain(j) > 0
        => orders'[i].status = "Filled"

NothingCrosses(b) ==
    \A i \in Of(b, "Buy"), j \in Of(b, "Sell") :
        orders'[i].status = "Open" /\ orders'[j].status = "Open"
        => orders[i].price < orders[j].price

Round(b) ==
    /\ DOMAIN orders' = DOMAIN orders
    /\ \A id \in DOMAIN orders : IF id[1] = b
                                 THEN Advances(orders[id], orders'[id])
                                 ELSE orders'[id] = orders[id]
    /\ MapThenSumSet(Gain, Of(b, "Buy")) = MapThenSumSet(Gain, Of(b, "Sell"))
    /\ InTurn(b)
    /\ ByPriority(b)
    /\ NothingCrosses(b)

Next == \/ \E id \in OrderIds \ DOMAIN orders : Place(id)
        \/ \E id \in DOMAIN orders : Cancel(id)
        \/ \E b \in Books : Round(b)

Spec == Init /\ [][Next]_orders

-----------------------------------------------------------------------------

SoundOrder(r) ==
    /\ r \in Order
    /\ r.filled_quantity \in 0 .. r.quantity
    /\ r.status = "Filled" <=> r.filled_quantity = r.quantity
    /\ r.status \in {"Pending", "Expired"} => r.filled_quantity = 0
    /\ r.time_in_force = "FillOrKill" =>
          /\ r.status # "Open"
          /\ r.filled_quantity \in {0, r.quantity}

\* The status of an order and its filled quantity agree: an order is Filled
\* when nothing is left, an order that was not matched has gained nothing, and
\* a fill-or-kill order has all of its quantity or none and is never Open.
Sound == \A id \in DOMAIN orders : SoundOrder(orders[id])

\* A filled, canceled or expired order never changes again, and no order is
\* ever forgotten: a late fill, a second cancel or a second refund of the same
\* order has no place in the lifecycle (validate_cancel_limit_order).
EndedForGood ==
    [][\A id \in DOMAIN orders :
         /\ id \in DOMAIN orders'
         /\ orders[id].status \in Terminal => orders'[id] = orders[id]]_orders

=============================================================================
