------------------------------- MODULE Paging --------------------------------
(***************************************************************************)
(* The order history, the trade history and the queries that page over     *)
(* them (order/history/mod.rs, order/trades/mod.rs, get_my_orders and      *)
(* get_my_trades), while orders are placed and matches are settled.        *)
(*                                                                         *)
(* Which orders match is the order book's business and is left open here:  *)
(* any two orders of a book may.  A client walks over one list page by     *)
(* page; each page is a message of its own, so the lists grow in between.  *)
(* placed and settled are ghosts: what was inserted, oldest first.         *)
(***************************************************************************)
EXTENDS History

CONSTANTS Users,        \* principals; a caller is its own funding account
          Books,        \* order books, numbered from 0
          Lengths,      \* the page lengths a client asks for
          MaxPerResponse,  \* MAX_ORDERS_PER_RESPONSE, MAX_TRADES_PER_RESPONSE
          MaxOrders, MaxFills,  \* bounds on the run
          OrderNotFound

ASSUME PagingAssumption ==
    /\ Books \subseteq Nat
    /\ Lengths \subseteq Nat \ {0}
    /\ MaxPerResponse \in Nat \ {0}
    /\ None \notin (Nat \X Nat) \cup ((Nat \X Nat) \X Nat)

VARIABLES registered,       \* user_registry
          order_history, trade_history,
          next_order_seq, next_fill_seq,   \* per book
          pending_settling_events,         \* matches not settled yet
          bug,                             \* an assert or expect has failed
          walk,                            \* the client
          placed, settled

store == <<registered, order_history, trade_history, next_order_seq,
           next_fill_seq, pending_settling_events, bug, placed, settled>>
vars == <<store, walk>>

\* OrderId is <<book, seq>> and TradeId is <<order id, fill seq>>.
Orders == DOMAIN order_history.primary
Trades == DOMAIN trade_history.primary

Owner(id) == get(order_history, id).owner

Init ==
    /\ registered = {}
    /\ order_history = Empty /\ trade_history = Empty
    /\ next_order_seq = [b \in Books |-> 0]
    /\ next_fill_seq = [b \in Books |-> 0]
    /\ pending_settling_events = <<>>
    /\ bug = FALSE
    /\ walk = None
    /\ placed = <<>> /\ settled = <<>>

-----------------------------------------------------------------------------
(* Writers.                                                                 *)

\* A deposit registers its caller.
Register(u) ==
    /\ registered' = registered \cup {u}
    /\ UNCHANGED <<order_history, trade_history, next_order_seq, next_fill_seq,
                   pending_settling_events, bug, placed, settled, walk>>

\* record_limit_order: a minted id, a record, the user's index.
AddLimitOrder(u, b) ==
    LET id == <<b, next_order_seq[b]>>
    IN  /\ u \in registered
        /\ Cardinality(Orders) < MaxOrders
        /\ next_order_seq' = [next_order_seq EXCEPT ![b] = @ + 1]
        /\ bug' = (bug \/ insert_panics(order_history, u, id))
        /\ order_history' = insert_once(order_history, u, id, [owner |-> u, fills |-> 0])
        /\ placed' = Append(placed, <<u, id>>)
        /\ UNCHANGED <<registered, trade_history, next_fill_seq,
                       pending_settling_events, settled, walk>>

\* apply_update: a changed record is written back.
apply_update(h, id) == modify(h, id, [get(h, id) EXCEPT !.fills = @ + 1])

\* record_matching_event: the book mints the sequence of the fill, the records
\* of both orders are updated and the fill is queued for settlement.
Match(taker, maker) ==
    LET b == taker[1]
    IN  /\ taker # maker /\ maker[1] = b
        /\ next_fill_seq[b] < MaxFills
        /\ order_history' = apply_update(apply_update(order_history, taker), maker)
        /\ next_fill_seq' = [next_fill_seq EXCEPT ![b] = @ + 1]
        /\ pending_settling_events' = Append(pending_settling_events,
               [taker |-> taker, maker |-> maker, fill_seq |-> next_fill_seq[b]])
        /\ UNCHANGED <<registered, trade_history, next_order_seq, bug, placed,
                       settled, walk>>

\* Faulty variant of append: the maker's leg is indexed under the taker.
append_one_user(h, taker_leg, taker_user, maker_leg, maker_user) ==
    insert_once(insert_once(h, taker_user, taker_leg, None),
                taker_user, maker_leg, None)

\* TradeHistory::append.  The record of a leg is left out.
append(h, taker_leg, taker_user, maker_leg, maker_user) ==
    insert_once(insert_once(h, taker_user, taker_leg, None),
                maker_user, maker_leg, None)

\* record_settling_event for one fill: its two legs are appended, each under
\* the owner that the record of its order names.  What settling does to the
\* balances is modelled elsewhere.
SettleFill(fill) ==
    LET taker_leg == <<fill.taker, fill.fill_seq>>
        maker_leg == <<fill.maker, fill.fill_seq>>
    IN  /\ trade_history' = append(trade_history, taker_leg, Owner(fill.taker),
                                   maker_leg, Owner(fill.maker))
        /\ bug' = (bug \/ fill.taker \notin Orders \/ fill.maker \notin Orders
                       \/ {taker_leg, maker_leg} \cap Trades # {}
                       \/ taker_leg = maker_leg)
        /\ settled' = Append(Append(settled, <<Owner(fill.taker), taker_leg>>),
                             <<Owner(fill.maker), maker_leg>>)
        /\ UNCHANGED <<registered, order_history, next_order_seq, next_fill_seq,
                       placed, walk>>

\* Faulty variant of Settle: the newest match first.
SettleNewest ==
    /\ pending_settling_events # <<>>
    /\ SettleFill(Last(pending_settling_events))
    /\ pending_settling_events' = Front(pending_settling_events)

\* drain_settling takes the oldest match.
Settle ==
    /\ pending_settling_events # <<>>
    /\ SettleFill(Head(pending_settling_events))
    /\ pending_settling_events' = Tail(pending_settling_events)

-----------------------------------------------------------------------------
(* Queries.                                                                 *)

\* State::get_user_orders and orders_after.
get_user_orders(u, after, length) ==
    IF u \in registered THEN page_by_user(order_history, u, after, length)
    ELSE IF after # None THEN CursorNotFound ELSE <<>>

\* State::get_user_order: one order, or None if it is not the caller's.
get_user_order(u, id) ==
    IF id \in Orders /\ Owner(id) = u THEN id ELSE None

\* Faulty variant of trades_for_order: the cursor itself is listed again.
trades_for_order_included(order, after, length) ==
    LET own == {id \in Trades : id[1] = order /\ (after # None => id[2] <= after[2])}
    IN  IF after # None /\ (after[1] # order \/ after \notin Trades) THEN CursorNotFound
        ELSE take(SetToSortSeq(own, LAMBDA a, b : a[2] > b[2]), length)

\* A scan of the primary map over the prefix of the order, by fill sequence.
trades_for_order(order, after, length) ==
    LET own == {id \in Trades : id[1] = order /\ (after # None => id[2] < after[2])}
    IN  IF after # None /\ (after[1] # order \/ after \notin Trades) THEN CursorNotFound
        ELSE take(SetToSortSeq(own, LAMBDA a, b : a[2] > b[2]), length)

get_user_order_trades(u, order, after, length) ==
    IF get_user_order(u, order) = None THEN OrderNotFound
    ELSE trades_for_order(order, after, length)

\* trades_after for a registered user; anyone else gets an empty list.
get_user_trades(u, after, length) ==
    IF u \in registered THEN page_by_user(trade_history, u, after, length) ELSE <<>>

Capped(length) == IF length < MaxPerResponse THEN length ELSE MaxPerResponse

\* One order by its id, or a page (by_id is None).  An unknown cursor is an
\* error for orders and an empty page for trades.
get_my_orders(u, by_id, after, length) ==
    LET page == get_user_orders(u, after, Capped(length))
    IN  IF by_id # None
        THEN IF get_user_order(u, by_id) = None THEN OrderNotFound ELSE <<by_id>>
        ELSE IF page = CursorNotFound THEN OrderNotFound ELSE page

get_my_trades(u, filter, after, length) ==
    LET page == IF filter = None THEN get_user_trades(u, after, Capped(length))
                ELSE get_user_order_trades(u, filter, after, Capped(length))
    IN  IF page = CursorNotFound THEN <<>> ELSE page

-----------------------------------------------------------------------------
(* A client that walks over its orders, its trades or one order's trades,   *)
(* passing the last id of a page as the cursor of the next one.             *)

OwnIn(log, u) == LET own == SelectSeq(log, LAMBDA entry : entry[1] = u)
                 IN  [i \in 1 .. Len(own) |-> own[Len(own) + 1 - i][2]]

\* What the client should see: its records as they are now, newest first.
Listing(u, of, filter) ==
    IF of = "orders" THEN OwnIn(placed, u)
    ELSE SelectSeq(OwnIn(settled, u), LAMBDA id : filter = None \/ id[1] = filter)

Served(w, length) ==
    LET page == IF w.of = "orders" THEN get_my_orders(w.user, None, w.after, length)
                ELSE get_my_trades(w.user, w.filter, w.after, length)
    IN  IF page \in {<<>>, OrderNotFound} THEN [w EXCEPT !.done = TRUE]
        ELSE [w EXCEPT !.listed = @ \o page, !.after = Last(page)]

\* The first page, from the newest record on.
StartWalk(u, of, filter, length) ==
    /\ walk = None
    /\ walk' = Served([user |-> u, of |-> of, filter |-> filter, after |-> None,
                       listed |-> <<>>, start |-> Listing(u, of, filter),
                       done |-> FALSE], length)
    /\ UNCHANGED store

NextPage(length) ==
    /\ walk # None /\ ~ walk.done
    /\ walk' = Served(walk, length)
    /\ UNCHANGED store

EndWalk == /\ walk # None /\ walk.done
           /\ walk' = None
           /\ UNCHANGED store

Next ==
    \/ \E u \in Users : Register(u)
    \/ \E u \in Users, b \in Books : AddLimitOrder(u, b)
    \/ \E taker \in Orders, maker \in Orders : Match(taker, maker)
    \/ Settle
    \/ \E u \in Users, length \in Lengths : StartWalk(u, "orders", None, length)
    \/ \E u \in Users, filter \in Orders \cup {None}, length \in Lengths :
         StartWalk(u, "trades", filter, length)
    \/ \E length \in Lengths : NextPage(length)
    \/ EndWalk

Spec == Init /\ [][Next]_vars

-----------------------------------------------------------------------------
(* Properties.                                                              *)

\* A store holds what was inserted: dense sequences, every record indexed once,
\* under its owner.
Lockstep(h, log) ==
    /\ DOMAIN h.primary = {log[i][2] : i \in DOMAIN log}
    /\ len(h) = Len(log)
    /\ DOMAIN h.by_user = {<<log[i][1], i - 1>> : i \in DOMAIN log}
    /\ \A i \in DOMAIN log :
         /\ h.primary[log[i][2]].seq = i - 1
         /\ h.by_user[<<log[i][1], i - 1>>] = log[i][2]

\* The two maps of a store are "kept in lockstep by insert_once" (history/mod.rs)
\* and no assert of it fails, although ids are minted in one message and used
\* in another.
IndexInLockstep ==
    /\ ~ bug
    /\ Lockstep(order_history, placed)
    /\ Lockstep(trade_history, settled)

\* A walk lists exactly the records that existed when its first page was
\* served, newest first, none twice and none left out, however many records are
\* inserted, updated and settled between its pages (page_by_user,
\* trades_for_order, get_my_orders, get_my_trades).
WalkIsExact ==
    walk # None => /\ IsPrefix(walk.listed, walk.start)
                   /\ walk.done => walk.listed = walk.start

\* An id is good for its owner and nobody else: as a cursor, an id of another
\* user, the counterparty's leg of the same match included, or of another order
\* is refused and never starts a scan from a foreign position; and an order
\* looked up by its id is found exactly when the account's list holds it.
CursorsAreOwn ==
    \A u \in Users :
        /\ \A id \in Orders :
             LET own == <<u, id>> \in ToSet(placed)
             IN  /\ get_user_orders(u, id, 1) = CursorNotFound <=> ~ own
                 /\ get_my_orders(u, id, None, 1)
                      = IF own THEN <<id>> ELSE OrderNotFound
        /\ u \in registered =>
             \A id \in Trades :
                get_user_trades(u, id, 1) = CursorNotFound
                  <=> <<u, id>> \notin ToSet(settled)
        /\ \A order \in Orders, id \in Trades :
             LET page == get_user_order_trades(u, order, id, 1)
             IN  IF Owner(order) # u THEN page = OrderNotFound
                 ELSE page = CursorNotFound <=> id[1] # order

\* The trades of an order, found by fill sequence in the primary map, are those
\* of the account's list, found by insertion sequence in the index, in the same
\* order: fills are settled in the order in which the book minted them.
OrderTradesAgree ==
    \A id \in Orders :
        trades_for_order(id, None, 2 * MaxFills)
          = SelectSeq(Listing(Owner(id), "trades", None), LAMBDA trade : trade[1] = id)

=============================================================================
