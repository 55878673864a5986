------------------------------ MODULE OrderBook ------------------------------
(***************************************************************************)
(* One order book: the pending queue, the two sides, the index of resting  *)
(* orders, and matching with price-time priority (order/book.rs, plan.rs,  *)
(* queue/mod.rs).  The operators are the methods of OrderBook: they take a *)
(* book and return the changed book together with what the method returns. *)
(*                                                                         *)
(* A side of the book is the sequence in which OrderQueue::iter visits it: *)
(* best price level first, oldest order of a level first.  A result's      *)
(* field bug says that an assertion or an expect of the method fails.      *)
(***************************************************************************)
EXTENDS Integers, Sequences, FiniteSets, SequencesExt

CONSTANT None            \* an absent Option

EmptyBook == [pending_orders |-> <<>>, bids |-> <<>>, asks |-> <<>>,
              resting_orders |-> {}, filled_orders |-> {},
              next_seq |-> 0, next_fill |-> 0]

\* The queue an order of this side rests in, and the one it matches with.
OwnQueue(side) == IF side = "Buy" THEN "bids" ELSE "asks"

MakerQueue(side) == IF side = "Buy" THEN "asks" ELSE "bids"

\* Faulty variant of Crosses: an equal price does not match.
CrossesStrictly(side, price, maker_price) ==
    IF side = "Buy" THEN maker_price < price ELSE maker_price > price

\* Faulty variant of Crosses: one tick beyond the limit is accepted.
CrossesBeyondLimit(side, price, maker_price) ==
    IF side = "Buy" THEN maker_price <= price + 1 ELSE maker_price >= price - 1

Crosses(side, price, maker_price) ==
    IF side = "Buy" THEN maker_price <= price ELSE maker_price >= price

\* Whether price p has at least the priority of q in a queue.
AtLeastAsGood(queue, p, q) == IF queue = "bids" THEN p >= q ELSE p <= q

-----------------------------------------------------------------------------
(* OrderQueue::push_back: behind every order of its own level and of the    *)
(* better levels.                                                           *)

\* Faulty variant of PushBack: a new order goes to the front of its level.
PushFront(book, name, o) ==
    LET ahead == {i \in DOMAIN book[name] :
                    /\ AtLeastAsGood(name, book[name][i].price, o.price)
                    /\ book[name][i].price # o.price}
    IN  InsertAt(book[name], Cardinality(ahead) + 1, o)

PushBack(book, name, o) ==
    LET ahead == {i \in DOMAIN book[name] :
                    AtLeastAsGood(name, book[name][i].price, o.price)}
    IN  InsertAt(book[name], Cardinality(ahead) + 1, o)

\* The index maps an order to its side and price.
insert_order(book, order) ==
    LET name == OwnQueue(order.side)
        resting == [id |-> order.id, price |-> order.price,
                    remaining_quantity |-> order.remaining_quantity,
                    time_in_force |-> order.time_in_force]
    IN  [book EXCEPT
           ![name] = PushBack(book, name, resting),
           !.resting_orders = @ \cup {[id |-> order.id, side |-> order.side,
                                       price |-> order.price]}]

\* add_pending_order.
add_pending_order(book, order) ==
    [book EXCEPT !.pending_orders = Append(@, order), !.next_seq = @ + 1]

-----------------------------------------------------------------------------
(* Planning: a read-only walk over the makers that cross.                   *)

add_fill(plan, maker) ==
    LET quantity == IF plan.taker_remaining < maker.remaining_quantity
                    THEN plan.taker_remaining ELSE maker.remaining_quantity
        left == plan.taker_remaining - quantity
        misplaced == plan.last_partial # None \/ maker.id = plan.taker_order
    IN  IF quantity = maker.remaining_quantity
        THEN [plan EXCEPT !.filled_makers = Append(@, maker.id),
                          !.taker_remaining = left,
                          !.bug = @ \/ misplaced]
        ELSE [plan EXCEPT !.last_partial = [id |-> maker.id,
                                            quantity |-> quantity],
                          !.taker_remaining = left,
                          !.bug = @ \/ misplaced \/ left # 0]

\* Faulty variant of plan_fills: the walk goes on when the taker is filled.
plan_fills_overrun(book, order) ==
    FoldLeft(LAMBDA plan, maker :
                 IF plan.done \/ ~Crosses(order.side, order.price, maker.price)
                 THEN [plan EXCEPT !.done = TRUE] ELSE add_fill(plan, maker),
             [taker_order |-> order.id, filled_makers |-> <<>>, last_partial |-> None,
              taker_remaining |-> order.remaining_quantity,
              done |-> FALSE, bug |-> FALSE],
             book[MakerQueue(order.side)])

plan_fills(book, order) ==
    LET visit(plan, maker) ==
            IF \/ plan.done
               \/ ~Crosses(order.side, order.price, maker.price)
               \/ plan.taker_remaining = 0
            THEN [plan EXCEPT !.done = TRUE]
            ELSE add_fill(plan, maker)
    IN  FoldLeft(visit,
                 [taker_order |-> order.id, filled_makers |-> <<>>,
                  last_partial |-> None, taker_remaining |-> order.remaining_quantity,
                  done |-> FALSE, bug |-> FALSE],
                 book[MakerQueue(order.side)])

\* Faulty variant of Kills: a partial fill saves the order.
KillsOnlyUnfilled(order, plan) ==
    /\ order.time_in_force = "FillOrKill"
    /\ plan.taker_remaining = order.remaining_quantity

\* FillPlanBuilder::build decides whether the plan may be executed.
Kills(order, plan) ==
    order.time_in_force = "FillOrKill" /\ plan.taker_remaining # 0

-----------------------------------------------------------------------------
(* Applying a plan.                                                         *)

FillOf(book, order, maker, quantity) ==
    [fill_seq |-> book.next_fill, taker_order_seq |-> order.id,
     taker_side |-> order.side, taker_price |-> order.price,
     maker_order_seq |-> maker.id, maker_price |-> maker.price,
     quantity |-> quantity]

\* pop_front and the bookkeeping of a maker that is filled completely.
FillMaker(run, maker_seq) ==
    LET name == MakerQueue(run.order.side)
        queue == run.book[name]
        maker == Head(queue)
        indexed == {e \in run.book.resting_orders : e.id = maker.id}
    IN  IF queue = <<>> \/ maker.id # maker_seq \/ indexed = {}
        THEN [run EXCEPT !.bug = TRUE]
        ELSE [run EXCEPT
                !.book = [@ EXCEPT ![name] = Tail(@),
                                   !.resting_orders = @ \ indexed,
                                   !.filled_orders = @ \cup {maker.id},
                                   !.next_fill = @ + 1],
                !.order.remaining_quantity = @ - maker.remaining_quantity,
                !.fills = Append(@, FillOf(run.book, run.order, maker,
                                           maker.remaining_quantity))]

\* front_mut and the last, partial fill.
FillPartially(run, partial) ==
    LET name == MakerQueue(run.order.side)
        queue == run.book[name]
        maker == Head(queue)
    IN  IF partial = None THEN run
        ELSE IF queue = <<>> \/ maker.id # partial.id
                \/ maker.remaining_quantity <= partial.quantity
        THEN [run EXCEPT !.bug = TRUE]
        ELSE [run EXCEPT
                !.book = [@ EXCEPT
                            ![name] = ReplaceAt(@, 1,
                               [maker EXCEPT !.remaining_quantity =
                                               @ - partial.quantity]),
                            !.next_fill = @ + 1],
                !.order.remaining_quantity = @ - partial.quantity,
                !.fills = Append(@, FillOf(run.book, run.order, maker,
                                           partial.quantity))]

\* The end of apply_plan: the remainder rests, or the taker is filled.
RestOrFill(run, plan, order) ==
    LET rests == run.order.remaining_quantity > 0
    IN  [book |-> IF rests THEN insert_order(run.book, run.order)
                  ELSE [run.book EXCEPT !.filled_orders = @ \cup {order.id}],
         fills |-> run.fills,
         resting |-> IF rests THEN {order.id} ELSE {},
         killed |-> {},
         bug |-> \/ run.bug \/ plan.bug \/ plan.taker_order # order.id
                 \/ run.order.remaining_quantity # plan.taker_remaining
                 \/ rests /\ order.id \in {e.id : e \in run.book.resting_orders}]

apply_plan(book, plan, order) ==
    LET start == [book |-> book, order |-> order, fills |-> <<>>, bug |-> FALSE]
        makers == FoldLeft(FillMaker, start, plan.filled_makers)
    IN  RestOrFill(FillPartially(makers, plan.last_partial), plan, order)

ExecuteOrKill(book, order, plan) ==
    IF Kills(order, plan)
    THEN [book |-> book, fills |-> <<>>, resting |-> {}, killed |-> {order},
          bug |-> plan.bug]
    ELSE apply_plan(book, plan, order)

match_order(book, order) == ExecuteOrKill(book, order, plan_fills(book, order))

-----------------------------------------------------------------------------
(* process_pending_orders: a chunk of the pending orders, one by one.       *)

Collect(out, result) ==
    [book |-> result.book,
     fills |-> out.fills \o result.fills,
     resting |-> out.resting \cup result.resting,
     expired |-> out.expired \cup result.killed,
     bug |-> out.bug \/ result.bug]

MatchNext(out, seq) ==
    LET pending == out.book.pending_orders
    IN  IF pending = <<>> \/ Head(pending).id # seq
        THEN [out EXCEPT !.bug = TRUE]
        ELSE Collect(out, match_order([out.book EXCEPT !.pending_orders = Tail(@)],
                                      Head(pending)))

\* An order that rests and is then filled within the same round is reported as
\* filled only; filled_orders is taken.
MatchingOutput(out) ==
    [book |-> [out.book EXCEPT !.filled_orders = {}],
     fills |-> out.fills,
     resting_orders |-> out.resting \ out.book.filled_orders,
     filled_orders |-> out.book.filled_orders,
     expired_orders |-> out.expired,
     bug |-> out.bug]

process_pending_orders(book, seqs) ==
    MatchingOutput(FoldLeft(MatchNext,
                            [book |-> book, fills |-> <<>>, resting |-> {},
                             expired |-> {}, bug |-> FALSE],
                            seqs))

-----------------------------------------------------------------------------

Without(queue, seq) == SelectSeq(queue, LAMBDA o : o.id # seq)

\* Faulty variant of remove_order: the index keeps a canceled resting order.
remove_order_keeping_index(book, seq) ==
    LET found(name) == {o \in ToSet(book[name]) : o.id = seq}
        name == CHOOSE q \in {"bids", "asks", "pending_orders"} : found(q) # {}
        o == CHOOSE o \in found(name) : TRUE
    IN  [book |-> [book EXCEPT ![name] = Without(@, seq)],
         removed |-> [id |-> seq, price |-> o.price,
                      remaining_quantity |-> o.remaining_quantity,
                      side |-> CASE name = "bids" -> "Buy"
                                 [] name = "asks" -> "Sell"
                                 [] OTHER -> o.side]]

\* remove_order: the resting orders first, through the index, then the
\* pending ones.  The order removed is None if the book has no such order.
remove_order(book, seq) ==
    LET entries == {e \in book.resting_orders : e.id = seq}
        entry == CHOOSE e \in entries : TRUE
        name == OwnQueue(entry.side)
        here == {i \in DOMAIN book[name] : /\ book[name][i].id = seq
                                           /\ book[name][i].price = entry.price}
        waiting == {i \in DOMAIN book.pending_orders :
                      book.pending_orders[i].id = seq}
    IN  CASE entries # {} ->
               [book |-> [book EXCEPT ![name] = Without(@, seq),
                                      !.resting_orders = @ \ entries],
                removed |-> IF here = {} THEN None
                            ELSE [id |-> seq, side |-> entry.side,
                                  price |-> entry.price, remaining_quantity |->
                                    book[name][CHOOSE i \in here : TRUE]
                                      .remaining_quantity]]
          [] entries = {} /\ waiting # {} ->
               [book |-> [book EXCEPT !.pending_orders = Without(@, seq)],
                removed |-> book.pending_orders[CHOOSE i \in waiting : TRUE]]
          [] OTHER -> [book |-> book, removed |-> None]

\* The asserts of the restore: an order rests once, and the orders of one price
\* on a side are one level.
SnapshotInvalid(book) ==
    LET resting == book.bids \o book.asks
    IN  \/ \E i, j \in DOMAIN resting : i < j /\ resting[i].id = resting[j].id
        \/ \E name \in {"bids", "asks"} : \E i, j, k \in DOMAIN book[name] :
             /\ i < j /\ j < k
             /\ book[name][i].price = book[name][k].price
             /\ book[name][j].price # book[name][i].price

\* A book restored from its snapshot: the index is rebuilt from both sides.
FromSnapshot(book) ==
    LET entries(name, side) ==
            {[id |-> book[name][i].id, side |-> side,
              price |-> book[name][i].price] : i \in DOMAIN book[name]}
    IN  [book EXCEPT !.resting_orders = entries("bids", "Buy")
                                        \cup entries("asks", "Sell")]

=============================================================================
