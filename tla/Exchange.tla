------------------------------ MODULE Exchange -------------------------------
(***************************************************************************)
(* Trading: limit orders are placed and canceled, the executor matches the *)
(* pending orders of every book in chunks and settles the fills against    *)
(* the users' balances (lib.rs, state/mod.rs, execute/mod.rs, balance/).   *)
(*                                                                         *)
(* A message of the canister runs to its end before the next one starts.   *)
(* run_once is one message; it is modelled as several steps, with every    *)
(* other action disabled until it returns, because the instruction budget  *)
(* may end it at each of its checks.  What it leaves behind then is the    *)
(* backlog pending_settling_events, which later messages find.             *)
(*                                                                         *)
(* Deposits and withdrawals are the subject of module Funding; here every  *)
(* user starts with the funds deposited before.                            *)
(***************************************************************************)
EXTENDS OrderBook, Settlement

CONSTANTS Users,         \* funding accounts with a balance
          Tokens,
          Books,         \* order book ids, naturals
          PairOf,        \* PairOf[b]: the book's tokens, [base, quote]
          BaseScale,     \* BaseScale[b] = 10^decimals of the base token
          TickSize, LotSize,
          MinNotional, MaxNotional,   \* MaxNotional[b] may be None
          FeeRates,      \* FeeRates[b] = [maker, taker]
          Funds,         \* Funds[u][t]: what the user has deposited
          MaxQuantity,   \* the largest Quantity (2^256 - 1 in the code)
          Prices, Quantities, TimesInForce,     \* what an order may ask for
          MaxOrders,     \* bound on the orders of a book
          HaltRequests,  \* what the controller may halt or resume: None for
                         \* all trading, or a set of books
          Policies       \* execution policies an upgrade may set

VARIABLES
    order_books,             \* book id -> OrderBook
    balances,                \* user -> token -> [free, reserved]
    fee_pool,                \* token -> fees withheld
    order_history,           \* order id -> OrderRecord
    trade_history,           \* set of trade legs
    pending_settling_events, \* matched, not yet settled
    permissions,             \* [trading_halted, halted_pairs]
    execution_policy,
    executor,                \* where run_once stands
    bug                      \* some assertion or expect has failed

vars == <<order_books, balances, fee_pool, order_history, trade_history,
          pending_settling_events, permissions, execution_policy, executor, bug>>

OrderIds == Books \X (0 .. MaxOrders - 1)

\* The conditions under which add_trading_pair lists a pair.
Listable(b) ==
    /\ PairOf[b].base # PairOf[b].quote
    /\ TickSize[b] \in Nat \ {0}
    /\ LotSize[b] \in Nat \ {0}
    /\ FeeRates[b].maker \in BasisPoint
    /\ FeeRates[b].taker \in BasisPoint
    /\ MinNotional[b] \in Nat \ {0}
    /\ MaxNotional[b] # None => MaxNotional[b] >= MinNotional[b]
    /\ BaseScale[b] \in Nat \ {0}
    /\ (TickSize[b] * LotSize[b]) % BaseScale[b] = 0

ASSUME PairsAreExact == \A b \in Books : Listable(b)

Idle == [pc |-> "idle", order_budget |-> 0, books |-> <<>>]

Init ==
    /\ order_books = [b \in Books |-> EmptyBook]
    /\ balances = [u \in Users |-> [t \in Tokens |->
                      [free |-> Funds[u][t], reserved |-> 0]]]
    /\ fee_pool = [t \in Tokens |-> 0]
    /\ order_history = << >>
    /\ trade_history = {}
    /\ pending_settling_events = <<>>
    /\ permissions = [trading_halted |-> FALSE, halted_pairs |-> {}]
    /\ execution_policy \in Policies
    /\ executor = Idle
    /\ bug = FALSE

is_halted(b) == permissions.trading_halted \/ b \in permissions.halted_pairs

\* PairToken resolved by a book's pair.
TokenOf(b, pair_token) ==
    IF pair_token = "Base" THEN PairOf[b].base ELSE PairOf[b].quote

\* The token and amount an order reserves.
Reservation(b, side, price, quantity) ==
    IF side = "Buy"
    THEN [token |-> PairOf[b].quote,
          amount |-> Notional(price, quantity, BaseScale[b])]
    ELSE [token |-> PairOf[b].base, amount |-> quantity]

-----------------------------------------------------------------------------
(* The balance operations of a settling event, one after the other.  A      *)
(* ledger is [balances, fee_pool, bug].                                     *)

Owner(b, seq) == order_history[<<b, seq>>].owner

\* Faulty variant of TransferReserved: the fee is taken but not withheld.
TransferReservedGross(ledger, debtor, creditor, token, gross, fee) ==
    LET debited == [ledger.balances EXCEPT ![debtor][token].reserved = @ - gross]
    IN  [balances |-> [debited EXCEPT ![creditor][token].free = @ + gross],
         fee_pool |-> [ledger.fee_pool EXCEPT ![token] = @ + fee],
         bug |-> ledger.bug]

\* BalanceWriteBack::transfer: the fee is withheld from the gross amount.
TransferReserved(ledger, debtor, creditor, token, gross, fee) ==
    LET net == gross - fee
        debited == [ledger.balances EXCEPT ![debtor][token].reserved = @ - gross]
        credited == [debited EXCEPT ![creditor][token].free = @ + net]
    IN  [balances |-> credited,
         fee_pool |-> [ledger.fee_pool EXCEPT ![token] = @ + fee],
         bug |-> \/ ledger.bug \/ fee > gross
                 \/ ledger.balances[debtor][token].reserved < gross
                 \/ credited[creditor][token].free > MaxQuantity]

\* Balance::unreserve.
UnreserveBalance(ledger, user, token, amount) ==
    LET was == ledger.balances[user][token]
    IN  [ledger EXCEPT
           !.balances[user][token] = [free |-> was.free + amount,
                                      reserved |-> was.reserved - amount],
           !.bug = @ \/ was.reserved < amount \/ was.free + amount > MaxQuantity]

ApplyOperations(ledger, b, ops) ==
    LET apply(l, op) ==
            LET token == TokenOf(b, op.token)
            IN  IF op.op = "Transfer"
                THEN TransferReserved(l, Owner(b, op.from_order), Owner(b, op.to_order),
                                      token, op.amount, op.fee)
                ELSE UnreserveBalance(l, Owner(b, op.order), token, op.amount)
    IN  FoldLeft(apply, ledger, ops)

\* resolve_op_orders: the orders a settling event's operations refer to.
ResolvedSeqs(ops) ==
    UNION {IF ops[i].op = "Transfer" THEN {ops[i].from_order, ops[i].to_order}
           ELSE {ops[i].order} : i \in DOMAIN ops}

\* Faulty variant of LegsOf: the legs carry the taker's limit price.
LegsOfTakerPrice(event) ==
    LET b == event.book_id
        taker(fill) == order_history[<<b, fill.taker_order_seq>>]
        legs(fill) == trade_legs(fill, taker(fill).side, taker(fill).price,
                                 BaseScale[b])
    IN  UNION {{[book |-> b] @@ leg : leg \in legs(event.fills[i])} :
                 i \in DOMAIN event.fills}

\* The legs a settling event adds to the trade history.
LegsOf(event) ==
    LET b == event.book_id
        legs(fill) ==
            trade_legs(fill, order_history[<<b, fill.taker_order_seq>>].side,
                       order_history[<<b, fill.maker_order_seq>>].price,
                       BaseScale[b])
    IN  UNION {{[book |-> b] @@ leg : leg \in legs(event.fills[i])} :
                 i \in DOMAIN event.fills}

TradeId(leg) == <<leg.book, leg.seq, leg.fill_seq>>

\* record_settling_event.
record_settling_event(event) ==
    LET b == event.book_id
        ops == event.balance_operations
        resolved == ResolvedSeqs(ops)
        known == \A seq \in resolved : <<b, seq>> \in DOMAIN order_history
        covered == \A i \in DOMAIN event.fills :
                      {event.fills[i].taker_order_seq,
                       event.fills[i].maker_order_seq} \subseteq resolved
        legs == LegsOf(event)
        after == ApplyOperations([balances |-> balances, fee_pool |-> fee_pool,
                                  bug |-> FALSE], b, ops)
    IN  IF known /\ covered
        THEN /\ balances' = after.balances
             /\ fee_pool' = after.fee_pool
             /\ trade_history' = trade_history \cup legs
             /\ bug' = (\/ bug \/ after.bug
                        \/ \E leg \in legs, old \in trade_history :
                             TradeId(leg) = TradeId(old)
                        \/ Cardinality({TradeId(leg) : leg \in legs})
                             # 2 * Len(event.fills))
        ELSE /\ bug' = TRUE
             /\ UNCHANGED <<balances, fee_pool, trade_history>>

-----------------------------------------------------------------------------
(* Placing and canceling.                                                   *)

\* OrderBook::validate_order.
validate_order(b, order) ==
    /\ order.price > 0 /\ order.price % TickSize[b] = 0
    /\ order.remaining_quantity > 0
    /\ order.remaining_quantity % LotSize[b] = 0

\* validate_limit_order: the book's check, the 256-bit product, check_notional
\* and the free balance.
validate_limit_order(u, b, order) ==
    LET product == order.price * order.remaining_quantity
        notional == Notional(order.price, order.remaining_quantity, BaseScale[b])
        need == Reservation(b, order.side, order.price, order.remaining_quantity)
    IN  /\ validate_order(b, order)
        /\ product <= MaxQuantity
        /\ notional >= MinNotional[b]
        /\ MaxNotional[b] # None => notional <= MaxNotional[b]
        /\ balances[u][need.token].free >= need.amount

\* record_limit_order: reserve, insert the record, queue the order.
record_limit_order(u, b, order) ==
    LET need == Reservation(b, order.side, order.price, order.remaining_quantity)
        id == <<b, order.id>>
    IN  /\ balances' = [balances EXCEPT ![u][need.token] =
                          [free |-> @.free - need.amount,
                           reserved |-> @.reserved + need.amount]]
        /\ order_history' = order_history @@ (id :>
              [owner |-> u, side |-> order.side, price |-> order.price,
               quantity |-> order.remaining_quantity,
               time_in_force |-> order.time_in_force, status |-> "Pending",
               filled_quantity |-> 0, filled_quote |-> 0, filled_fee |-> 0])
        /\ order_books' = [order_books EXCEPT ![b] = add_pending_order(@, order)]
        /\ bug' = (\/ bug \/ id \in DOMAIN order_history
                   \/ balances[u][need.token].free < need.amount
                   \/ ~Exact(order.price, order.remaining_quantity, BaseScale[b])
                   \/ balances'[u][need.token].reserved > MaxQuantity)

AddLimitOrder(u, b, side, price, quantity, tif) ==
    LET order == [id |-> order_books[b].next_seq, side |-> side, price |-> price,
                  remaining_quantity |-> quantity, time_in_force |-> tif]
    IN  /\ executor = Idle
        /\ order_books[b].next_seq < MaxOrders
        /\ validate_limit_order(u, b, order)
        /\ ~is_halted(b)
        /\ record_limit_order(u, b, order)
        /\ UNCHANGED <<fee_pool, trade_history, pending_settling_events,
                       permissions, execution_policy, executor>>

\* OrderUpdate::apply.
ApplyUpdate(record, update) ==
    [record EXCEPT !.status = IF update.status = "Unchanged" THEN @
                              ELSE update.status,
                   !.filled_quantity = @ + update.filled_delta,
                   !.filled_quote = @ + update.quote_delta,
                   !.filled_fee = @ + update.fee_delta]

\* validate_cancel_limit_order.
Cancelable(u, id) ==
    /\ id \in DOMAIN order_history
    /\ order_history[id].owner = u
    /\ order_history[id].status \in {"Pending", "Open"}

\* cancel_limit_order: the order leaves its book, its record becomes Canceled
\* and its refund is settled at once, ahead of the backlog it would join.
CancelLimitOrder(u, id) ==
    LET b == id[1]
        result == remove_order(order_books[b], id[2])
        removed == result.removed
        refund == ApplyOperations([balances |-> balances, fee_pool |-> fee_pool,
                                   bug |-> FALSE],
                                  b, RemovedOrderOps(removed, BaseScale[b]))
    IN  /\ executor = Idle
        /\ Cancelable(u, id)
        /\ IF removed = None
           THEN /\ bug' = TRUE
                /\ UNCHANGED <<order_books, order_history, balances>>
           ELSE /\ order_books' = [order_books EXCEPT ![b] = result.book]
                /\ order_history' = [order_history EXCEPT ![id].status = "Canceled"]
                /\ balances' = refund.balances
                /\ bug' = (\/ bug \/ refund.bug
                           \/ ~RemovedOrderExact(removed, BaseScale[b]))
        /\ UNCHANGED <<fee_pool, trade_history, pending_settling_events,
                       permissions, execution_policy, executor>>

-----------------------------------------------------------------------------
(* Executor::run_once.  It starts with the settling events left over, goes  *)
(* through the books, and settles each book's round before the next one.    *)

\* Books with pending orders, the fullest first, then by id.
books_by_pending_order_count_desc ==
    LET count(b) == Len(order_books[b].pending_orders)
    IN  SetToSortSeq({b \in Books : count(b) > 0},
                     LAMBDA x, y : \/ count(x) > count(y)
                                   \/ count(x) = count(y) /\ x < y)

\* Faulty variant of RunOnce: a global halt also stops the settling.
RunOnceGatedByHalt ==
    /\ executor = Idle
    /\ ~permissions.trading_halted
    /\ executor' = [pc |-> "drain", books |-> <<>>,
                    order_budget |-> execution_policy.max_orders_per_chunk]
    /\ UNCHANGED <<order_books, balances, fee_pool, order_history, trade_history,
                   pending_settling_events, permissions, execution_policy, bug>>

RunOnce ==
    /\ executor = Idle
    /\ executor' = [pc |-> "drain", books |-> <<>>,
                    order_budget |-> execution_policy.max_orders_per_chunk]
    /\ UNCHANGED <<order_books, balances, fee_pool, order_history, trade_history,
                   pending_settling_events, permissions, execution_policy, bug>>

TakeNextEvent ==
    /\ executor.pc \in {"drain", "settle"}
    /\ pending_settling_events # <<>>
    /\ pending_settling_events' = Tail(pending_settling_events)

\* One turn of drain_settling.
SettleNext ==
    /\ TakeNextEvent
    /\ record_settling_event(Head(pending_settling_events))
    /\ UNCHANGED <<order_books, order_history, permissions, execution_policy,
                   executor>>

\* The backlog is drained: list the books, or go on with the list.
Drained ==
    /\ executor.pc \in {"drain", "settle"}
    /\ pending_settling_events = <<>>
    /\ executor' = [executor EXCEPT
                      !.pc = "match",
                      !.books = IF executor.pc = "drain"
                                THEN books_by_pending_order_count_desc ELSE @]
    /\ UNCHANGED <<order_books, balances, fee_pool, order_history, trade_history,
                   pending_settling_events, permissions, execution_policy, bug>>

\* record_matching_event.  match_order validates every order once more.
record_matching_event(b, seqs) ==
    \E output \in {process_pending_orders(order_books[b], seqs)} :
    \E settlement \in {from_matching(output, FeeRates[b], BaseScale[b],
                          execution_policy.max_settlement_units_per_event)} :
        LET updates == settlement.order_updates
            batches == settlement.settling_batches
            touched == {<<b, seq>> : seq \in DOMAIN updates}
        IN  /\ order_books' = [order_books EXCEPT ![b] = output.book]
            /\ order_history' = [id \in DOMAIN order_history |->
                  IF id \in touched
                  THEN ApplyUpdate(order_history[id], updates[id[2]])
                  ELSE order_history[id]]
            /\ pending_settling_events' = pending_settling_events \o
                  [i \in DOMAIN batches |-> [book_id |-> b] @@ batches[i]]
            /\ bug' = (\/ bug \/ output.bug \/ settlement.bug
                       \/ \E i \in DOMAIN seqs :
                            ~validate_order(b, order_books[b].pending_orders[i])
                       \/ ~(touched \subseteq DOMAIN order_history)
                       \/ \E id \in DOMAIN order_history :
                            order_history'[id].filled_quantity
                              > order_history[id].quantity)

ChunkSize(b) ==
    LET pending == Len(order_books[b].pending_orders)
    IN  IF pending < executor.order_budget THEN pending ELSE executor.order_budget

\* The next book of the list, unless it is halted or the chunk is used up.
TakeNextBook ==
    /\ executor.pc = "match"
    /\ executor.books # <<>>
    /\ executor.order_budget > 0
    /\ ~is_halted(Head(executor.books))
    /\ executor' = [pc |-> "settle", books |-> Tail(executor.books),
                    order_budget |-> executor.order_budget
                                     - ChunkSize(Head(executor.books))]

MatchBook ==
    LET b == Head(executor.books)
    IN  /\ TakeNextBook
        /\ record_matching_event(b, [i \in 1 .. ChunkSize(b) |->
                                       order_books[b].pending_orders[i].id])
        /\ UNCHANGED <<balances, fee_pool, trade_history, permissions,
                       execution_policy>>

\* Faulty variant of SkipHaltedBook: the run ends at a halted book.
StopAtHaltedBook ==
    /\ executor.pc = "match"
    /\ executor.books # <<>>
    /\ executor.order_budget > 0
    /\ is_halted(Head(executor.books))
    /\ executor' = Idle
    /\ UNCHANGED <<order_books, balances, fee_pool, order_history, trade_history,
                   pending_settling_events, permissions, execution_policy, bug>>

SkipHaltedBook ==
    /\ executor.pc = "match"
    /\ executor.books # <<>>
    /\ executor.order_budget > 0
    /\ is_halted(Head(executor.books))
    /\ executor' = [executor EXCEPT !.books = Tail(@)]
    /\ UNCHANGED <<order_books, balances, fee_pool, order_history, trade_history,
                   pending_settling_events, permissions, execution_policy, bug>>

\* run_once returns: no book is left, or the chunk is used up.
RunComplete ==
    /\ executor.pc = "match"
    /\ executor.books = <<>> \/ executor.order_budget = 0
    /\ executor' = Idle
    /\ UNCHANGED <<order_books, balances, fee_pool, order_history, trade_history,
                   pending_settling_events, permissions, execution_policy, bug>>

\* run_once returns because a check finds the instruction budget spent.
BudgetSpent ==
    /\ executor # Idle
    /\ executor' = Idle
    /\ UNCHANGED <<order_books, balances, fee_pool, order_history, trade_history,
                   pending_settling_events, permissions, execution_policy, bug>>

-----------------------------------------------------------------------------
(* The controller.                                                          *)

\* halt_trading and resume_trading; a global resume lifts the halts of pairs.
SetHalt(pairs, halted) ==
    /\ executor = Idle
    /\ permissions' =
         CASE pairs = None /\ halted ->
                [permissions EXCEPT !.trading_halted = TRUE]
           [] pairs = None /\ ~halted ->
                [trading_halted |-> FALSE, halted_pairs |-> {}]
           [] pairs # None /\ halted ->
                [permissions EXCEPT !.halted_pairs = @ \cup pairs]
           [] OTHER -> [permissions EXCEPT !.halted_pairs = @ \ pairs]
    /\ UNCHANGED <<order_books, balances, fee_pool, order_history, trade_history,
                   pending_settling_events, execution_policy, executor, bug>>

\* pre_upgrade and post_upgrade: the books go through their snapshots, and the
\* upgrade argument may set another execution policy.
Upgrade(policy) ==
    /\ executor = Idle
    /\ order_books' = [b \in Books |-> FromSnapshot(order_books[b])]
    /\ bug' = (bug \/ \E b \in Books : SnapshotInvalid(order_books[b]))
    /\ execution_policy' = policy
    /\ UNCHANGED <<balances, fee_pool, order_history, trade_history,
                   pending_settling_events, permissions, executor>>

-----------------------------------------------------------------------------

Place == \E u \in Users, b \in Books, side \in {"Buy", "Sell"},
            price \in Prices, quantity \in Quantities, tif \in TimesInForce :
            AddLimitOrder(u, b, side, price, quantity, tif)

Cancel == \E u \in Users : \E id \in DOMAIN order_history : CancelLimitOrder(u, id)

Execute == \/ RunOnce \/ SettleNext \/ Drained \/ MatchBook
           \/ SkipHaltedBook \/ RunComplete \/ BudgetSpent

Administer == \/ \E pairs \in HaltRequests, halted \in BOOLEAN :
                    SetHalt(pairs, halted)
              \/ \E policy \in Policies : Upgrade(policy)

Next == Place \/ Cancel \/ Execute \/ Administer

Spec == Init /\ [][Next]_vars

\* The interval timer starts run_once again and again, also after an upgrade.
\* A message starts with its instruction counter near zero, so the budget
\* cannot be spent at the first check of every run: each kind of step is taken
\* if run after run reaches it.  (A step that takes the next event is a
\* SettleNext step, one that takes the next book is a MatchBook step.)
Fairness ==
    /\ WF_executor(RunOnce) /\ WF_executor(RunComplete)
    /\ SF_pending_settling_events(TakeNextEvent) /\ SF_executor(Drained)
    /\ SF_executor(TakeNextBook) /\ SF_executor(SkipHaltedBook)

FairSpec == Spec /\ Fairness

-----------------------------------------------------------------------------
(* Properties.                                                              *)

Live(id) == order_history[id].status \in {"Pending", "Open"}

Remaining(id) == order_history[id].quantity - order_history[id].filled_quantity

BookOrders(b) == {id \in DOMAIN order_history : id[1] = b}

\* No "BUG" panic is reachable: no reserved balance is overdrawn by a transfer
\* or a refund (balance/mod.rs), no fee exceeds its amount (fee_pool.rs), no
\* plan diverges from the book when it is applied (book.rs), no amount is
\* inexact (order/mod.rs), no order or trade is recorded twice, none is filled
\* beyond its quantity (history), and every order a settling event or a cancel
\* refers to is there.
NoBug == ~bug

\* What an operation of the backlog will still take from a user's reservation.
Debit(b, op, u, t) ==
    LET order == IF op.op = "Transfer" THEN op.from_order ELSE op.order
    IN  IF Owner(b, order) = u /\ TokenOf(b, op.token) = t THEN op.amount ELSE 0

EventDebit(event, u, t) ==
    MapThenSumSet(LAMBDA i : Debit(event.book_id, event.balance_operations[i],
                                   u, t),
                  DOMAIN event.balance_operations)

OrderClaim(id, u, t) ==
    LET r == order_history[id]
        need == Reservation(id[1], r.side, r.price, Remaining(id))
    IN  IF r.owner = u /\ Live(id) /\ need.token = t THEN need.amount ELSE 0

\* A user's reserved balance is exactly what the remaining quantities of the
\* user's live orders need plus what matched but unsettled fills and refunds
\* will take: matching and settling are apart, a cancel overtakes the backlog,
\* and still nothing is reserved twice, released twice or left reserved when
\* the order is gone (record_limit_order, record_cancel_limit_order,
\* FillSettlement::balance_operations).
ReservationsExact ==
    \A u \in Users, t \in Tokens :
        balances[u][t].reserved =
            MapThenSumSet(LAMBDA id : OrderClaim(id, u, t), DOMAIN order_history)
            + MapThenSumSet(LAMBDA i : EventDebit(pending_settling_events[i], u, t),
                            DOMAIN pending_settling_events)

\* The order records tell where an order is: a Pending order waits in its
\* book's queue, an Open one rests on its side with the quantity that is not
\* filled and is in the index (record_matching_event updates the records, the
\* matcher moves the orders), and an order of any other status is nowhere in
\* the book.  A fill-or-kill order never rests and is never partly filled.
HistoryMatchesBook ==
    \A b \in Books :
        LET book == order_books[b]
            waiting == {[id |-> <<b, o.id>>, left |-> o.remaining_quantity] :
                          o \in ToSet(book.pending_orders)}
            resting(name) == {[id |-> <<b, o.id>>, left |-> o.remaining_quantity,
                               price |-> o.price] : o \in ToSet(book[name])}
            having(status) == {id \in BookOrders(b) :
                                 order_history[id].status = status}
            open(side) == {[id |-> id, left |-> Remaining(id),
                            price |-> order_history[id].price] :
                             id \in {i \in having("Open") :
                                       order_history[i].side = side}}
        IN  /\ waiting = {[id |-> id, left |-> order_history[id].quantity] :
                            id \in having("Pending")}
            /\ resting("bids") = open("Buy")
            /\ resting("asks") = open("Sell")
            /\ book.resting_orders =
                 {[id |-> id[2], side |-> order_history[id].side,
                   price |-> order_history[id].price] : id \in having("Open")}
            /\ \A id \in BookOrders(b) :
                 /\ order_history[id].status = "Filled" <=> Remaining(id) = 0
                 /\ order_history[id].status \in {"Pending", "Expired"} =>
                        order_history[id].filled_quantity = 0
                 /\ order_history[id].time_in_force = "FillOrKill" =>
                        order_history[id].filled_quantity \in
                            {0, order_history[id].quantity}
                        /\ order_history[id].status # "Open"

LegsFor(id) == {leg \in trade_history : <<leg.book, leg.seq>> = id}

\* The fills of the backlog that concern an order, as the trade legs they
\* will become.
UnsettledLegs(id) ==
    {leg \in UNION {LegsOf(pending_settling_events[i]) :
                      i \in DOMAIN pending_settling_events} :
       <<leg.book, leg.seq>> = id}

\* The trade history and the order records tell the same story: the legs of an
\* order, those still to come from the backlog included, add up to the filled
\* quantity, quote amount and fee of its record, although the legs are rebuilt
\* at settling time from the order records and the record was updated at
\* matching time (FillEvent::trade_legs, accrue_fill).  Every fill sequence
\* number of a book has one taker leg and one maker leg.
TradesMatchRecords ==
    /\ \A id \in DOMAIN order_history :
        LET legs == LegsFor(id) \cup UnsettledLegs(id)
            r == order_history[id]
        IN  /\ MapThenSumSet(LAMBDA l : l.quantity, legs) = r.filled_quantity
            /\ MapThenSumSet(LAMBDA l : l.notional, legs) = r.filled_quote
            /\ MapThenSumSet(LAMBDA l : l.fee, legs) = r.filled_fee
    /\ \A b \in Books : \A n \in 0 .. order_books[b].next_fill - 1 :
        LET legs == {leg \in UNION {LegsFor(id) \cup UnsettledLegs(id) :
                                      id \in BookOrders(b)} : leg.fill_seq = n}
        IN  {<<leg.side, leg.is_maker>> : leg \in legs} \in
               {{<<"Buy", TRUE>>, <<"Sell", FALSE>>},
                {<<"Buy", FALSE>>, <<"Sell", TRUE>>}}

\* The fees withheld in a token are those of the settled trades: the balance
\* operations are computed when the order is matched, the legs when it is
\* settled, and the two never diverge (settlement/mod.rs, fees).
FeesAccounted ==
    \A t \in Tokens :
        fee_pool[t] = MapThenSumSet(
            LAMBDA l : IF TokenOf(l.book, IF l.side = "Buy" THEN "Base"
                                          ELSE "Quote") = t
                       THEN l.fee ELSE 0, trade_history)

\* A maker trades at its own price and a taker at its limit or better.
WithinLimits ==
    \A leg \in trade_history :
        LET r == order_history[<<leg.book, leg.seq>>]
        IN  /\ leg.is_maker => leg.price = r.price
            /\ r.side = "Buy" => leg.price <= r.price
            /\ r.side = "Sell" => leg.price >= r.price

\* Whether a live order has priority over another of its side: a better price,
\* or the same price and an earlier sequence number.
HasPriority(a, b) ==
    LET ra == order_history[a]
        rb == order_history[b]
    IN  /\ a[1] = b[1] /\ ra.side = rb.side
        /\ \/ AtLeastAsGood(OwnQueue(ra.side), ra.price, rb.price)
              /\ ra.price # rb.price
           \/ ra.price = rb.price /\ a[2] < b[2]

\* Price-time priority: an open order is filled, even in part, only in a round
\* in which every open order with priority over it is filled completely
\* (plan_fills visits the makers in that order, also after partial fills,
\* cancels and an upgrade that rebuilds the book).
PriceTimePriority ==
    [][\A a, b \in DOMAIN order_history :
         /\ order_history[a].status = "Open"
         /\ order_history[b].status = "Open"
         /\ HasPriority(a, b)
         /\ order_history'[b].filled_quantity > order_history[b].filled_quantity
         => order_history'[a].status = "Filled"]_vars

Lifecycle == INSTANCE OrderLifecycle WITH
    orders <- [id \in DOMAIN order_history |->
                 [side |-> order_history[id].side,
                  price |-> order_history[id].price,
                  quantity |-> order_history[id].quantity,
                  time_in_force |-> order_history[id].time_in_force,
                  status |-> order_history[id].status,
                  filled_quantity |-> order_history[id].filled_quantity]]

\* The order records live as OrderLifecycle says: every step of the books, the
\* executor, a cancel or an upgrade places, cancels or advances orders as the
\* abstract specification allows, or leaves them all alone.
ImplementsLifecycle == Lifecycle!Spec

IsPending(id) ==
    id \in DOMAIN order_history /\ order_history[id].status = "Pending"

\* What is matched is settled, halted or not: run_once drains the backlog
\* before any halt is looked at ("users can always exit", execute/mod.rs).
BacklogDrains == pending_settling_events # <<>> ~> pending_settling_events = <<>>

\* An order does not wait forever in a book that is not halted for good, even
\* if another book is: run_once skips the halted book and comes back with what
\* is left of its chunk.
PendingServed ==
    \A id \in OrderIds :
        (<>[]~is_halted(id[1])) => [](IsPending(id) => <>~IsPending(id))

\* The documented life of a fill-or-kill order: "A FOK therefore transitions
\* only Pending -> Filled or Pending -> Expired" (docs, design.md).
FokOnlyFillsOrExpires ==
    [][\A id \in DOMAIN order_history :
         order_history[id].time_in_force = "FillOrKill"
         /\ order_history[id].status = "Pending"
         => order_history'[id].status \in {"Pending", "Filled", "Expired"}]_vars

=============================================================================
