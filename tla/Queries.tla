------------------------------- MODULE Queries -------------------------------
(***************************************************************************)
(* What callers are told about the exchange: the depth and the ticker of a *)
(* book, the balances of an account and the fee pool (lib.rs,              *)
(* state/mod.rs, order/book.rs).  A query runs between two messages and    *)
(* changes nothing, so it is an operator on the state of module Exchange;  *)
(* its reply is [ok, ...] with ok = FALSE for an error.                    *)
(***************************************************************************)
EXTENDS Exchange

CONSTANTS TradingAccounts,      \* trading account -> its funding account
          Strangers,            \* principals that never deposited
          FilterTokens,         \* what a filter may name
          MAX_FILTER_LEN,
          DEFAULT_DEPTH_LIMIT, MAX_DEPTH_LIMIT

ASSUME QueriesAssumption ==
    /\ DOMAIN TradingAccounts \cap (Users \cup Strangers) = {}
    /\ \A p \in DOMAIN TradingAccounts : TradingAccounts[p] \in Users
    /\ {MAX_FILTER_LEN, DEFAULT_DEPTH_LIMIT, MAX_DEPTH_LIMIT} \subseteq Nat
    /\ DEFAULT_DEPTH_LIMIT <= MAX_DEPTH_LIMIT

Error == [ok |-> FALSE]

-----------------------------------------------------------------------------
(* The book.                                                                *)

get_order_book(pair) ==
    LET ids == {b \in Books : PairOf[b] = pair}
    IN  IF ids = {} THEN None ELSE order_books[CHOOSE b \in ids : TRUE]

\* OrderQueue::levels: a map from prices to queues, the best price first.
levels(book, name) ==
    LET prices == {o.price : o \in ToSet(book[name])}
        best_first == SetToSortSeq(prices, LAMBDA p, q :
                          p # q /\ AtLeastAsGood(name, p, q))
    IN  [i \in DOMAIN best_first |->
           [price |-> best_first[i],
            queue |-> SelectSeq(book[name], LAMBDA o : o.price = best_first[i])]]

\* The sum saturates, so that a query cannot trap.
sum_remaining(queue) ==
    LET add(acc, order) ==
            IF acc + order.remaining_quantity > MaxQuantity
            THEN MaxQuantity ELSE acc + order.remaining_quantity
    IN  FoldLeft(add, 0, queue)

Take(s, n) == SubSeq(s, 1, IF n < Len(s) THEN n ELSE Len(s))

\* Faulty variant of side_levels: the limit counts orders.
side_levels_of_orders(book, name, limit) ==
    LET cut == levels([book EXCEPT ![name] = Take(@, limit)], name)
    IN  [i \in DOMAIN cut |-> [price |-> cut[i].price,
                               quantity |-> sum_remaining(cut[i].queue)]]

\* bid_levels and ask_levels.
side_levels(book, name, limit) ==
    LET cut == Take(levels(book, name), limit)
    IN  [i \in DOMAIN cut |-> [price |-> cut[i].price,
                               quantity |-> sum_remaining(cut[i].queue)]]

BestLevel(book, name) ==
    LET best == side_levels(book, name, 1)
    IN  IF best = <<>> THEN None ELSE best[1]

get_order_book_ticker(pair) ==
    LET book == get_order_book(pair)
    IN  IF book = None THEN Error
        ELSE [ok |-> TRUE, bid |-> BestLevel(book, "bids"),
              ask |-> BestLevel(book, "asks")]

get_order_book_depth(pair, requested) ==
    LET limit == IF requested = None THEN DEFAULT_DEPTH_LIMIT ELSE requested
        book == get_order_book(pair)
    IN  IF limit > MAX_DEPTH_LIMIT \/ book = None THEN Error
        ELSE [ok |-> TRUE, bids |-> side_levels(book, "bids", limit),
              asks |-> side_levels(book, "asks", limit)]

-----------------------------------------------------------------------------
(* Balances.                                                                *)

\* The tokens of the listed pairs.
tokens == {PairOf[b].base : b \in Books} \cup {PairOf[b].quote : b \in Books}

effective_account(caller) ==
    IF caller \in DOMAIN TradingAccounts THEN TradingAccounts[caller] ELSE caller

\* State::get_balance; an account that never deposited has no row.
get_balance(user, token) ==
    IF user \in Users THEN balances[user][token] ELSE [free |-> 0, reserved |-> 0]

is_zero(balance) == balance.free = 0 /\ balance.reserved = 0

Entry(token, balance) == [token |-> token] @@ balance

fee_only_balance(amount) == [free |-> amount, reserved |-> 0]

validate_filter_len(filter) == filter = None \/ Len(filter) <= MAX_FILTER_LEN

\* The first occurrence of every token of a filter.
Deduped(filter) ==
    LET add(seen, token) == IF Contains(seen, token) THEN seen
                            ELSE Append(seen, token)
    IN  FoldLeft(add, <<>>, filter)

\* apply_filter with the balances to look up: any unknown token fails the
\* whole call.
apply_filter(filter, balance_of) ==
    LET entry(asked, i) == Entry(asked[i], balance_of[asked[i]])
        answer(asked) == [i \in DOMAIN asked |-> entry(asked, i)]
    IN  IF ToSet(filter) \subseteq tokens
        THEN [ok |-> TRUE, entries |-> answer(Deduped(filter))]
        ELSE Error

\* Faulty variant of NonZero: what is reserved does not count.
NonZeroFree(balance_of) ==
    {Entry(t, balance_of[t]) : t \in {x \in DOMAIN balance_of : balance_of[x].free > 0}}

NonZero(balance_of) ==
    {Entry(t, balance_of[t]) : t \in {x \in DOMAIN balance_of : ~is_zero(balance_of[x])}}

\* State::get_balances and State::get_fee_balances.  Without a filter, every
\* token with a balance.
balances_of(user, filter) ==
    LET balance_of == [t \in tokens |-> get_balance(user, t)]
    IN  IF filter = None
        THEN [ok |-> TRUE, entries |-> SetToSeq(NonZero(balance_of))]
        ELSE apply_filter(filter, balance_of)

fee_balances(filter) ==
    IF filter = None
    THEN [ok |-> TRUE, entries |->
            SetToSeq(NonZero([t \in Tokens |-> fee_only_balance(fee_pool[t])]))]
    ELSE apply_filter(filter, [t \in tokens |-> fee_only_balance(fee_pool[t])])

\* The endpoints.
get_balances(caller, filter) ==
    IF validate_filter_len(filter) THEN balances_of(effective_account(caller), filter)
    ELSE Error

get_fee_balances(filter) ==
    IF validate_filter_len(filter) THEN fee_balances(filter) ELSE Error

-----------------------------------------------------------------------------
(* Properties.                                                              *)

OpenAt(b, side, price) ==
    {id \in BookOrders(b) : /\ order_history[id].status = "Open"
                            /\ order_history[id].side = side
                            /\ order_history[id].price = price}

OpenPrices(b, side) == {p \in Prices : OpenAt(b, side, p) # {}}

\* The levels shown for a side are its best prices, best first, as many as the
\* limit allows, each with what the order records leave unfilled there.
ShowsRecords(shown, b, side, limit) ==
    LET prices == OpenPrices(b, side)
        better(p) == {q \in prices : q # p /\ AtLeastAsGood(OwnQueue(side), q, p)}
        left(p) == MapThenSumSet(Remaining, OpenAt(b, side, p))
    IN  /\ Len(shown) = IF limit < Cardinality(prices) THEN limit
                        ELSE Cardinality(prices)
        /\ \A i \in DOMAIN shown :
             /\ shown[i].price \in prices
             /\ Cardinality(better(shown[i].price)) = i - 1
             /\ shown[i].quantity = IF left(shown[i].price) > MaxQuantity
                                    THEN MaxQuantity ELSE left(shown[i].price)

\* The depth anyone sees agrees with the order records their owners see: after
\* every message, whatever has been matched, partly filled, canceled or carried
\* over an upgrade, a level is the sum of the open orders at its price, no level
\* within the limit is missing, and the sum saturates where it would overflow
\* (get_order_book_depth, sum_remaining).
DepthMatchesRecords ==
    executor = Idle =>
        \A b \in Books, requested \in {None} \cup (0 .. MAX_DEPTH_LIMIT) :
        \A depth \in {get_order_book_depth(PairOf[b], requested)},
           limit \in {IF requested = None THEN DEFAULT_DEPTH_LIMIT ELSE requested} :
            /\ depth.ok
            /\ ShowsRecords(depth.bids, b, "Buy", limit)
            /\ ShowsRecords(depth.asks, b, "Sell", limit)

\* The ticker is the top of the depth and is never crossed, also while pending
\* orders that cross it wait for their run (get_order_book_ticker).
TickerUncrossed ==
    executor = Idle =>
        \A b \in Books : \A ticker \in {get_order_book_ticker(PairOf[b])} :
            /\ (ticker.bid = None) = (OpenPrices(b, "Buy") = {})
            /\ (ticker.ask = None) = (OpenPrices(b, "Sell") = {})
            /\ ticker.bid # None => ShowsRecords(<<ticker.bid>>, b, "Buy", 1)
            /\ ticker.ask # None => ShowsRecords(<<ticker.ask>>, b, "Sell", 1)
            /\ ticker.bid # None /\ ticker.ask # None =>
                 ticker.bid.price < ticker.ask.price

\* The balances all users see without a filter and the fees anyone sees add up
\* to what was deposited, and no fee is held in a token that has no metadata.
AddUp ==
    LET shown(reply, t) ==
            MapThenSumSet(LAMBDA e : e.free + e.reserved,
                          {e \in ToSet(reply.entries) : e.token = t})
    IN  \A t \in Tokens :
            /\ MapThenSumSet(LAMBDA u : shown(get_balances(u, None), t), Users)
                 + shown(get_fee_balances(None), t)
                 = MapThenSumSet(LAMBDA u : Funds[u][t], Users)
            /\ fee_pool[t] > 0 => t \in tokens

Filters == BoundedSeq(FilterTokens, MAX_FILTER_LEN + 1)

\* A filter selects and does not change what is shown: each token asked for is
\* there once, with the balance the unfiltered reply shows, or zero if it shows
\* none; a trading account sees what its funding account sees; a call fails only
\* for a token that is not listed or a filter that is too long (apply_filter).
FilterSelects ==
    \A p \in Users \cup DOMAIN TradingAccounts \cup Strangers :
    \A all \in {ToSet(get_balances(p, None).entries)}, filter \in Filters :
    \A reply \in {get_balances(p, filter)} :
        /\ reply.ok <=> /\ Len(filter) <= MAX_FILTER_LEN
                        /\ ToSet(filter) \subseteq tokens
        /\ reply.ok =>
             /\ Len(reply.entries) = Cardinality(ToSet(filter))
             /\ {e.token : e \in ToSet(reply.entries)} = ToSet(filter)
             /\ \A e \in ToSet(reply.entries) :
                  e \in all \/ (is_zero(e) /\ ~\E x \in all : x.token = e.token)
        /\ p \in DOMAIN TradingAccounts =>
             reply = get_balances(TradingAccounts[p], filter)

\* Nothing is hidden from view and nothing is shown twice: what all accounts and
\* the fee pool show adds up to the deposits, also while amounts are only
\* reserved and while fills wait to be settled, and a filter or a trading
\* account sees the same amounts (get_balances, get_fee_balances).
BalancesShown == executor = Idle => AddUp /\ FilterSelects

=============================================================================
