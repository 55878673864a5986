----------------------------- MODULE Settlement ------------------------------
(***************************************************************************)
(* What a matching round owes (settlement/mod.rs): the balance operations  *)
(* and trade legs of every fill, the refund of every removed order, the    *)
(* update of every order record, and the cut of all this into settling     *)
(* batches of at most max_settlement_units_per_event units.                *)
(***************************************************************************)
EXTENDS Integers, Sequences, FiniteSets, SequencesExt, FiniteSetsExt, Fees

Transfer(from_order, to_order, token, amount, fee) ==
    [op |-> "Transfer", from_order |-> from_order, to_order |-> to_order,
     token |-> token, amount |-> amount, fee |-> fee]

Unreserve(order, token, amount) ==
    [op |-> "Unreserve", order |-> order, token |-> token, amount |-> amount]

\* fees: the notional of a fill and the fee of each of its two orders, in the
\* token that order receives.
fees(maker_price, quantity, taker_side, fee_rates, base_scale) ==
    LET notional == Notional(maker_price, quantity, base_scale)
        rate(side) == IF side = taker_side THEN fee_rates.taker
                      ELSE fee_rates.maker
        quote_fee == mul_ceil(rate("Sell"), notional)
        base_fee == mul_ceil(rate("Buy"), quantity)
    IN  [notional |-> notional,
         taker |-> IF taker_side = "Buy" THEN base_fee ELSE quote_fee,
         maker |-> IF taker_side = "Buy" THEN quote_fee ELSE base_fee]

FeesOf(fill, fee_rates, base_scale) ==
    fees(fill.maker_price, fill.quantity, fill.taker_side, fee_rates, base_scale)

\* Faulty variant of Surplus: the price improvement is forgotten.
SurplusForgotten(fill, base_scale) == 0

\* What a buy taker reserved beyond the price it pays.
Surplus(fill, base_scale) ==
    IF fill.taker_side = "Buy" /\ fill.taker_price > fill.maker_price
    THEN Notional(fill.taker_price - fill.maker_price, fill.quantity, base_scale)
    ELSE 0

\* Faulty variant of FillOps: the two fees are charged the wrong way round.
FillOpsFeesSwapped(fill, fee_rates, base_scale) ==
    LET f == FeesOf(fill, fee_rates, base_scale)
        buy == fill.taker_side = "Buy"
        buyer == IF buy THEN fill.taker_order_seq ELSE fill.maker_order_seq
        seller == IF buy THEN fill.maker_order_seq ELSE fill.taker_order_seq
        surplus == Surplus(fill, base_scale)
    IN  <<Transfer(buyer, seller, "Quote", f.notional,
                   IF buy THEN f.taker ELSE f.maker)>>
        \o (IF surplus = 0 THEN <<>>
            ELSE <<Unreserve(fill.taker_order_seq, "Quote", surplus)>>)
        \o <<Transfer(seller, buyer, "Base", fill.quantity,
                      IF buy THEN f.maker ELSE f.taker)>>

\* FillSettlement::balance_operations.
FillOps(fill, fee_rates, base_scale) ==
    LET f == FeesOf(fill, fee_rates, base_scale)
        buy == fill.taker_side = "Buy"
        buyer == IF buy THEN fill.taker_order_seq ELSE fill.maker_order_seq
        seller == IF buy THEN fill.maker_order_seq ELSE fill.taker_order_seq
        surplus == Surplus(fill, base_scale)
    IN  <<Transfer(buyer, seller, "Quote", f.notional,
                   IF buy THEN f.maker ELSE f.taker)>>
        \o (IF surplus = 0 THEN <<>>
            ELSE <<Unreserve(fill.taker_order_seq, "Quote", surplus)>>)
        \o <<Transfer(seller, buyer, "Base", fill.quantity,
                      IF buy THEN f.taker ELSE f.maker)>>

\* Faulty variant of RemovedOrderOps: the refund is not scaled.
RemovedOrderOpsUnscaled(removed, base_scale) ==
    <<Unreserve(removed.id, IF removed.side = "Buy" THEN "Quote" ELSE "Base",
                IF removed.side = "Buy"
                THEN removed.price * removed.remaining_quantity
                ELSE removed.remaining_quantity)>>

\* RemovedOrderSettlement: the reservation of a canceled or killed order.
RemovedOrderOps(removed, base_scale) ==
    IF removed.side = "Buy"
    THEN <<Unreserve(removed.id, "Quote",
                     Notional(removed.price, removed.remaining_quantity,
                              base_scale))>>
    ELSE <<Unreserve(removed.id, "Base", removed.remaining_quantity)>>

RemovedOrderExact(removed, base_scale) ==
    removed.side = "Buy" =>
        Exact(removed.price, removed.remaining_quantity, base_scale)

-----------------------------------------------------------------------------
(* The lean record of a fill in a settling event, and the trade legs that   *)
(* are rebuilt from it: the taker's side and the maker's price are read     *)
(* back from the order records.                                             *)

fill_event(fill, fee_rates) ==
    [fill_seq |-> fill.fill_seq, taker_order_seq |-> fill.taker_order_seq,
     maker_order_seq |-> fill.maker_order_seq, quantity |-> fill.quantity,
     fee_rates |-> fee_rates]

trade_legs(fill, taker_side, maker_price, base_scale) ==
    LET f == fees(maker_price, fill.quantity, taker_side, fill.fee_rates,
                  base_scale)
        leg(seq, side, fee, is_maker) ==
            [seq |-> seq, fill_seq |-> fill.fill_seq, side |-> side,
             price |-> maker_price, quantity |-> fill.quantity,
             notional |-> f.notional, fee |-> fee, is_maker |-> is_maker]
        maker_side == IF taker_side = "Buy" THEN "Sell" ELSE "Buy"
    IN  {leg(fill.taker_order_seq, taker_side, f.taker, FALSE),
         leg(fill.maker_order_seq, maker_side, f.maker, TRUE)}

-----------------------------------------------------------------------------

\* The deltas of accrue_fill summed over the fills of a round, and the status
\* that is laid over them.
OrderUpdates(output, fee_rates, base_scale) ==
    LET fills == output.fills
        of(seq) == {i \in DOMAIN fills : seq \in {fills[i].taker_order_seq,
                                                  fills[i].maker_order_seq}}
        f(i) == FeesOf(fills[i], fee_rates, base_scale)
        expired == {o.id : o \in output.expired_orders}
        touched == output.resting_orders \cup output.filled_orders \cup expired
                   \cup {fills[i].taker_order_seq : i \in DOMAIN fills}
                   \cup {fills[i].maker_order_seq : i \in DOMAIN fills}
    IN  [seq \in touched |->
          [filled_delta |-> MapThenSumSet(LAMBDA i : fills[i].quantity, of(seq)),
           quote_delta |-> MapThenSumSet(LAMBDA i : f(i).notional, of(seq)),
           fee_delta |-> MapThenSumSet(
               LAMBDA i : IF fills[i].taker_order_seq = seq THEN f(i).taker
                          ELSE f(i).maker, of(seq)),
           status |-> CASE seq \in expired -> "Expired"
                        [] seq \in output.filled_orders -> "Filled"
                        [] seq \in output.resting_orders -> "Open"
                        [] OTHER -> "Unchanged"]]

\* Faulty variant of SettlementUnits: expired orders are not refunded.
SettlementUnitsFillsOnly(output, fee_rates, base_scale) ==
    [i \in 1 .. Len(output.fills) |->
        [fills |-> <<fill_event(output.fills[i], fee_rates)>>,
         balance_operations |-> FillOps(output.fills[i], fee_rates, base_scale)]]

\* A settlement unit: a fill with its operations, or the refund of an expired
\* order; expired_orders is a map in the order of the sequence numbers.
SettlementUnits(output, fee_rates, base_scale) ==
    LET expired == SetToSortSeq(output.expired_orders,
                                LAMBDA a, b : a.id < b.id)
    IN  [i \in 1 .. Len(output.fills) |->
            [fills |-> <<fill_event(output.fills[i], fee_rates)>>,
             balance_operations |->
                FillOps(output.fills[i], fee_rates, base_scale)]]
        \o [i \in 1 .. Len(expired) |->
            [fills |-> <<>>,
             balance_operations |-> RemovedOrderOps(expired[i], base_scale)]]

\* Units are packed in order, cap to a batch, and never split.
pack_settlement_units(units, cap) ==
    LET batches == (Len(units) + cap - 1) \div cap
        last(b) == IF b * cap < Len(units) THEN b * cap ELSE Len(units)
        part(b) == SubSeq(units, (b - 1) * cap + 1, last(b))
        field(b, name) == FlattenSeq([i \in 1 .. Len(part(b)) |->
                                        part(b)[i][name]])
    IN  [b \in 1 .. batches |->
           [balance_operations |-> field(b, "balance_operations"),
            fills |-> field(b, "fills")]]

\* MatchSettlement::from_matching.  bug: an amount is not exact.
from_matching(output, fee_rates, base_scale, cap) ==
    [order_updates |-> OrderUpdates(output, fee_rates, base_scale),
     settling_batches |-> pack_settlement_units(
         SettlementUnits(output, fee_rates, base_scale), cap),
     bug |-> \/ \E i \in DOMAIN output.fills :
                  LET f == output.fills[i]
                  IN  \/ ~Exact(f.maker_price, f.quantity, base_scale)
                      \/ /\ f.taker_side = "Buy"
                         /\ ~Exact(f.taker_price - f.maker_price, f.quantity,
                                   base_scale)
             \/ \E o \in output.expired_orders : ~RemovedOrderExact(o, base_scale)]

=============================================================================
