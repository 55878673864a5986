------------------------------ MODULE MCQueries ------------------------------
(* One book with two price levels a side.  Three bids of four units add up to *)
(* more than MaxQuantity, so that a level saturates.                          *)
EXTENDS Queries

CONSTANTS u1, u2, delegate, stranger, BTC, USD, ETH

MCPair == (1 :> [base |-> BTC, quote |-> USD])
MCScale == [b \in Books |-> 2]
MCOne == [b \in Books |-> 1]
MCTwo == [b \in Books |-> 2]
MCMaxNotional == [b \in Books |-> None]
MCFees == [b \in Books |-> [maker |-> 3333, taker |-> 5000]]
MCFunds == [u \in Users |-> [t \in Tokens |-> IF t = ETH THEN 0 ELSE 4]]
MCPolicies == {[max_orders_per_chunk |-> 2, max_settlement_units_per_event |-> 1]}
MCTradingAccounts == (delegate :> u1)
=============================================================================
