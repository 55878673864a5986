----------------------------- MODULE MCExchange ------------------------------
(* Small instances of Exchange.                                             *)
EXTENDS Exchange

CONSTANTS u1, u2, BTC, USD, ETH

MCPair == (1 :> [base |-> BTC, quote |-> USD]) @@ (2 :> [base |-> ETH, quote |-> USD])

\* One base unit has two smallest units; price times lot is a multiple of it.
MCScale == [b \in Books |-> 2]
MCOne == [b \in Books |-> 1]
MCTwo == [b \in Books |-> 2]
MCMaxNotional == [b \in Books |-> None]

\* Rates that make the ceiling matter on amounts of one to four units.
MCFees == [b \in Books |-> [maker |-> 3333, taker |-> 5000]]

MCFunds == [u \in Users |-> [t \in Tokens |-> 4]]

MCPolicies == {[max_orders_per_chunk |-> 2, max_settlement_units_per_event |-> 1]}

\* One order and one unit at a time, or several: an upgrade may switch.
MCTwoPolicies == {[max_orders_per_chunk |-> 1, max_settlement_units_per_event |-> 1],
                  [max_orders_per_chunk |-> 3, max_settlement_units_per_event |-> 2]}

MCHalts == {None, {1}}

=============================================================================
