------------------------------ MODULE MCReplay -------------------------------
(* Small instances of Replay.                                               *)
EXTENDS Replay

CONSTANTS u1, u2, BTC, USD

MCPair == 1 :> [base |-> BTC, quote |-> USD]
MCScale == [b \in Books |-> 2]
MCOne == [b \in Books |-> 1]
MCTwo == [b \in Books |-> 2]
MCMaxNotional == [b \in Books |-> None]
MCFees == [b \in Books |-> [maker |-> 3333, taker |-> 5000]]

\* Nobody has funds before the first deposit.
MCFunds == [u \in Users |-> [t \in Tokens |-> 0]]

MCPolicies == {[max_orders_per_chunk |-> 1, max_settlement_units_per_event |-> 1],
               [max_orders_per_chunk |-> 2, max_settlement_units_per_event |-> 2]}

MCHalts == {None}

Symmetry == Permutations(Users)

=============================================================================
