---------------------------- MODULE BalanceLedger ----------------------------
(***************************************************************************)
(* What the token accounting promises: one balance for every token and     *)
(* user and one fee total for every token, changed in place by each        *)
(* operation.  The operations of a message become final together when it   *)
(* ends, and none of them happened when it traps.                          *)
(***************************************************************************)
EXTENDS Integers

CONSTANTS
    Users, Tokens,
    Amounts,      \* the amounts operations are called with
    MaxQuantity   \* Quantity::MAX

VARIABLES
    balance,    \* free and reserved, of every token and user
    fees,       \* fees withheld, of every token
    committed   \* balance and fees when the last message ended

vars == <<balance, fees, committed>>

Keys == Tokens \X Users

Free(k, f) == [free |-> f, reserved |-> balance[k].reserved]
Move(k, f, r) == [free |-> f, reserved |-> r]

Init ==
    /\ balance = [k \in Keys |-> [free |-> 0, reserved |-> 0]]
    /\ fees = [t \in Tokens |-> 0]
    /\ committed = [balance |-> balance, fees |-> fees]

Deposit(k, a) ==
    /\ balance[k].free + a <= MaxQuantity
    /\ balance' = [balance EXCEPT ![k] = Free(k, balance[k].free + a)]
    /\ UNCHANGED <<fees, committed>>

Withdraw(k, a) ==
    /\ a <= balance[k].free
    /\ balance' = [balance EXCEPT ![k] = Free(k, balance[k].free - a)]
    /\ UNCHANGED <<fees, committed>>

Reserve(k, a) ==
    /\ a <= balance[k].free
    /\ balance[k].reserved + a <= MaxQuantity
    /\ balance' = [balance EXCEPT
          ![k] = Move(k, balance[k].free - a, balance[k].reserved + a)]
    /\ UNCHANGED <<fees, committed>>

Unreserve(k, a) ==
    /\ a <= balance[k].reserved
    /\ balance[k].free + a <= MaxQuantity
    /\ balance' = [balance EXCEPT
          ![k] = Move(k, balance[k].free + a, balance[k].reserved - a)]
    /\ UNCHANGED <<fees, committed>>

\* gross leaves the reserved part of d, the fee is withheld, c is credited
\* with the rest; d and c may be one row.
Transfer(d, c, t, gross, fee) ==
    /\ d[1] = t /\ c[1] = t
    /\ fee <= gross
    /\ gross <= balance[d].reserved
    /\ fees[t] + fee <= MaxQuantity
    /\ balance[c].free + (gross - fee) <= MaxQuantity
    /\ balance' =
          [k \in Keys |->
              [free |-> IF k = c THEN balance[k].free + (gross - fee)
                        ELSE balance[k].free,
               reserved |-> IF k = d THEN balance[k].reserved - gross
                            ELSE balance[k].reserved]]
    /\ fees' = [fees EXCEPT ![t] = fees[t] + fee]
    /\ UNCHANGED committed

Commit ==
    /\ committed' = [balance |-> balance, fees |-> fees]
    /\ UNCHANGED <<balance, fees>>

Abort ==
    /\ balance' = committed.balance
    /\ fees' = committed.fees
    /\ UNCHANGED committed

Next ==
    \/ \E k \in Keys, a \in Amounts :
          Deposit(k, a) \/ Withdraw(k, a) \/ Reserve(k, a) \/ Unreserve(k, a)
    \/ \E d, c \in Keys, t \in Tokens, gross, fee \in Amounts :
          Transfer(d, c, t, gross, fee)
    \/ Commit
    \/ Abort

Spec == Init /\ [][Next]_vars
=============================================================================
