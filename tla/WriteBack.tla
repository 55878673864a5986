------------------------------ MODULE WriteBack ------------------------------
(***************************************************************************)
(* TokenBalance and its write-back buffer.  The rows live in a stable map, *)
(* absent until first needed; a batch of operations (with_write_back)      *)
(* reads a row into the buffer when it first touches it, works there, and  *)
(* writes the rows back when it ends.  The fees are on the heap and change *)
(* in place.  A message runs one batch or several; a trap anywhere in it   *)
(* takes stable memory and heap back to where the message began, and an    *)
(* upgrade carries the fees through a snapshot.                            *)
(*                                                                         *)
(* The module is shown to implement BalanceLedger.                         *)
(***************************************************************************)
EXTENDS Integers

CONSTANTS
    Users, Tokens,
    Amounts,      \* the amounts operations are called with
    MaxQuantity,  \* Quantity::MAX
    None          \* Option::None

ASSUME AmountsAssumption ==
    /\ MaxQuantity \in Nat
    /\ Amounts \subseteq 0 .. MaxQuantity

Quantity == 0 .. MaxQuantity
Balance == [free : Quantity, reserved : Quantity]
BalanceRow == [balance : Balance, existed : BOOLEAN]

ASSUME NoneAssumption == None \notin Quantity \cup Balance \cup BalanceRow

VARIABLES
    balances,  \* the stable map: a Balance, or None where it has no row
    fee_pool,  \* per_token: the fees of a token, or None if it never had any
    buffer,    \* the write-back buffer of the batch; None where untouched
    before     \* what the platform restores when the message traps

vars == <<balances, fee_pool, buffer, before>>

BalanceKey == Tokens \X Users
ZERO == [free |-> 0, reserved |-> 0]
Untouched == [k \in BalanceKey |-> None]

Init ==
    /\ balances = [k \in BalanceKey |-> None]
    /\ fee_pool = [t \in Tokens |-> None]
    /\ buffer = Untouched
    /\ before = [balances |-> balances, fee_pool |-> fee_pool]

-----------------------------------------------------------------------------
\* Rows.

\* BalanceRow::load.
load(k) ==
    IF balances[k] = None THEN [balance |-> ZERO, existed |-> FALSE]
    ELSE [balance |-> balances[k], existed |-> TRUE]

\* The row of k as an operation of the batch sees it.
Row(k) == IF buffer[k] = None THEN load(k) ELSE buffer[k]

\* Faulty variant: every row that was touched.
worth_persisting_always(row) == TRUE

worth_persisting(row) == row.existed \/ row.balance # ZERO

\* The buffer after an operation left k at b.
Put(k, b) ==
    [buffer EXCEPT ![k] = [balance |-> b, existed |-> Row(k).existed]]

\* Balance::deposit, withdraw, reserve, unreserve and debit_reserved.
deposit(b, a) == [free |-> b.free + a, reserved |-> b.reserved]
withdraw(b, a) == [free |-> b.free - a, reserved |-> b.reserved]
reserve(b, a) == [free |-> b.free - a, reserved |-> b.reserved + a]
unreserve(b, a) == [free |-> b.free + a, reserved |-> b.reserved - a]
debit_reserved(b, a) == [free |-> b.free, reserved |-> b.reserved - a]

accrued(t) == IF fee_pool[t] = None THEN 0 ELSE fee_pool[t]

-----------------------------------------------------------------------------
\* The operations of a batch.  One that panics is not a step: see Trap.

Deposit(k, a) ==
    /\ Row(k).balance.free + a <= MaxQuantity
    /\ buffer' = Put(k, deposit(Row(k).balance, a))
    /\ UNCHANGED <<balances, fee_pool, before>>

\* try_mutate with Balance::withdraw: too little leaves the buffer as it was.
Withdraw(k, a) ==
    /\ \/ /\ a <= Row(k).balance.free
          /\ buffer' = Put(k, withdraw(Row(k).balance, a))
       \/ /\ Row(k).balance.free < a
          /\ UNCHANGED buffer
    /\ UNCHANGED <<balances, fee_pool, before>>

\* try_mutate with Balance::reserve.
Reserve(k, a) ==
    /\ \/ /\ a <= Row(k).balance.free
          /\ Row(k).balance.reserved + a <= MaxQuantity
          /\ buffer' = Put(k, reserve(Row(k).balance, a))
       \/ /\ Row(k).balance.free < a
          /\ UNCHANGED buffer
    /\ UNCHANGED <<balances, fee_pool, before>>

\* load_existing asserts that the stable map held the row.
Unreserve(k, a) ==
    /\ Row(k).existed
    /\ a <= Row(k).balance.reserved
    /\ Row(k).balance.free + a <= MaxQuantity
    /\ buffer' = Put(k, unreserve(Row(k).balance, a))
    /\ UNCHANGED <<balances, fee_pool, before>>

\* FeePool::withhold: no entry is made for a fee of zero.
withhold(t, fee) ==
    IF fee = 0 THEN fee_pool ELSE [fee_pool EXCEPT ![t] = accrued(t) + fee]

\* Faulty variant: the creditor's row is read before the debit is made.
TransferredStale(d, c, gross, net) ==
    [Put(d, debit_reserved(Row(d).balance, gross)) EXCEPT
        ![c] = [balance |-> deposit(Row(c).balance, net),
                existed |-> Row(c).existed]]

\* The buffer after d was debited and c credited.  The credit of a transfer
\* to oneself lands on the row that was just debited.
Transferred(d, c, gross, net) ==
    IF d = c
      THEN Put(d, deposit(debit_reserved(Row(d).balance, gross), net))
      ELSE [Put(d, debit_reserved(Row(d).balance, gross)) EXCEPT
              ![c] = [balance |-> deposit(Row(c).balance, net),
                      existed |-> Row(c).existed]]

Transfer(debtor, creditor, t, gross, fee) ==
    /\ fee <= gross
    /\ accrued(t) + fee <= MaxQuantity
    /\ Row(<<t, debtor>>).existed
    /\ gross <= Row(<<t, debtor>>).balance.reserved
    /\ Row(<<t, creditor>>).balance.free + (gross - fee) <= MaxQuantity
    /\ fee_pool' = withhold(t, fee)
    /\ buffer' = Transferred(<<t, debtor>>, <<t, creditor>>,
                             gross, gross - fee)
    /\ UNCHANGED <<balances, before>>

\* The batch ends: with_write_back flushes the buffer.
Flush ==
    /\ buffer # Untouched
    /\ balances' =
          [k \in BalanceKey |->
              IF buffer[k] # None /\ worth_persisting(buffer[k])
              THEN buffer[k].balance ELSE balances[k]]
    /\ buffer' = Untouched
    /\ UNCHANGED <<fee_pool, before>>

-----------------------------------------------------------------------------
\* Messages and upgrades.

\* The message ends; its batches have all been flushed.
End ==
    /\ buffer = Untouched
    /\ before' = [balances |-> balances, fee_pool |-> fee_pool]
    /\ UNCHANGED <<balances, fee_pool, buffer>>

\* The message traps, in an operation or anywhere else.
Trap ==
    /\ balances' = before.balances
    /\ fee_pool' = before.fee_pool
    /\ buffer' = Untouched
    /\ UNCHANGED before

\* FeePool::snapshot and FeePool::restore.
snapshot(pool) == {<<t, pool[t]>> : t \in {u \in Tokens : pool[u] # None}}
restore(entries) ==
    [t \in Tokens |->
        IF \E a \in Quantity : <<t, a>> \in entries
        THEN CHOOSE a \in Quantity : <<t, a>> \in entries
        ELSE None]

\* Between messages the canister is upgraded: the stable map stays, the heap
\* is rebuilt from the snapshot.
Upgrade ==
    /\ buffer = Untouched
    /\ before = [balances |-> balances, fee_pool |-> fee_pool]
    /\ fee_pool' = restore(snapshot(fee_pool))
    /\ before' = [balances |-> balances, fee_pool |-> fee_pool']
    /\ UNCHANGED <<balances, buffer>>

Next ==
    \/ \E k \in BalanceKey, a \in Amounts :
          Deposit(k, a) \/ Withdraw(k, a) \/ Reserve(k, a) \/ Unreserve(k, a)
    \/ \E debtor, creditor \in Users, t \in Tokens, gross, fee \in Amounts :
          Transfer(debtor, creditor, t, gross, fee)
    \/ Flush
    \/ End
    \/ Trap
    \/ Upgrade

Spec == Init /\ [][Next]_vars

-----------------------------------------------------------------------------
\* Properties.

TypeOK ==
    /\ balances \in [BalanceKey -> Balance \cup {None}]
    /\ fee_pool \in [Tokens -> Quantity \cup {None}]
    /\ buffer \in [BalanceKey -> BalanceRow \cup {None}]
    /\ before \in [balances : [BalanceKey -> Balance \cup {None}],
                   fee_pool : [Tokens -> Quantity \cup {None}]]

\* A buffered row remembers correctly whether the stable map holds it: the
\* assertion of load_existing looks at the map as it is, however long ago in
\* the batch the row was read.
BufferCoherent ==
    \A k \in BalanceKey :
        buffer[k] # None => (buffer[k].existed <=> balances[k] # None)

\* The ledger the buffer stands for: a buffered row hides the stored one,
\* and a row the map does not have is empty.
Stored(map) ==
    [k \in BalanceKey |-> IF map[k] = None THEN ZERO ELSE map[k]]
Fees(pool) == [t \in Tokens |-> IF pool[t] = None THEN 0 ELSE pool[t]]
Visible == [k \in BalanceKey |-> Row(k).balance]
Committed ==
    [balance |-> Stored(before.balances), fees |-> Fees(before.fee_pool)]

Ledger == INSTANCE BalanceLedger WITH
    balance <- Visible, fees <- Fees(fee_pool), committed <- Committed

\* The write-back buffer is invisible: deposits, withdrawals, reservations and
\* transfers change the balances as if each were made in place, in their
\* order; a batch may be flushed at any point between two operations, a trap
\* undoes every batch of its message and nothing else, and neither a flush
\* that elides empty rows nor an upgrade changes a balance or a fee.
WriteBackIsTransparent == Ledger!Spec

\* A flush materialises no empty row: a row appears in the stable map only
\* with a balance in it, so a deposit of zero or a row that was filled and
\* emptied in one batch leaves no trace.
NoEmptyRows ==
    [][\A k \in BalanceKey :
          balances[k] = None /\ balances'[k] # None => balances'[k] # ZERO]_vars
=============================================================================
