------------------------------- MODULE Replay --------------------------------
(***************************************************************************)
(* The event log and its replay (state/audit/mod.rs, storage/mod.rs,       *)
(* lifecycle/mod.rs), around trading (module Exchange) composed with the   *)
(* deposits and withdrawals that feed it (lib.rs).                         *)
(*                                                                         *)
(* process_event applies a transition to the live state and appends it to  *)
(* the log; record_event only appends.  replay_events starts from an empty *)
(* state and applies the logged transitions in order, writing to empty     *)
(* stable structures (StableMemoryOptions::Write), as the replay tests do. *)
(* A replay reads the log once, front to back, so its state is kept here   *)
(* instead of the log: the r_ variables are what a replay of the log       *)
(* written so far has built, and the step that appends an event applies    *)
(* apply_state_transition to them.  They are never read by the live state. *)
(***************************************************************************)
EXTENDS Exchange

CONSTANTS DepositAmounts, WithdrawAmounts,
          MaxDeposits          \* bound on the deposits of a behaviour

ASSUME AmountsArePositive ==
    /\ DepositAmounts \subseteq Nat \ {0}
    /\ WithdrawAmounts \subseteq Nat \ {0}

VARIABLES
    user_registry,    \* the registered users in the order of their UserIds
    withdrawals,      \* debited, waiting for the ledger
    received,         \* token -> deposits less paid withdrawals
    deposits,         \* how many deposits were made
    r_order_books, r_balances, r_fee_pool, r_order_history, r_trade_history,
    r_pending_settling_events, r_permissions, r_execution_policy,
    r_user_registry, r_bug

fundingVars == <<user_registry, withdrawals, received, deposits>>

replicaVars == <<r_order_books, r_balances, r_fee_pool, r_order_history,
                 r_trade_history, r_pending_settling_events, r_permissions,
                 r_execution_policy, r_user_registry, r_bug>>

allVars == <<vars, fundingVars, replicaVars>>

\* The transitions of the live state, on the state a replay builds.  A replay
\* runs no executor.
R == INSTANCE Exchange WITH
        order_books <- r_order_books, balances <- r_balances,
        fee_pool <- r_fee_pool, order_history <- r_order_history,
        trade_history <- r_trade_history,
        pending_settling_events <- r_pending_settling_events,
        permissions <- r_permissions, execution_policy <- r_execution_policy,
        executor <- Idle, bug <- r_bug

\* lifecycle::init records the Init event, from which replay_events builds the
\* same empty state.
ReplayInit ==
    /\ Init
    /\ user_registry = <<>> /\ withdrawals = {} /\ deposits = 0
    /\ received = [t \in Tokens |-> 0]
    /\ R!Init /\ r_execution_policy = execution_policy
    /\ r_user_registry = <<>>

-----------------------------------------------------------------------------
(* Deposits and withdrawals.  What happens before the await of a deposit    *)
(* changes nothing here; a withdrawal debits before it and is logged after. *)

get_or_register(registry, u) ==
    IF u \in ToSet(registry) THEN registry ELSE Append(registry, u)

Credit(sheet, u, t, a) == [sheet EXCEPT ![u][t].free = @ + a]

\* The continuation of deposit: process_event of a Deposit event.
Deposit(u, t, a) ==
    /\ executor = Idle
    /\ deposits < MaxDeposits
    /\ balances' = Credit(balances, u, t, a)
    /\ user_registry' = get_or_register(user_registry, u)
    /\ received' = [received EXCEPT ![t] = @ + a]
    /\ deposits' = deposits + 1
    /\ r_balances' = Credit(r_balances, u, t, a)
    /\ r_user_registry' = get_or_register(r_user_registry, u)
    /\ UNCHANGED <<order_books, fee_pool, order_history, trade_history,
                   pending_settling_events, permissions, execution_policy,
                   executor, bug, withdrawals, r_order_books, r_fee_pool,
                   r_order_history, r_trade_history, r_pending_settling_events,
                   r_permissions, r_execution_policy, r_bug>>

ReplayUntouched == UNCHANGED replicaVars

\* replay of a Withdraw event: the debit, which must not fail.
ReplayWithdraw(u, t, a) ==
    /\ r_balances' = Credit(r_balances, u, t, -a)
    /\ r_bug' = (\/ r_bug \/ r_balances[u][t].free < a
                 \/ u \notin ToSet(r_user_registry))
    /\ UNCHANGED <<r_order_books, r_fee_pool, r_order_history, r_trade_history,
                   r_pending_settling_events, r_permissions, r_execution_policy,
                   r_user_registry>>

\* withdraw up to the ledger call: the guard of the caller and token, the debit.
Withdraw(u, t, a) ==
    /\ executor = Idle
    /\ ~\E w \in withdrawals : w.user = u /\ w.token = t
    /\ balances[u][t].free >= a
    /\ balances' = Credit(balances, u, t, -a)
    /\ withdrawals' = withdrawals \cup {[user |-> u, token |-> t, amount |-> a]}
    /\ ReplayUntouched
    /\ UNCHANGED <<order_books, fee_pool, order_history, trade_history,
                   pending_settling_events, permissions, execution_policy,
                   executor, bug, user_registry, received, deposits>>

\* The ledger has paid: record_event of a Withdraw event.
WithdrawDone(w) ==
    /\ executor = Idle
    /\ withdrawals' = withdrawals \ {w}
    /\ received' = [received EXCEPT ![w.token] = @ - w.amount]
    /\ ReplayWithdraw(w.user, w.token, w.amount)
    /\ UNCHANGED vars /\ UNCHANGED <<user_registry, deposits>>

\* Faulty variant of WithdrawFailed: the credit is logged as a deposit.
WithdrawFailedLogged(w) ==
    /\ executor = Idle
    /\ withdrawals' = withdrawals \ {w}
    /\ balances' = Credit(balances, w.user, w.token, w.amount)
    /\ r_balances' = Credit(r_balances, w.user, w.token, w.amount)
    /\ UNCHANGED <<order_books, fee_pool, order_history, trade_history,
                   pending_settling_events, permissions, execution_policy,
                   executor, bug, user_registry, received, deposits,
                   r_order_books, r_fee_pool, r_order_history, r_trade_history,
                   r_pending_settling_events, r_permissions,
                   r_execution_policy, r_user_registry, r_bug>>

\* The ledger has not paid: the debit is credited back, and nothing is logged.
WithdrawFailed(w) ==
    /\ executor = Idle
    /\ withdrawals' = withdrawals \ {w}
    /\ balances' = Credit(balances, w.user, w.token, w.amount)
    /\ ReplayUntouched
    /\ UNCHANGED <<order_books, fee_pool, order_history, trade_history,
                   pending_settling_events, permissions, execution_policy,
                   executor, bug, user_registry, received, deposits>>

-----------------------------------------------------------------------------
(* Trading, with the events it logs.                                        *)

\* An AddLimitOrder event holds the order with the id the live book gave it.
LoggedPlace ==
    \E u \in Users, b \in Books, side \in {"Buy", "Sell"}, price \in Prices,
       quantity \in Quantities, tif \in TimesInForce :
        LET order == [id |-> order_books[b].next_seq, side |-> side,
                      price |-> price, remaining_quantity |-> quantity,
                      time_in_force |-> tif]
        IN  /\ AddLimitOrder(u, b, side, price, quantity, tif)
            /\ R!record_limit_order(u, b, order)
            /\ UNCHANGED fundingVars
            /\ UNCHANGED <<r_fee_pool, r_trade_history, r_pending_settling_events,
                           r_permissions, r_execution_policy, r_user_registry>>

RefundEvent(b, removed) ==
    [book_id |-> b, fills |-> <<>>,
     balance_operations |-> RemovedOrderOps(removed, BaseScale[b])]

\* Replay of a CancelLimitOrder event and of the Settling event logged behind
\* it: the first produces a refund of its own, which is not dispatched, the
\* second applies the one the live state dispatched.
ReplayCancel(id, event) ==
    LET b == id[1]
        result == remove_order(r_order_books[b], id[2])
        after == R!ApplyOperations([balances |-> r_balances,
                                    fee_pool |-> r_fee_pool, bug |-> FALSE],
                                   b, event.balance_operations)
    IN  /\ r_order_books' = [r_order_books EXCEPT ![b] = result.book]
        /\ r_order_history' = [r_order_history EXCEPT ![id].status = "Canceled"]
        /\ r_pending_settling_events' =
             Append(r_pending_settling_events, RefundEvent(b, result.removed))
        /\ r_balances' = after.balances
        /\ r_bug' = (r_bug \/ after.bug \/ result.removed = None)
        /\ UNCHANGED <<r_fee_pool, r_trade_history, r_permissions,
                       r_execution_policy, r_user_registry>>

LoggedCancel ==
    \E u \in Users : \E id \in DOMAIN order_history :
        /\ CancelLimitOrder(u, id)
        /\ ReplayCancel(id, RefundEvent(id[1],
                              remove_order(order_books[id[1]], id[2]).removed))
        /\ UNCHANGED fundingVars

\* drain_settling dispatches the head of the backlog as a Settling event.
LoggedSettle ==
    /\ SettleNext
    /\ R!record_settling_event(Head(pending_settling_events))
    /\ UNCHANGED fundingVars
    /\ UNCHANGED <<r_order_books, r_order_history, r_pending_settling_events,
                   r_permissions, r_execution_policy, r_user_registry>>

\* A Matching event names the book and the orders of the chunk; a replay
\* matches them again.
LoggedMatch ==
    /\ MatchBook
    /\ \E b \in {Head(executor.books)} :
         R!record_matching_event(b, [i \in 1 .. ChunkSize(b) |->
                                       order_books[b].pending_orders[i].id])
    /\ UNCHANGED fundingVars
    /\ UNCHANGED <<r_balances, r_fee_pool, r_trade_history, r_permissions,
                   r_execution_policy, r_user_registry>>

\* The steps of run_once that log nothing.
UnloggedExecute ==
    /\ RunOnce \/ Drained \/ SkipHaltedBook \/ RunComplete \/ BudgetSpent
    /\ UNCHANGED fundingVars /\ ReplayUntouched

LoggedHalt ==
    \E pairs \in HaltRequests, halted \in BOOLEAN :
        /\ SetHalt(pairs, halted)
        /\ R!SetHalt(pairs, halted)
        /\ UNCHANGED fundingVars /\ UNCHANGED r_user_registry

\* An upgrade with an argument: the state goes through the snapshot, then the
\* Upgrade event is processed.  A canister with open calls is not upgraded.
LoggedUpgrade ==
    \E policy \in Policies :
        /\ withdrawals = {}
        /\ Upgrade(policy)
        /\ r_execution_policy' = policy
        /\ UNCHANGED fundingVars
        /\ UNCHANGED <<r_order_books, r_balances, r_fee_pool, r_order_history,
                       r_trade_history, r_pending_settling_events,
                       r_permissions, r_user_registry, r_bug>>

\* An upgrade without an argument logs nothing.
PlainUpgrade ==
    /\ withdrawals = {}
    /\ Upgrade(execution_policy)
    /\ UNCHANGED fundingVars /\ ReplayUntouched

-----------------------------------------------------------------------------

\* The part of State that lives on the heap.
Heap == [order_books |-> order_books, fee_pool |-> fee_pool,
         permissions |-> permissions, execution_policy |-> execution_policy,
         pending_settling_events |-> pending_settling_events]

\* What replay_events returns: the settling events that the replayed rounds and
\* cancels have produced are dropped.
replay_events ==
    [order_books |-> r_order_books, fee_pool |-> r_fee_pool,
     permissions |-> r_permissions, execution_policy |-> r_execution_policy,
     pending_settling_events |-> <<>>]

Fund == \/ \E u \in Users, t \in Tokens, a \in DepositAmounts : Deposit(u, t, a)
        \/ \E u \in Users, t \in Tokens, a \in WithdrawAmounts : Withdraw(u, t, a)
        \/ \E w \in withdrawals : WithdrawDone(w) \/ WithdrawFailed(w)

ReplayNext ==
    \/ Fund \/ LoggedPlace \/ LoggedCancel \/ LoggedSettle \/ LoggedMatch
    \/ UnloggedExecute \/ LoggedHalt \/ LoggedUpgrade \/ PlainUpgrade

ReplaySpec == ReplayInit /\ [][ReplayNext]_allVars

-----------------------------------------------------------------------------
(* Properties.                                                              *)

InFlight(u, t) ==
    MapThenSumSet(LAMBDA w : IF w.user = u /\ w.token = t THEN w.amount ELSE 0,
                  withdrawals)

\* A replay of the log into empty stable structures reproduces the live state
\* at every moment, also in the middle of run_once, after upgrades that took
\* the books through a snapshot and after withdrawals that failed, but for two
\* things: a debit whose withdrawal is not logged yet is still part of the free
\* balance, and the backlog is empty (replay_events drops it).  Nor does any log
\* make a replay panic: a replayed order finds the balance to reserve, a
\* replayed withdrawal the balance to debit ("BUG: insufficient balance for
\* withdraw event", audit/mod.rs), and a replayed round, cancel or settling
\* event the orders it refers to, although debits are replayed later than they
\* happened and failed withdrawals not at all.
ReplayReproduces ==
    /\ ~r_bug
    /\ replay_events = [Heap EXCEPT !.pending_settling_events = <<>>]
    /\ r_order_history = order_history
    /\ r_trade_history = trade_history
    /\ r_user_registry = user_registry
    /\ \A u \in Users, t \in Tokens :
         r_balances[u][t] = [balances[u][t] EXCEPT !.free = @ + InFlight(u, t)]

\* The tokens the ledgers hold for the canister are the users' balances, free
\* and reserved, the fee pool and the withdrawals under way (the invariant of
\* balance/token.rs over deposits, trading and withdrawals together).
LedgerBacksExchange ==
    \A t \in Tokens :
        received[t] = MapThenSumSet(LAMBDA u : balances[u][t].free
                                               + balances[u][t].reserved
                                               + InFlight(u, t), Users)
                      + fee_pool[t]

=============================================================================
