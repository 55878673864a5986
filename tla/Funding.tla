------------------------------- MODULE Funding -------------------------------
(***************************************************************************)
(* Funding and trading accounts of the exchange canister.                  *)
(*                                                                         *)
(* The only endpoints of the canister that await are deposit and withdraw: *)
(* each calls a token ledger and resumes in a later message, so that any   *)
(* other message can run in between.  This module cuts the two handlers at *)
(* their awaits and interleaves them with the grants of the account        *)
(* registry, with trading (which moves balances between users), with       *)
(* changes of the ledgers' fees and with canister upgrades.                *)
(*                                                                         *)
(* A user is identified by its principal: the dense UserId of the code is  *)
(* an injective name for it.  A balance row that does not exist is a zero  *)
(* balance.                                                                *)
(***************************************************************************)
EXTENDS Integers, FiniteSets, Functions

CONSTANTS
    Principals,          \* principals that call the canister
    NonAuthenticating,   \* the anonymous and management-canister principals
    Tokens,              \* supported tokens, one ledger each
    Calls,               \* call contexts that can be open at the same time
    None,                \* an absent Option
    Amounts,             \* amounts a request may name
    LedgerFees,          \* transfer fees a ledger may charge
    MaxQuantity,         \* largest Quantity (u256::MAX)
    InitialWallet,       \* tokens each principal owns on each ledger at first
    MAX_TRADING_ACCOUNTS_PER_USER,
    TRADING_ACCOUNT_GRANT_COOLDOWN,
    MaxTime              \* bound on the clock

ASSUME FundingAssumption ==
    /\ NonAuthenticating \subseteq Principals
    /\ None \notin Principals
    /\ Amounts \subseteq Nat
    /\ LedgerFees \subseteq Nat
    /\ MaxQuantity \in Nat
    /\ InitialWallet \in Nat
    /\ MAX_TRADING_ACCOUNTS_PER_USER \in Nat
    /\ TRADING_ACCOUNT_GRANT_COOLDOWN \in Nat
    /\ MaxTime \in Nat

\* There are finitely many principals: they are byte strings of bounded length.
ASSUME FinitePrincipals == IsFiniteSet(Principals)

\* No time is an absent one.
ASSUME NoTimeAssumption == None \notin Nat

VARIABLES
    users,                        \* principals registered as funding accounts
    trading_accounts,             \* trading principal -> its funding account
    trading_accounts_by_funding,  \* funding account -> whitelist, grant time
    now,                          \* the clock
    in_flight_user_ops,           \* (principal, token) held by a UserOpGuard
    free, reserved,               \* the two halves of each balance
    fee_pool,                     \* fees withheld from fills, per token
    ledger_fee_cache,             \* last fee a BadFee reply revealed
    calls,                        \* open deposit and withdraw calls
    ledger_fee,                   \* fee each ledger charges now
    wallet,                       \* ledger accounts of the principals
    custody,                      \* ledger account of the canister
    held,     \* history: the part of custody that belongs to each principal
    lost      \* history: credits a callback could not apply (it trapped)

registryVars == <<users, trading_accounts, trading_accounts_by_funding>>
balanceVars == <<free, reserved, fee_pool>>
ledgerVars == <<ledger_fee, wallet, custody>>
vars == <<registryVars, now, in_flight_user_ops, balanceVars,
          ledger_fee_cache, calls, ledgerVars, held, lost>>

NoCall == [pc |-> "idle", op |-> None, caller |-> None, token |-> None,
           amount |-> 0, attempt |-> 0, transfer_amount |-> 0, fee |-> 0,
           expected_fee |-> 0]

\* A call to the ledger of token t on behalf of p, for the given attempt.
LedgerCall(op, p, t, a, attempt, transfer_amount, fee) ==
    [pc |-> "sent", op |-> op, caller |-> p, token |-> t, amount |-> a,
     attempt |-> attempt, transfer_amount |-> transfer_amount, fee |-> fee,
     expected_fee |-> 0]

\* The balance sheet f with x added to what p has of t.
Add(f, p, t, x) == [f EXCEPT ![p][t] = @ + x]

NoList == [accounts |-> {}, last_granted_at |-> None]

-----------------------------------------------------------------------------
(* The registry, user/mod.rs                                               *)

IsTrading(p) == trading_accounts[p] # None

IsFunding(p) == p \in users /\ ~IsTrading(p)

\* The account whose balances a caller acts on.
effective_account(p) == IF IsTrading(p) THEN trading_accounts[p] ELSE p

cooldown_elapsed(list) ==
    list.last_granted_at # None =>
        now - list.last_granted_at >= TRADING_ACCOUNT_GRANT_COOLDOWN

\* Faulty variant: the funding operations in flight are not looked at.
validate_add_ignoring_in_flight(f, tr) ==
    /\ IsFunding(f)
    /\ tr # f
    /\ tr \notin NonAuthenticating
    /\ ~IsTrading(tr) /\ tr \notin users
    /\ LET list == trading_accounts_by_funding[f]
       IN  /\ Cardinality(list.accounts) < MAX_TRADING_ACCOUNTS_PER_USER
           /\ cooldown_elapsed(list)

\* An in-flight deposit registers its caller when it completes, so a grant
\* to a principal with a funding operation in flight is refused.
validate_add_trading_account(f, tr) ==
    /\ IsFunding(f)
    /\ tr # f
    /\ tr \notin NonAuthenticating
    /\ ~IsTrading(tr) /\ tr \notin users
    /\ LET list == trading_accounts_by_funding[f]
       IN  /\ Cardinality(list.accounts) < MAX_TRADING_ACCOUNTS_PER_USER
           /\ cooldown_elapsed(list)
    /\ \A t \in Tokens : <<tr, t>> \notin in_flight_user_ops

AddTradingAccount(f, tr) ==
    /\ validate_add_trading_account(f, tr)
    /\ trading_accounts' = [trading_accounts EXCEPT ![tr] = f]
    /\ trading_accounts_by_funding' =
          [trading_accounts_by_funding EXCEPT
             ![f] = [accounts |-> @.accounts \cup {tr},
                     last_granted_at |-> now]]
    /\ UNCHANGED <<users, now, in_flight_user_ops, balanceVars,
                   ledger_fee_cache, calls, ledgerVars, held, lost>>

\* Faulty variants: the whitelist keeps the revoked account; an emptied
\* whitelist is dropped together with its cooldown anchor.
record_remove_forgetting_list(f, tr) == UNCHANGED trading_accounts_by_funding

record_remove_dropping_list(f, tr) ==
    trading_accounts_by_funding' =
        [trading_accounts_by_funding EXCEPT
           ![f] = IF @.accounts = {tr} THEN NoList
                  ELSE [@ EXCEPT !.accounts = @ \ {tr}]]

\* The list shrinks but is never removed: it carries the cooldown anchor.
record_remove_trading_account(f, tr) ==
    trading_accounts_by_funding' =
        [trading_accounts_by_funding EXCEPT ![f].accounts = @ \ {tr}]

RemoveTradingAccount(f, tr) ==
    /\ trading_accounts[tr] = f
    /\ trading_accounts' = [trading_accounts EXCEPT ![tr] = None]
    /\ record_remove_trading_account(f, tr)
    /\ UNCHANGED <<users, now, in_flight_user_ops, balanceVars,
                   ledger_fee_cache, calls, ledgerVars, held, lost>>
-----------------------------------------------------------------------------
(* Deposits and withdrawals up to their first await, lib.rs and guard/mod.rs *)

\* Faulty variants: the guard is taken without looking; it is never dropped.
UserOpGuardUnchecked(p, t) ==
    in_flight_user_ops' = in_flight_user_ops \cup {<<p, t>>}

DropGuardLeaking(k) == UNCHANGED in_flight_user_ops

\* UserOpGuard::new: one funding operation per caller and token.
UserOpGuard(p, t) ==
    /\ <<p, t>> \notin in_flight_user_ops
    /\ in_flight_user_ops' = in_flight_user_ops \cup {<<p, t>>}

\* UserOpGuard::drop, when a handler returns.
DropGuard(k) ==
    in_flight_user_ops' = in_flight_user_ops \ {<<k.caller, k.token>>}

\* The overflow check runs before the await; the credit runs after it.
Deposit(c, p, t, a) ==
    /\ calls[c].pc = "idle"
    /\ ~IsTrading(p)
    /\ UserOpGuard(p, t)
    /\ free[p][t] + reserved[p][t] + a <= MaxQuantity
    /\ calls' = [calls EXCEPT ![c] = LedgerCall("deposit", p, t, a, 1, a, 0)]
    /\ UNCHANGED <<registryVars, now, balanceVars, ledger_fee_cache,
                   ledgerVars, held, lost>>

\* The cached fee is capped so that the transfer amount stays positive.
capped_fee(t, a) ==
    IF ledger_fee_cache[t] < a THEN ledger_fee_cache[t] ELSE a - 1

\* Faulty variant: the debit is left to the continuation, which has none.
WithdrawUndebited(c, p, t, a) ==
    /\ calls[c].pc = "idle"
    /\ a > 0
    /\ IsFunding(p)
    /\ UserOpGuard(p, t)
    /\ free[p][t] >= a
    /\ LET fee == capped_fee(t, a)
       IN  calls' = [calls EXCEPT ![c] =
             LedgerCall("withdraw", p, t, a, 1, a - fee, fee)]
    /\ UNCHANGED <<registryVars, now, balanceVars, ledger_fee_cache,
                   ledgerVars, held, lost>>

Withdraw(c, p, t, a) ==
    /\ calls[c].pc = "idle"
    /\ a > 0
    /\ IsFunding(p)
    /\ UserOpGuard(p, t)
    /\ free[p][t] >= a
    /\ free' = Add(free, p, t, -a)
    /\ LET fee == capped_fee(t, a)
       IN  calls' = [calls EXCEPT ![c] =
             LedgerCall("withdraw", p, t, a, 1, a - fee, fee)]
    /\ UNCHANGED <<registryVars, now, reserved, fee_pool, ledger_fee_cache,
                   ledgerVars, held, lost>>

-----------------------------------------------------------------------------
(* The token ledgers (external).  A reply is a block index, a refusal or a  *)
(* BadFee.  A rejected call, which the Internet Computer guarantees not to  *)
(* have been executed, is a refusal as well.  The code also takes a reply   *)
(* that it cannot decode for a failure.  Such a reply is excluded here: the *)
(* ledgers are assumed to answer as their interface says.                   *)

Answer(c, k) == calls' = [calls EXCEPT ![c] = k]

TransferFromOk(c) ==
    LET k == calls[c]
    IN  /\ k.pc = "sent" /\ k.op = "deposit"
        /\ wallet[k.caller][k.token] >= k.amount + ledger_fee[k.token]
        /\ wallet' = Add(wallet, k.caller, k.token,
                         -(k.amount + ledger_fee[k.token]))
        /\ custody' = [custody EXCEPT ![k.token] = @ + k.transfer_amount]
        /\ held' = Add(held, k.caller, k.token, k.transfer_amount)
        /\ Answer(c, [k EXCEPT !.pc = "ok"])
        /\ UNCHANGED <<registryVars, now, in_flight_user_ops, balanceVars,
                       ledger_fee_cache, ledger_fee, lost>>

TransferOk(c) ==
    LET k == calls[c]
    IN  /\ k.pc = "sent" /\ k.op = "withdraw"
        /\ k.fee = ledger_fee[k.token]
        /\ wallet' = Add(wallet, k.caller, k.token, k.transfer_amount)
        /\ custody' = [custody EXCEPT ![k.token] =
                                  @ - (k.transfer_amount + k.fee)]
        /\ held' = Add(held, k.caller, k.token, -(k.transfer_amount + k.fee))
        /\ Answer(c, [k EXCEPT !.pc = "ok"])
        /\ UNCHANGED <<registryVars, now, in_flight_user_ops, balanceVars,
                       ledger_fee_cache, ledger_fee, lost>>

TransferBadFee(c) ==
    LET k == calls[c]
    IN  /\ k.pc = "sent" /\ k.op = "withdraw"
        /\ k.fee # ledger_fee[k.token]
        /\ Answer(c, [k EXCEPT !.pc = "badfee",
                               !.expected_fee = ledger_fee[k.token]])
        /\ UNCHANGED <<registryVars, now, in_flight_user_ops, balanceVars,
                       ledger_fee_cache, ledgerVars, held, lost>>

LedgerRefuses(c) ==
    LET k == calls[c]
    IN  /\ k.pc = "sent"
        /\ Answer(c, [k EXCEPT !.pc = "err"])
        /\ UNCHANGED <<registryVars, now, in_flight_user_ops, balanceVars,
                       ledger_fee_cache, ledgerVars, held, lost>>

LedgerFeeChange(t, f) ==
    /\ ledger_fee' = [ledger_fee EXCEPT ![t] = f]
    /\ UNCHANGED <<registryVars, now, in_flight_user_ops, balanceVars,
                   ledger_fee_cache, calls, wallet, custody, held, lost>>

-----------------------------------------------------------------------------
(* The continuations of the two handlers, lib.rs and ledger/mod.rs         *)

Fits(k) == free[k.caller][k.token] + k.amount <= MaxQuantity

\* State::deposit.  An overflow panics: the message is rolled back, except
\* that the guard is dropped, and the amount is credited to nobody.
deposit(k) ==
    IF Fits(k)
    THEN /\ users' = users \cup {k.caller}
         /\ free' = Add(free, k.caller, k.token, k.amount)
         /\ UNCHANGED lost
    ELSE /\ UNCHANGED <<users, free>>
         /\ lost' = Add(lost, k.caller, k.token, k.amount)

DepositDone(c) ==
    LET k == calls[c]
    IN  /\ k.op = "deposit" /\ k.pc = "ok"
        /\ deposit(k)
        /\ DropGuard(k)
        /\ calls' = [calls EXCEPT ![c] = NoCall]
        /\ UNCHANGED <<trading_accounts, trading_accounts_by_funding, now,
                       reserved, fee_pool, ledger_fee_cache, ledgerVars, held>>

DepositFailed(c) ==
    LET k == calls[c]
    IN  /\ k.op = "deposit" /\ k.pc = "err"
        /\ DropGuard(k)
        /\ calls' = [calls EXCEPT ![c] = NoCall]
        /\ UNCHANGED <<registryVars, now, balanceVars, ledger_fee_cache,
                       ledgerVars, held, lost>>

\* WithdrawOutcome::ledger_fee: the cache takes the fee the ledger last told
\* the call, if it told one.
set_cached_ledger_fee(k) ==
    ledger_fee_cache' =
        [ledger_fee_cache EXCEPT ![k.token] =
           CASE k.pc = "badfee" -> k.expected_fee
             [] k.pc # "badfee" /\ k.attempt = 2 -> k.fee
             [] OTHER -> @]

WithdrawDone(c) ==
    LET k == calls[c]
    IN  /\ k.op = "withdraw" /\ k.pc = "ok"
        /\ set_cached_ledger_fee(k)
        /\ DropGuard(k)
        /\ calls' = [calls EXCEPT ![c] = NoCall]
        /\ UNCHANGED <<registryVars, now, balanceVars, ledgerVars, held, lost>>

retries(k) == k.pc = "badfee" /\ k.attempt = 1 /\ k.amount > k.expected_fee

\* Faulty variant: the retry pays the new fee on top of the old net amount.
WithdrawRetryStaleAmount(c) ==
    LET k == calls[c]
    IN  /\ k.op = "withdraw" /\ retries(k)
        /\ calls' = [calls EXCEPT ![c] =
              LedgerCall("withdraw", k.caller, k.token, k.amount, 2,
                         k.transfer_amount, k.expected_fee)]
        /\ UNCHANGED <<registryVars, now, in_flight_user_ops, balanceVars,
                       ledger_fee_cache, ledgerVars, held, lost>>

\* A BadFee reply to the first attempt is retried once with the fee it names.
WithdrawRetry(c) ==
    LET k == calls[c]
    IN  /\ k.op = "withdraw" /\ retries(k)
        /\ calls' = [calls EXCEPT ![c] =
              LedgerCall("withdraw", k.caller, k.token, k.amount, 2,
                         k.amount - k.expected_fee, k.expected_fee)]
        /\ UNCHANGED <<registryVars, now, in_flight_user_ops, balanceVars,
                       ledger_fee_cache, ledgerVars, held, lost>>

\* Every other failure credits the debited amount back.
WithdrawFailed(c) ==
    LET k == calls[c]
    IN  /\ k.op = "withdraw" /\ k.pc \in {"err", "badfee"} /\ ~retries(k)
        /\ deposit(k)
        /\ IF Fits(k) THEN set_cached_ledger_fee(k)
                      ELSE UNCHANGED ledger_fee_cache
        /\ DropGuard(k)
        /\ calls' = [calls EXCEPT ![c] = NoCall]
        /\ UNCHANGED <<trading_accounts, trading_accounts_by_funding, now,
                       reserved, fee_pool, ledgerVars, held>>

-----------------------------------------------------------------------------
(* Trading, as far as the balances of this module see it: an order placed  *)
(* by an account or by its delegate reserves, a cancelled order unreserves, *)
(* a settled fill moves a reserved amount, less the fee, to the free balance *)
(* of the counterparty, who may be the same user.                           *)

Reserve(p, t, x) ==
    LET owner == effective_account(p)
    IN  /\ IsFunding(owner)
        /\ free[owner][t] >= x
        /\ free' = Add(free, owner, t, -x)
        /\ reserved' = Add(reserved, owner, t, x)
        /\ UNCHANGED <<registryVars, now, in_flight_user_ops, fee_pool,
                       ledger_fee_cache, calls, ledgerVars, held, lost>>

Unreserve(p, t, x) ==
    /\ reserved[p][t] >= x
    /\ free[p][t] + x <= MaxQuantity
    /\ free' = Add(free, p, t, x)
    /\ reserved' = Add(reserved, p, t, -x)
    /\ UNCHANGED <<registryVars, now, in_flight_user_ops, fee_pool,
                   ledger_fee_cache, calls, ledgerVars, held, lost>>

\* Faulty variant: the creditor is paid the gross amount, fee included.
TransferGross(debtor, creditor, t, gross, fee) ==
    /\ fee <= gross
    /\ fee_pool[t] + fee <= MaxQuantity
    /\ reserved[debtor][t] >= gross
    /\ IsFunding(creditor)
    /\ free[creditor][t] + gross <= MaxQuantity
    /\ fee_pool' = [fee_pool EXCEPT ![t] = @ + fee]
    /\ reserved' = Add(reserved, debtor, t, -gross)
    /\ free' = Add(free, creditor, t, gross)
    /\ held' = Add(Add(held, debtor, t, -gross), creditor, t, gross - fee)
    /\ UNCHANGED <<registryVars, now, in_flight_user_ops, ledger_fee_cache,
                   calls, ledgerVars, lost>>

\* BalanceWriteBack::transfer: the fee goes to the pool and the rest to the
\* creditor, who may be the debtor.  What the code asserts, or checks against
\* overflow, is a guard: a step that would trap is not taken.
Transfer(debtor, creditor, t, gross, fee) ==
    LET net == gross - fee
    IN  /\ fee <= gross
        /\ fee_pool[t] + fee <= MaxQuantity
        /\ reserved[debtor][t] >= gross
        /\ IsFunding(creditor)
        /\ free[creditor][t] + net <= MaxQuantity
        /\ fee_pool' = [fee_pool EXCEPT ![t] = @ + fee]
        /\ reserved' = Add(reserved, debtor, t, -gross)
        /\ free' = Add(free, creditor, t, net)
        /\ held' = Add(Add(held, debtor, t, -gross), creditor, t, net)
        /\ UNCHANGED <<registryVars, now, in_flight_user_ops,
                       ledger_fee_cache, calls, ledgerVars, lost>>

-----------------------------------------------------------------------------
Tick ==
    /\ now < MaxTime
    /\ now' = now + 1
    /\ UNCHANGED <<registryVars, in_flight_user_ops, balanceVars,
                   ledger_fee_cache, calls, ledgerVars, held, lost>>

\* A canister is stopped, hence without open calls, when it is upgraded.  The
\* registry and the balances are in stable memory, the fee pool and the fee
\* cache are in the snapshot, and the set of guards starts empty.
Upgrade ==
    /\ \A c \in Calls : calls[c].pc = "idle"
    /\ in_flight_user_ops' = {}
    /\ UNCHANGED <<registryVars, now, balanceVars, ledger_fee_cache, calls,
                   ledgerVars, held, lost>>

Zero == [p \in Principals |-> [t \in Tokens |-> 0]]

Init ==
    /\ users = {}
    /\ trading_accounts = [p \in Principals |-> None]
    /\ trading_accounts_by_funding = [p \in Principals |-> NoList]
    /\ now = 0
    /\ in_flight_user_ops = {}
    /\ free = Zero /\ reserved = Zero
    /\ fee_pool = [t \in Tokens |-> 0]
    /\ ledger_fee_cache = [t \in Tokens |-> 0]
    /\ calls = [c \in Calls |-> NoCall]
    /\ ledger_fee \in [Tokens -> LedgerFees]
    /\ wallet = [p \in Principals |-> [t \in Tokens |-> InitialWallet]]
    /\ custody = [t \in Tokens |-> 0]
    /\ held = Zero /\ lost = Zero

Request ==
    \E c \in Calls, p \in Principals, t \in Tokens, a \in Amounts :
        Deposit(c, p, t, a) \/ Withdraw(c, p, t, a)

Ledger(c) ==
    \/ TransferFromOk(c)
    \/ TransferOk(c)
    \/ TransferBadFee(c)
    \/ LedgerRefuses(c)

Callback(c) ==
    \/ DepositDone(c)
    \/ DepositFailed(c)
    \/ WithdrawDone(c)
    \/ WithdrawRetry(c)
    \/ WithdrawFailed(c)

Trading ==
    \E p \in Principals, t \in Tokens, x \in Amounts \ {0} :
        \/ Reserve(p, t, x)
        \/ Unreserve(p, t, x)
        \/ \E q \in Principals, fee \in 0 .. x : Transfer(p, q, t, x, fee)

Delegation ==
    \E f, tr \in Principals :
        AddTradingAccount(f, tr) \/ RemoveTradingAccount(f, tr)

Next ==
    \/ Request
    \/ \E c \in Calls : Ledger(c) \/ Callback(c)
    \/ \E t \in Tokens, f \in LedgerFees : LedgerFeeChange(t, f)
    \/ Trading
    \/ Delegation
    \/ Tick
    \/ Upgrade

Spec == Init /\ [][Next]_vars

\* The Internet Computer delivers a response to every call, and a response
\* runs the continuation of the handler that awaits it.
Fairness == \A c \in Calls : WF_vars(Ledger(c)) /\ WF_vars(Callback(c))

FairSpec == Spec /\ Fairness

-----------------------------------------------------------------------------
(* Properties                                                              *)

PerToken(S) == [Principals -> [Tokens -> S]]

Call == [pc : {"idle", "sent", "ok", "err", "badfee"},
         op : {"deposit", "withdraw", None},
         caller : Principals \cup {None}, token : Tokens \cup {None},
         amount : Nat, attempt : 0..2, transfer_amount : Nat, fee : Nat,
         expected_fee : Nat]

\* Types.  Among them: no balance is ever negative, and the amount and the
\* fee of every ledger transfer are natural numbers (the subtractions of
\* ledger::withdraw never underflow).
TypeOK ==
    /\ users \subseteq Principals
    /\ trading_accounts \in [Principals -> Principals \cup {None}]
    /\ trading_accounts_by_funding \in
          [Principals -> [accounts : SUBSET Principals,
                          last_granted_at : Nat \cup {None}]]
    /\ now \in Nat
    /\ in_flight_user_ops \subseteq Principals \X Tokens
    /\ free \in PerToken(Nat) /\ reserved \in PerToken(Nat)
    /\ fee_pool \in [Tokens -> Nat]
    /\ ledger_fee_cache \in [Tokens -> Nat]
    /\ calls \in [Calls -> Call]
    /\ ledger_fee \in [Tokens -> LedgerFees]
    /\ wallet \in PerToken(Nat)
    /\ custody \in [Tokens -> Int]
    /\ held \in PerToken(Int) /\ lost \in PerToken(Nat)

Live(c) == calls[c].pc # "idle"

OpensOn(c, p, t) == Live(c) /\ calls[c].caller = p /\ calls[c].token = t

\* The guard set is exactly the set of open funding calls, and no two of them
\* are for the same caller and token: a guard is neither bypassed while its
\* call awaits the ledger nor leaked once the call has returned (UserOpGuard).
GuardedCalls ==
    /\ \A p \in Principals, t \in Tokens :
          <<p, t>> \in in_flight_user_ops <=> \E c \in Calls : OpensOn(c, p, t)
    /\ \A c, d \in Calls :
          Live(c) /\ Live(d) /\ calls[c].caller = calls[d].caller
          /\ calls[c].token = calls[d].token => c = d

\* No principal is both a funding and a trading account (the assertion of
\* UserRegistry::lookup), although a deposit registers its caller only when
\* the ledger answers.  A trading account holds no balance, has no funding
\* operation in flight, and acts for a registered user.
FundingXorTrading ==
    \A p \in Principals : IsTrading(p) =>
        /\ p \notin users
        /\ IsFunding(trading_accounts[p])
        /\ \A t \in Tokens : /\ free[p][t] = 0 /\ reserved[p][t] = 0
                             /\ <<p, t>> \notin in_flight_user_ops

\* What an open call has taken from the balances and not yet given back, or
\* brought to the canister and not yet credited.
Owed(c) ==
    LET k == calls[c]
    IN  IF k.op = "deposit" THEN (IF k.pc = "ok" THEN k.amount ELSE 0)
                            ELSE (IF k.pc = "ok" THEN 0 ELSE k.amount)

Booked(p, t) == free[p][t] + reserved[p][t] + lost[p][t]

\* What all principals together have of t in the balance sheet f.
InAll(f, t) == SumFunction([p \in Principals |-> f[p][t]])

\* A principal's part of the canister's ledger account is what the books say
\* it has, with what its open call has taken from them or not yet brought.
SharesBacked ==
    \A p \in Principals, t \in Tokens :
        /\ (\A c \in Calls : ~OpensOn(c, p, t)) => held[p][t] = Booked(p, t)
        /\ \A c \in Calls :
              OpensOn(c, p, t) => held[p][t] = Booked(p, t) + Owed(c)

\* The ledger account is divided between the principals and the fee pool.
PoolBacked == \A t \in Tokens : custody[t] = InAll(held, t) + fee_pool[t]

\* Every balance and every fee is backed by tokens on the canister's ledger
\* account, and every token there belongs to a balance, to an open call or to
\* the fee pool: whatever the ledger answers, and whatever runs during the
\* awaits, a deposit is credited once, a successful withdrawal takes exactly
\* its amount off the ledger account, a failed one is a net-zero change
\* (lib.rs deposit, withdraw), and a fill, of a user with itself too, conserves
\* the gross amount across the two balances and the fee pool ("conserves
\* `gross` units of `token`", balance/write_back.rs).
CustodyBacked == SharesBacked /\ PoolBacked

\* The caller of a successful withdrawal receives its amount less the fee the
\* ledger charges at that moment, never less than one unit, whether the first
\* attempt or the retry succeeds and however stale the cached fee is.
WithdrawPaysNetOfFee ==
    [][\A c \in Calls :
          LET k == calls[c]
          IN  k.op = "withdraw" /\ k.pc = "sent" /\ calls'[c].pc = "ok" =>
                /\ wallet'[k.caller][k.token] = wallet[k.caller][k.token]
                                               + k.amount - ledger_fee[k.token]
                /\ k.amount > ledger_fee[k.token]]_vars

\* A whitelist names exactly the principals that hold a grant of its owner,
\* and at most MAX_TRADING_ACCOUNTS_PER_USER of them (the two maps of
\* UserRegistry agree).
WhitelistAgrees ==
    \A f \in Principals :
        LET list == trading_accounts_by_funding[f]
        IN  /\ \A tr \in Principals :
                  tr \in list.accounts <=> trading_accounts[tr] = f
            /\ Cardinality(list.accounts) <= MAX_TRADING_ACCOUNTS_PER_USER
            /\ list.accounts # {} => list.last_granted_at # None

\* A funding account's grants are a cooldown apart, also when it revokes
\* every trading account in between, since its grant time is never forgotten.
GrantsAreSpaced ==
    [][\A f \in Principals :
          LET old == trading_accounts_by_funding[f]
              new == trading_accounts_by_funding'[f]
          IN  /\ old.last_granted_at # None => new.last_granted_at # None
              /\ ~(new.accounts \subseteq old.accounts) =>
                    /\ cooldown_elapsed(old)
                    /\ new.last_granted_at = now]_vars

\* No continuation traps on an overflow, so no credit is lost: the check that
\* deposit makes before its await is stale afterwards, but balances never
\* exceed what the ledgers ever issued.
NoCreditLost == lost = Zero

\* A guard is released: neither a failing ledger nor a fee that changes
\* between the two attempts keeps a user locked out of a token.
GuardReleased ==
    \A p \in Principals, t \in Tokens :
        <<p, t>> \in in_flight_user_ops ~> <<p, t>> \notin in_flight_user_ops

=============================================================================
