------------------------ MODULE FundingAccountProofs ------------------------
(***************************************************************************)
(* Proof that no principal is both a funding and a trading account.  The   *)
(* invariant is inductive together with the guards (the caller of an open  *)
(* call cannot have become a trading account) and with the fact that only  *)
(* registered users have balances.  Then the two maps of the registry: they *)
(* agree, and grants are a cooldown apart.                                 *)
(***************************************************************************)
EXTENDS FundingProofs, FiniteSetTheorems

USE FundingAssumption DEF FundingAssumption, registryVars, balanceVars, ledgerVars

OnlyUsersHold ==
    \A p \in Principals : p \notin users =>
        \A t \in Tokens : free[p][t] = 0 /\ reserved[p][t] = 0

Separated == FundingXorTrading /\ OnlyUsersHold

SameBalance(p) ==
    \A t \in Tokens : free'[p][t] = free[p][t] /\ reserved'[p][t] = reserved[p][t]

\* A step that changes no grant may touch only funding accounts.
LEMMA NoGrantSeparated ==
    ASSUME Separated, UNCHANGED trading_accounts, users \subseteq users',
           \A p \in Principals : p \in users' \/ SameBalance(p),
           \A p \in Principals : IsTrading(p) =>
               /\ p \notin users' /\ SameBalance(p)
               /\ \A t \in Tokens : <<p, t>> \in in_flight_user_ops'
                                      => <<p, t>> \in in_flight_user_ops
    PROVE  Separated'
<1>1. \A p \in Principals : IsTrading(p)' <=> IsTrading(p)
  BY DEF IsTrading
<1>2. FundingXorTrading'
  BY <1>1 DEF Separated, FundingXorTrading, IsFunding, IsTrading, SameBalance
<1>3. OnlyUsersHold'
  BY DEF Separated, OnlyUsersHold, SameBalance
<1> QED BY <1>2, <1>3 DEF Separated

\* The caller of an open call is not a trading account.
LEMMA CallerIsNotTrading ==
    ASSUME Typed, GuardedCalls, Separated, NEW c \in Calls, Live(c)
    PROVE  ~IsTrading(calls[c].caller)
<1>1. calls[c].caller \in Principals /\ calls[c].token \in Tokens
  BY OpenCall
<1>2. <<calls[c].caller, calls[c].token>> \in in_flight_user_ops
  BY <1>1 DEF GuardedCalls, OpensOn
<1> QED BY <1>1, <1>2 DEF Separated, FundingXorTrading

\* A request is refused to trading accounts (permit_deposit, permit_withdraw),
\* so its guard is never one of theirs.
LEMMA RequestSeparated ==
    ASSUME Typed, Separated, Request
    PROVE  Separated'
<1> PICK c \in Calls, p \in Principals, t \in Tokens, a \in Amounts :
        Deposit(c, p, t, a) \/ Withdraw(c, p, t, a)
  BY DEF Request
<1>1. CASE Deposit(c, p, t, a)
  <2>1. \A q \in Principals : SameBalance(q)
    BY <1>1 DEF Deposit, SameBalance
  <2>2. /\ UNCHANGED <<users, trading_accounts>> /\ ~IsTrading(p)
        /\ in_flight_user_ops' = in_flight_user_ops \cup {<<p, t>>}
    BY <1>1 DEF Deposit, UserOpGuard
  <2> QED BY <2>1, <2>2, NoGrantSeparated DEF Separated, FundingXorTrading
<1>2. CASE Withdraw(c, p, t, a)
  <2>1. free \in PerToken(Nat) /\ -a \in Int /\ free[p][t] + (-a) >= 0
    BY <1>2 DEF Withdraw, Typed, TypeOK, PerToken
  <2>2. \A q \in Principals : q # p => SameBalance(q)
    BY <1>2, <2>1, AddNat DEF Withdraw, SameBalance
  <2>3. /\ UNCHANGED <<users, trading_accounts>>
        /\ ~IsTrading(p) /\ p \in users
        /\ in_flight_user_ops' = in_flight_user_ops \cup {<<p, t>>}
    BY <1>2 DEF Withdraw, UserOpGuard, IsFunding
  <2> QED BY <2>2, <2>3, NoGrantSeparated DEF Separated, FundingXorTrading
<1> QED BY <1>1, <1>2

\* Crediting the caller of an open call touches that caller only.
LEMMA CreditSeparated ==
    ASSUME Typed, GuardedCalls, Separated, NEW c \in Calls, Live(c),
           deposit(calls[c]), DropGuard(calls[c]),
           UNCHANGED <<trading_accounts, reserved>>
    PROVE  Separated'
<1> DEFINE k == calls[c]
<1>1. /\ k.caller \in Principals /\ k.token \in Tokens /\ k.amount \in Nat
      /\ ~IsTrading(k.caller)
  BY OpenCall, CallerIsNotTrading
<1>2. /\ users \subseteq users' /\ users' \subseteq users \cup {k.caller}
      /\ \A q \in Principals : q # k.caller => SameBalance(q)
      /\ k.caller \in users' \/ SameBalance(k.caller)
  <2>1. CASE Fits(k)
    <3>1. /\ free \in PerToken(Nat)
          /\ free[k.caller][k.token] + k.amount >= 0
      BY <1>1 DEF Typed, TypeOK, PerToken
    <3>2. /\ free' = Add(free, k.caller, k.token, k.amount)
          /\ users' = users \cup {k.caller}
      BY <2>1 DEF deposit
    <3>3. \A q \in Principals : q # k.caller => SameBalance(q)
      BY <1>1, <3>1, <3>2, AddNat DEF SameBalance
    <3> QED BY <3>2, <3>3
  <2>2. CASE ~Fits(k)
    BY <2>2 DEF deposit, SameBalance
  <2> QED BY <2>1, <2>2
<1>3. in_flight_user_ops' \subseteq in_flight_user_ops
  BY DEF DropGuard
<1> QED
  BY <1>1, <1>2, <1>3, NoGrantSeparated DEF Separated, FundingXorTrading

\* Steps that touch neither registry nor balances, and take no guard.
LEMMA QuietSeparated ==
    ASSUME Separated,
           UNCHANGED <<users, trading_accounts, free, reserved>>,
           in_flight_user_ops' \subseteq in_flight_user_ops
    PROVE  Separated'
<1>1. \A p \in Principals : SameBalance(p)
  BY DEF SameBalance
<1> QED BY <1>1, NoGrantSeparated DEF Separated, FundingXorTrading

\* A continuation registers and credits only a caller whose guard kept it from
\* being granted in the meantime.
LEMMA CallbackSeparated ==
    ASSUME Typed, GuardedCalls, Separated, NEW c \in Calls, Callback(c)
    PROVE  Separated'
<1>1. CASE DepositDone(c)
  BY <1>1, CreditSeparated DEF DepositDone, Live
<1>2. CASE DepositFailed(c)
  BY <1>2, QuietSeparated DEF DepositFailed, DropGuard
<1>3. CASE WithdrawDone(c)
  BY <1>3, QuietSeparated DEF WithdrawDone, DropGuard
<1>4. CASE WithdrawRetry(c)
  BY <1>4, QuietSeparated DEF WithdrawRetry
<1>5. CASE WithdrawFailed(c)
  BY <1>5, CreditSeparated DEF WithdrawFailed, Live
<1> QED BY <1>1, <1>2, <1>3, <1>4, <1>5 DEF Callback

\* Trading moves balances between funding accounts only (effective_account).
LEMMA TradingSeparated ==
    ASSUME Typed, Separated, Trading
    PROVE  Separated'
<1>0. /\ free \in PerToken(Nat) /\ reserved \in PerToken(Nat)
      /\ trading_accounts \in [Principals -> Principals \cup {None}]
  BY DEF Typed, TypeOK
<1> PICK p \in Principals, t \in Tokens, x \in Amounts \ {0} :
        \/ Reserve(p, t, x)
        \/ Unreserve(p, t, x)
        \/ \E q \in Principals, fee \in 0 .. x : Transfer(p, q, t, x, fee)
  BY DEF Trading
<1>1. x \in Nat /\ x > 0 /\ -x \in Int
  OBVIOUS
<1>2. ASSUME NEW q \in Principals, reserved[q][t] >= x
      PROVE  q \in users /\ ~IsTrading(q)
  BY <1>0, <1>1, <1>2 DEF PerToken, Separated, OnlyUsersHold, FundingXorTrading
<1>3. CASE Reserve(p, t, x)
  <2> DEFINE owner == effective_account(p)
  <2>1. owner \in Principals
    BY <1>0 DEF effective_account, IsTrading
  <2>2. /\ owner \in users /\ ~IsTrading(owner)
        /\ free' = Add(free, owner, t, -x)
        /\ reserved' = Add(reserved, owner, t, x)
        /\ UNCHANGED <<users, trading_accounts, in_flight_user_ops>>
        /\ free[owner][t] >= x
    BY <1>3 DEF Reserve, IsFunding
  <2> HIDE DEF owner
  <2>3. free[owner][t] + (-x) >= 0 /\ reserved[owner][t] + x >= 0
    BY <1>0, <1>1, <2>1, <2>2 DEF PerToken
  <2>4. \A q \in Principals : q # owner => SameBalance(q)
    BY <1>0, <1>1, <2>1, <2>2, <2>3, AddNat DEF SameBalance
  <2> QED BY <2>2, <2>4, NoGrantSeparated DEF Separated, FundingXorTrading
<1>4. CASE Unreserve(p, t, x)
  <2>1. /\ p \in users /\ ~IsTrading(p)
        /\ free' = Add(free, p, t, x)
        /\ reserved' = Add(reserved, p, t, -x)
        /\ UNCHANGED <<users, trading_accounts, in_flight_user_ops>>
        /\ reserved[p][t] >= x
    BY <1>2, <1>4 DEF Unreserve
  <2>2. free[p][t] + x >= 0 /\ reserved[p][t] + (-x) >= 0
    BY <1>0, <1>1, <2>1 DEF PerToken
  <2>3. \A q \in Principals : q # p => SameBalance(q)
    BY <1>0, <1>1, <2>1, <2>2, AddNat DEF SameBalance
  <2> QED BY <2>1, <2>3, NoGrantSeparated DEF Separated, FundingXorTrading
<1>5. ASSUME NEW q \in Principals, NEW fee \in 0 .. x, Transfer(p, q, t, x, fee)
      PROVE  Separated'
  <2>0. PICK n \in Nat : n = x - fee
    BY <1>1
  <2>1. /\ p \in users /\ ~IsTrading(p) /\ q \in users /\ ~IsTrading(q)
        /\ free' = Add(free, q, t, n)
        /\ reserved' = Add(reserved, p, t, -x)
        /\ UNCHANGED <<users, trading_accounts, in_flight_user_ops>>
        /\ reserved[p][t] >= x
    BY <1>2, <1>5, <2>0 DEF Transfer, IsFunding
  <2>2. free[q][t] + n >= 0 /\ reserved[p][t] + (-x) >= 0
    BY <1>0, <1>1, <2>1 DEF PerToken
  <2>3. \A r \in Principals : r # p /\ r # q => SameBalance(r)
    BY <1>0, <1>1, <2>1, <2>2, AddNat DEF SameBalance
  <2> QED BY <2>1, <2>3, NoGrantSeparated DEF Separated, FundingXorTrading
<1> QED BY <1>3, <1>4, <1>5

\* A grant takes only a principal that is unregistered and has no funding
\* operation in flight (validate_add_trading_account).
LEMMA DelegationSeparated ==
    ASSUME Typed, Separated, Delegation
    PROVE  Separated'
<1> PICK f \in Principals, tr \in Principals :
        AddTradingAccount(f, tr) \/ RemoveTradingAccount(f, tr)
  BY DEF Delegation
<1>0. trading_accounts \in [Principals -> Principals \cup {None}]
  BY DEF Typed, TypeOK
<1>1. CASE AddTradingAccount(f, tr)
  <2>1. /\ trading_accounts' = [trading_accounts EXCEPT ![tr] = f]
        /\ UNCHANGED <<users, free, reserved, in_flight_user_ops>>
        /\ f \in users /\ ~IsTrading(f) /\ tr # f /\ tr \notin users
        /\ \A t \in Tokens : <<tr, t>> \notin in_flight_user_ops
    BY <1>1 DEF AddTradingAccount, validate_add_trading_account, IsFunding
  <2>2. OnlyUsersHold'
    BY <2>1 DEF Separated, OnlyUsersHold
  <2>3. ASSUME NEW p \in Principals, IsTrading(p)'
        PROVE  /\ p \notin users' /\ IsFunding(trading_accounts[p])'
               /\ \A t \in Tokens : /\ free'[p][t] = 0 /\ reserved'[p][t] = 0
                                    /\ <<p, t>> \notin in_flight_user_ops'
    <3>1. CASE p = tr
      BY <1>0, <2>1, <3>1 DEF Separated, OnlyUsersHold, IsFunding, IsTrading
    <3>2. CASE p # tr
      BY <1>0, <2>1, <2>3, <3>2
      DEF Separated, FundingXorTrading, IsFunding, IsTrading
    <3> QED BY <3>1, <3>2
  <2> QED BY <2>2, <2>3 DEF Separated, FundingXorTrading
<1>2. CASE RemoveTradingAccount(f, tr)
  BY <1>0, <1>2 DEF RemoveTradingAccount, Separated, FundingXorTrading,
                    OnlyUsersHold, IsFunding, IsTrading
<1> QED BY <1>1, <1>2

\* Every step keeps funding and trading accounts apart.
LEMMA SeparatedStep ==
    Typed /\ GuardedCalls /\ Separated /\ [Next]_vars => Separated'
<1> SUFFICES ASSUME Typed, GuardedCalls, Separated, [Next]_vars
             PROVE  Separated'
  OBVIOUS
<1>1. CASE Request
  BY <1>1, RequestSeparated
<1>2. ASSUME NEW c \in Calls, Ledger(c) PROVE Separated'
  BY <1>2, QuietSeparated
     DEF Ledger, TransferFromOk, TransferOk, TransferBadFee, LedgerRefuses
<1>3. ASSUME NEW c \in Calls, Callback(c) PROVE Separated'
  BY <1>3, CallbackSeparated
<1>4. ASSUME NEW t \in Tokens, NEW f \in LedgerFees, LedgerFeeChange(t, f)
      PROVE  Separated'
  BY <1>4, QuietSeparated DEF LedgerFeeChange
<1>5. CASE Trading
  BY <1>5, TradingSeparated
<1>6. CASE Delegation
  BY <1>6, DelegationSeparated
<1>7. CASE Tick
  BY <1>7, QuietSeparated DEF Tick
<1>8. CASE Upgrade
  BY <1>8, QuietSeparated DEF Upgrade
<1>9. CASE UNCHANGED vars
  BY <1>9, QuietSeparated DEF vars
<1> QED BY <1>1, <1>2, <1>3, <1>4, <1>5, <1>6, <1>7, <1>8, <1>9 DEF Next

\* A principal never is a funding and a trading account at once, although a
\* grant may be asked for while the first deposit of its grantee is waiting
\* for a ledger (the assertion in UserRegistry::lookup never fails).
THEOREM AccountsAreSeparate == Spec => []FundingXorTrading
<1>1. Init => Separated
  BY DEF Init, Separated, FundingXorTrading, OnlyUsersHold, IsTrading, Zero
<1>2. Separated => FundingXorTrading
  BY DEF Separated
<1> QED
  BY <1>1, <1>2, SeparatedStep, AlwaysTyped, GuardsAreExact, PTL DEF Spec

-----------------------------------------------------------------------------
(* The whitelists.                                                         *)

\* The invariant of the registry: a whitelist is finite as well, without which
\* its cardinality says nothing.
Whitelisted ==
    /\ WhitelistAgrees
    /\ \A f \in Principals : IsFiniteSet(trading_accounts_by_funding[f].accounts)

\* Only grants and revocations touch the two maps.
LEMMA RegistryUntouched ==
    ASSUME Next, ~Delegation
    PROVE  UNCHANGED <<trading_accounts, trading_accounts_by_funding>>
<1>1. CASE Request
  BY <1>1 DEF Request, Deposit, Withdraw
<1>2. ASSUME NEW c \in Calls, Ledger(c)
      PROVE  UNCHANGED <<trading_accounts, trading_accounts_by_funding>>
  BY <1>2 DEF Ledger, TransferFromOk, TransferOk, TransferBadFee, LedgerRefuses
<1>3. ASSUME NEW c \in Calls, Callback(c)
      PROVE  UNCHANGED <<trading_accounts, trading_accounts_by_funding>>
  BY <1>3 DEF Callback, DepositDone, DepositFailed, WithdrawDone, WithdrawRetry,
              WithdrawFailed
<1>4. ASSUME NEW t \in Tokens, NEW f \in LedgerFees, LedgerFeeChange(t, f)
      PROVE  UNCHANGED <<trading_accounts, trading_accounts_by_funding>>
  BY <1>4 DEF LedgerFeeChange
<1>5. CASE Trading
  BY <1>5 DEF Trading, Reserve, Unreserve, Transfer
<1>6. CASE Tick \/ Upgrade
  BY <1>6 DEF Tick, Upgrade
<1> QED BY <1>1, <1>2, <1>3, <1>4, <1>5, <1>6 DEF Next

\* A grant adds a principal that is on no whitelist to one that has room.
LEMMA GrantWhitelisted ==
    ASSUME Typed, Whitelisted, NEW f \in Principals, NEW tr \in Principals,
           AddTradingAccount(f, tr)
    PROVE  Whitelisted'
<1> DEFINE lists == trading_accounts_by_funding
           new == [accounts |-> lists[f].accounts \cup {tr}, last_granted_at |-> now]
<1>1. /\ trading_accounts \in [Principals -> Principals \cup {None}]
      /\ lists \in [Principals -> [accounts : SUBSET Principals,
                                   last_granted_at : Nat \cup {None}]]
      /\ now \in Nat
  BY DEF Typed, TypeOK
<1>2. /\ trading_accounts' = [trading_accounts EXCEPT ![tr] = f]
      /\ lists' = [lists EXCEPT ![f] = new]
      /\ trading_accounts[tr] = None
      /\ Cardinality(lists[f].accounts) < MAX_TRADING_ACCOUNTS_PER_USER
  BY DEF AddTradingAccount, validate_add_trading_account, IsTrading
<1>3. /\ \A g \in Principals : lists'[g] = IF g = f THEN new ELSE lists[g]
      /\ \A p \in Principals :
           trading_accounts'[p] = IF p = tr THEN f ELSE trading_accounts[p]
  BY <1>1, <1>2
<1>4. /\ IsFiniteSet(new.accounts)
      /\ Cardinality(new.accounts) <= MAX_TRADING_ACCOUNTS_PER_USER
  <2>1. IsFiniteSet(lists[f].accounts) /\ tr \notin lists[f].accounts
    BY <1>2 DEF Whitelisted, WhitelistAgrees
  <2>2. /\ IsFiniteSet(lists[f].accounts \cup {tr})
        /\ Cardinality(lists[f].accounts \cup {tr})
             = Cardinality(lists[f].accounts) + 1
    BY <2>1, FS_AddElement
  <2>3. Cardinality(lists[f].accounts) \in Nat
    BY <2>1, FS_CardinalityType
  <2> QED BY <1>2, <2>2, <2>3
<1>5. ASSUME NEW g \in Principals
      PROVE  /\ \A p \in Principals :
                  p \in lists'[g].accounts <=> trading_accounts'[p] = g
             /\ Cardinality(lists'[g].accounts) <= MAX_TRADING_ACCOUNTS_PER_USER
             /\ lists'[g].accounts # {} => lists'[g].last_granted_at # None
             /\ IsFiniteSet(lists'[g].accounts)
  <2>1. CASE g = f
    <3>1. lists'[g] = new /\ new.last_granted_at = now
      BY <1>3, <2>1
    <3>2. new.last_granted_at # None
      BY <1>1, <3>1, NoTimeAssumption
    <3>3. \A p \in Principals : p \in new.accounts <=> trading_accounts'[p] = g
      <4>1. \A p \in Principals :
              p \in lists[f].accounts <=> trading_accounts[p] = f
        BY DEF Whitelisted, WhitelistAgrees
      <4> QED BY <1>2, <1>3, <2>1, <4>1
    <3> QED BY <1>4, <3>1, <3>2, <3>3
  <2>2. CASE g # f
    BY <1>2, <1>3, <2>2 DEF Whitelisted, WhitelistAgrees
  <2> QED BY <2>1, <2>2
<1> QED BY <1>5 DEF Whitelisted, WhitelistAgrees

\* A revocation takes a principal off the one whitelist that names it.
LEMMA RevocationWhitelisted ==
    ASSUME Typed, Whitelisted, NEW f \in Principals, NEW tr \in Principals,
           RemoveTradingAccount(f, tr)
    PROVE  Whitelisted'
<1> DEFINE lists == trading_accounts_by_funding
<1>1. /\ trading_accounts \in [Principals -> Principals \cup {None}]
      /\ lists \in [Principals -> [accounts : SUBSET Principals,
                                   last_granted_at : Nat \cup {None}]]
  BY DEF Typed, TypeOK
<1>2. /\ \A g \in Principals :
           /\ lists'[g].accounts = IF g = f THEN lists[g].accounts \ {tr}
                                   ELSE lists[g].accounts
           /\ lists'[g].last_granted_at = lists[g].last_granted_at
      /\ \A p \in Principals :
           trading_accounts'[p] = IF p = tr THEN None ELSE trading_accounts[p]
      /\ trading_accounts[tr] = f
  <2>1. /\ lists' = [lists EXCEPT ![f].accounts = @ \ {tr}]
        /\ trading_accounts' = [trading_accounts EXCEPT ![tr] = None]
        /\ trading_accounts[tr] = f
    BY DEF RemoveTradingAccount, record_remove_trading_account
  <2>2. \A g \in Principals :
           /\ lists'[g].accounts = IF g = f THEN lists[g].accounts \ {tr}
                                   ELSE lists[g].accounts
           /\ lists'[g].last_granted_at = lists[g].last_granted_at
    <3>1. /\ lists'[f] = [lists[f] EXCEPT !.accounts = @ \ {tr}]
          /\ \A g \in Principals : g # f => lists'[g] = lists[g]
      BY <1>1, <2>1
    <3>2. lists[f] \in [accounts : SUBSET Principals,
                        last_granted_at : Nat \cup {None}]
      BY <1>1
    <3>3. /\ lists'[f].accounts = lists[f].accounts \ {tr}
          /\ lists'[f].last_granted_at = lists[f].last_granted_at
      BY <3>1, <3>2
    <3> QED BY <3>1, <3>3
  <2>3. \A p \in Principals :
           trading_accounts'[p] = IF p = tr THEN None ELSE trading_accounts[p]
    BY <1>1, <2>1
  <2> QED BY <2>1, <2>2, <2>3
<1>3. /\ IsFiniteSet(lists[f].accounts \ {tr})
      /\ Cardinality(lists[f].accounts \ {tr}) <= MAX_TRADING_ACCOUNTS_PER_USER
  <2>1. /\ IsFiniteSet(lists[f].accounts) /\ tr \in lists[f].accounts
        /\ Cardinality(lists[f].accounts) <= MAX_TRADING_ACCOUNTS_PER_USER
    BY <1>2 DEF Whitelisted, WhitelistAgrees
  <2>2. /\ IsFiniteSet(lists[f].accounts \ {tr})
        /\ Cardinality(lists[f].accounts \ {tr})
             = Cardinality(lists[f].accounts) - 1
    BY <2>1, FS_RemoveElement
  <2>3. Cardinality(lists[f].accounts) \in Nat
    BY <2>1, FS_CardinalityType
  <2> QED BY <2>1, <2>2, <2>3
<1>4. ASSUME NEW g \in Principals
      PROVE  /\ \A p \in Principals :
                  p \in lists'[g].accounts <=> trading_accounts'[p] = g
             /\ Cardinality(lists'[g].accounts) <= MAX_TRADING_ACCOUNTS_PER_USER
             /\ lists'[g].accounts # {} => lists'[g].last_granted_at # None
             /\ IsFiniteSet(lists'[g].accounts)
  <2>1. CASE g = f
    BY <1>2, <1>3, <2>1 DEF Whitelisted, WhitelistAgrees
  <2>2. CASE g # f
    <3>1. /\ \A p \in Principals : p \in lists[g].accounts <=> trading_accounts[p] = g
          /\ Cardinality(lists[g].accounts) <= MAX_TRADING_ACCOUNTS_PER_USER
          /\ lists[g].accounts # {} => lists[g].last_granted_at # None
          /\ IsFiniteSet(lists[g].accounts)
      BY DEF Whitelisted, WhitelistAgrees
    <3>2. /\ lists'[g].accounts = lists[g].accounts
          /\ lists'[g].last_granted_at = lists[g].last_granted_at
      BY <1>2, <2>2
    <3>3. \A p \in Principals : trading_accounts'[p] = g <=> trading_accounts[p] = g
      BY <1>2, <2>2
    <3> QED BY <3>1, <3>2, <3>3
  <2> QED BY <2>1, <2>2
<1> QED BY <1>4 DEF Whitelisted, WhitelistAgrees

\* A whitelist and the grants of its owner always agree, for any number of
\* principals, and its limit is kept (the two maps of UserRegistry).
THEOREM WhitelistsAgree == Spec => []WhitelistAgrees
<1>1. Init => Whitelisted
  <2> SUFFICES ASSUME Init PROVE Whitelisted
    OBVIOUS
  <2>1. /\ trading_accounts_by_funding = [p \in Principals |-> NoList]
        /\ trading_accounts = [p \in Principals |-> None]
    BY DEF Init
  <2>2. IsFiniteSet({}) /\ Cardinality({}) = 0
    BY FS_EmptySet
  <2>3. ASSUME NEW f \in Principals
        PROVE  trading_accounts_by_funding[f].accounts = {}
    BY <2>1 DEF NoList
  <2>4. \A p \in Principals : trading_accounts[p] \notin Principals
    BY <2>1
  <2>5. ASSUME NEW f \in Principals
        PROVE  /\ Cardinality(trading_accounts_by_funding[f].accounts)
                    <= MAX_TRADING_ACCOUNTS_PER_USER
               /\ IsFiniteSet(trading_accounts_by_funding[f].accounts)
    BY <2>2, <2>3
  <2> QED BY <2>3, <2>4, <2>5 DEF Whitelisted, WhitelistAgrees
<1>2. Typed /\ Whitelisted /\ [Next]_vars => Whitelisted'
  <2> SUFFICES ASSUME Typed, Whitelisted, [Next]_vars PROVE Whitelisted'
    OBVIOUS
  <2>1. CASE Delegation
    BY <2>1, GrantWhitelisted, RevocationWhitelisted DEF Delegation
  <2>2. CASE UNCHANGED <<trading_accounts, trading_accounts_by_funding>>
    BY <2>2 DEF Whitelisted, WhitelistAgrees
  <2>3. CASE UNCHANGED vars
    BY <2>2, <2>3 DEF vars
  <2> QED BY <2>1, <2>2, <2>3, RegistryUntouched
<1>3. Whitelisted => WhitelistAgrees
  BY DEF Whitelisted
<1> QED BY <1>1, <1>2, <1>3, AlwaysTyped, PTL DEF Spec

\* Grants are a cooldown apart and the time of the last one is never forgotten,
\* whatever is revoked in between (validate_add_trading_account).
THEOREM GrantsSpaced == Spec => GrantsAreSpaced
<1> DEFINE Spaced(f) ==
             LET old == trading_accounts_by_funding[f]
                 new == trading_accounts_by_funding'[f]
             IN  /\ old.last_granted_at # None => new.last_granted_at # None
                 /\ ~(new.accounts \subseteq old.accounts) =>
                       /\ cooldown_elapsed(old)
                       /\ new.last_granted_at = now
<1>1. Typed /\ [Next]_vars => [\A f \in Principals : Spaced(f)]_vars
  <2> SUFFICES ASSUME Typed, Next, NEW f \in Principals PROVE Spaced(f)
    OBVIOUS
  <2>0. /\ trading_accounts_by_funding \in
             [Principals -> [accounts : SUBSET Principals,
                             last_granted_at : Nat \cup {None}]]
        /\ now \in Nat
    BY DEF Typed, TypeOK
  <2>1. ASSUME NEW g \in Principals, NEW tr \in Principals, AddTradingAccount(g, tr)
        PROVE  Spaced(f)
    BY <2>0, <2>1, NoTimeAssumption
       DEF AddTradingAccount, validate_add_trading_account
  <2>2. ASSUME NEW g \in Principals, NEW tr \in Principals,
               RemoveTradingAccount(g, tr)
        PROVE  Spaced(f)
    BY <2>0, <2>2 DEF RemoveTradingAccount, record_remove_trading_account
  <2>3. CASE ~Delegation
    BY <2>3, RegistryUntouched
  <2> QED BY <2>1, <2>2, <2>3 DEF Delegation
<1> QED BY <1>1, AlwaysTyped, PTL DEF Spec, GrantsAreSpaced

=============================================================================
