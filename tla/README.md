# A TLA+ model of OISY TRADE

OISY TRADE is a canister of the Internet Computer that runs limit-order books.
Users deposit tokens from ICRC ledgers, place and cancel limit orders, and
withdraw. This directory models the parts of the canister that change state,
checks them with TLC on small instances, and proves the central facts with
TLAPS for instances of any size. Paths below are relative to
`src/canister/src/` unless they start with `src/`.

## The system

The canister executes one message at a time. A message runs to its end, or
traps and is rolled back. Other messages run in between only where a handler
awaits, and the only handlers that await are `deposit` and `withdraw`.

| Part | Source | Modelled in |
| --- | --- | --- |
| Order book: pending queue, two sides, index, planning and applying fills | `order/book.rs`, `plan.rs`, `queue/`, `fill.rs` | `OrderBook` |
| Fees in basis points, quote notionals | `order/fees.rs`, `order/mod.rs` | `Fees` |
| Settlement of a matching round | `settlement/mod.rs` | `Settlement` |
| Placing and canceling orders, matching and settling events | `lib.rs`, `state/mod.rs` | `Exchange` |
| Executor: chunks, instruction budget, backlog | `execute/mod.rs` | `Exchange` |
| Balances, fee pool and the write-back buffer | `balance/` | `WriteBack`, abstractly `BalanceLedger`; as plain balances `Exchange`, `Funding` |
| Order and trade records, the per-user index and its pages | `history/`, `order/history/`, `order/trades/` | `History`, `Paging`; as plain functions `Exchange`, abstractly `OrderLifecycle` |
| Timers, rescheduling, `TimerGuard` | `lib.rs`, `main.rs`, `lifecycle/`, `guard/` | `Scheduler` |
| Halts | `state/permissions/`, `lib.rs` | `Exchange`, `Administration`, `Scheduler` |
| Installation, listing of pairs, configuration | `lib.rs` `add_trading_pair`, `state/mod.rs`, `state/execution_policy/` | `Administration`; in `Exchange` its conditions, `Listable`, are assumed of every book |
| Upgrades, snapshot | `lifecycle/`, `state/snapshot/` | `Administration`, and what they do to each part in `Exchange`, `Funding`, `Scheduler`, `WriteBack` |
| Event log and replay | `state/audit/`, `state/event/`, `storage/` | `Replay`, `Administration` |
| Deposits, withdrawals, per-user guard, ledger fee cache | `lib.rs`, `ledger/`, `guard/` | `Funding`, with trading in `Replay` |
| User registry, trading accounts | `user/mod.rs` | `Funding` |
| 256-bit `Quantity` | `order/mod.rs` | `Quantity`; elsewhere naturals with a largest value |
| Identifiers | `ids/mod.rs` | pairs of a book and a sequence number in `Exchange` and `Paging`; their texts and bytes are not modelled |
| Depth, ticker, balance queries | `lib.rs`, `state/mod.rs` | `Queries` |
| Dashboard, metrics, runtime, public types, client, benchmarks | | not modelled, see below |

`PROJECT.json` lists the parts in full, the source lines of every definition
and the hazards of the code with the properties that address them.

## Modules

**`OrderBook`** has the methods of a book as operators that return the changed
book and the method's result. A side is the sequence in which the code iterates
over it: best level first, oldest order first. `plan_fills` is the read-only
walk; `apply_plan` replays the plan and reports `bug` where an assertion or an
`expect` of the code would fail. `process_pending_orders` folds `match_order`
over the orders of a chunk.

**`Fees`** and **`Settlement`** compute what a round owes. A fill makes two
transfers and, for a buyer below its limit, a release of the price improvement.
The round's units are cut into settling batches. A settling event carries lean
fills, from which the trade legs are rebuilt when the event is settled.

**`Exchange`** composes the three with balances, records, halts, the executor
and upgrades. Its actions:

| Action | Code |
| --- | --- |
| `AddLimitOrder` | `add_limit_order`: validation, halt check, reservation, record, queue |
| `CancelLimitOrder` | `cancel_limit_order`: removal, record, and the refund, which is settled at once and ahead of the backlog |
| `RunOnce`, `SettleNext`, `Drained`, `MatchBook`, `SkipHaltedBook`, `RunComplete`, `BudgetSpent` | the stretches of `run_once` between two checks of the instruction budget |
| `SetHalt` | `halt_trading`, `resume_trading` |
| `Upgrade` | `pre_upgrade`, `post_upgrade`: the books go through their snapshots, the policy may change |

`run_once` is one message. It is cut into steps, during which no other message
is possible (`executor = Idle` guards them all), because the budget may end it
at each of its checks. The variable `bug` records that some panic marked "BUG"
would have occurred.

**`OrderLifecycle`** is the abstract specification of what users are promised
about orders: placing, canceling and matching rounds that respect priority,
take pending orders in turn, buy as much as they sell, kill or fill
fill-or-kill orders, and leave nothing that crosses. `Exchange` implements it
under the projection of `order_history` (`ImplementsLifecycle`).

**`Funding`** cuts `deposit` and `withdraw` at their awaits. A call context
holds the locals of a handler. The ledgers are external: they accept, refuse or
reply BadFee, and change their fee at any time. Trading appears as what it does
to balances: reserve, unreserve, and transfer, which moves the gross amount less
a fee from the debtor to the creditor, who may be the same user, and the fee to
`fee_pool`. `custody` is the canister's own account on a ledger. Two history
variables, `held` and `lost`, record which part of `custody` belongs to which
principal, and credits that a trapping continuation could not apply.
`CustodyBacked` has two parts: each principal's part is what the books say it
has, and `custody` is the sum of all the parts and the fee pool. Together they
are the invariant stated at `BalanceWriteBack::transfer`, with the open calls
accounted for.

**`Replay`** composes `Exchange` with deposits and withdrawals over one balance
sheet and adds the event log. A handler's step appends the events that the
handler appends; a withdrawal is debited without an event, logged when the ledger
has paid and credited back without one when it has not. The log is read once,
front to back, so the model keeps what a replay of the log has built so far (a
second instance of `Exchange`) instead of the log.

**`Scheduler`** is about when `run_once` runs: zero-delay timers queued by
placing, resuming and unfinished runs, the interval timer, the `TimerGuard`, and
what an upgrade or a trapped callback loses. A book is the number of its pending
orders, and a run ends in any of the states the budgets allow.

**`Administration`** is about installing, listing, halting and upgrading. Each
operation is one message. `event_log` and the snapshot cell are variables; an
upgrade may skip `pre_upgrade`, and then `post_upgrade` finds the cell empty and
traps.

**`History`** has the two-map record store as operators. **`Paging`** puts the
order and the trade history on it and lets a client walk over its lists page by
page while orders are placed, matched and settled. A match updates the order
records in the message of the matching round (`record_matching_event`); its two
trades are appended in the later message that settles it
(`record_settling_event`).

**`WriteBack`** has the stable rows, the buffer of a batch, the fees on the heap,
and traps that undo a message. **`BalanceLedger`** is what it promises: balances
changed in place, committed or aborted per message.

**`Quantity`** has the limb arithmetic and its encodings, with the widths of
bytes and limbs as constants.

**`Queries`** extends `Exchange` by the replies to depth, ticker and balance
queries. A query runs between messages and changes nothing, so it is an operator
and its properties are invariants.

**`FundingProofs`** (types, guards, payments), **`FundingAccountProofs`**,
**`FundingCustodyProofs`**, **`FeesProofs`**, **`OrderLifecycleProofs`**,
**`QuantityProofs`**, **`PagingProofs`** and **`WriteBackProofs`** contain the
theorems. The modules **`MC...`** give the constants values. Definitions marked
"Faulty variant" are deliberate mistakes: put in the place of the original
they make a property fail, which shows that the property has something to say
about that piece of code.

## What TLC checks

| Run (cfg) | Instance | Shows |
| --- | --- | --- |
| `MCFunding` | 2 principals, 1 token, 2 open calls, amounts 1-2, fees 0-2, fills that withhold any part; 370k states | guards are exact, balances and fee pool are backed, no credit is lost, withdrawals pay amount less fee |
| `MCAccounts` | 2 principals, 2 open calls, fees 0-1, cap 1, cooldown 1, time to 2; 164k states | funding and trading accounts stay apart, whitelists agree with grants, grants are spaced, every guard is released |
| `MCQueries` | 2 users, a delegate and a stranger, 1 book, 3 good-til-canceled orders, 2 prices, 2 quantities, chunk 2, cap 1; 313k states | no panic, exact reservations, trades match records, fees accounted, price-time priority; depth and ticker agree with the order records and are not crossed, shown balances add up to the deposits, filters select |
| `MCFillOrKill` | 1 user, both times in force, otherwise as above; 312k states | exact reservations, records match the book, trades within limits, refinement of `OrderLifecycle` |
| `MCExchangeLive` | 1 user, 2 books sharing the quote token, 2 orders each, halts, two policies; 49k states | reservations stay exact across books, halts and policy changes with a backlog; the backlog drains under any halt, pending orders are served |
| `MCFokCanceled` | as `MCFillOrKill` | a violation, see below |
| `MCReplay` | 2 users, 1 book, 2 orders, 2 deposits, withdrawals, halts, upgrades; 110k states | replay reproduces books, records, trades, balances and registry after every step and never panics; deposits less payments back all balances, in the middle of a run too |
| `MCScheduler` | 2 books, 3 orders, chunk 2, 2 resumes, 2 upgrades or traps; 20k states | work that is left has a timer queued, work gets done although timers are lost, timers run dry under a halt |
| `MCAdministration` | 3 tokens, requests that each break one rule or contradict another, 5 events; 40k states | the log rebuilds the state, snapshots restore it, listings are sound and never panic |
| `MCPaging` | 2 users, 2 books, 3 orders, 2 fills, pages of 1 and 3 capped at 2; 95k states | the index is in lockstep, a walk sees exactly what was there, ids are good for their owner only, an order's trades agree with the owner's |
| `MCWriteBack` | 2 users, 1 token, amounts 0-1, largest quantity 1; 32k states | the batch implements `BalanceLedger`, no empty row is written |
| `MCQuantity` | limbs of 16 values, all pairs of quantities; 66k states | addition, subtraction, comparison, product, division, fee and encodings agree with the integers |

**Bounds.** Three orders are the fewest for which two makers of one side compete
for a taker, one of them partly filled; two prices give levels and price
improvement; quantities of one and two lots give partial fills. A chunk of 2
lets an order rest and be filled in one round, and a cap of 1 cuts every round
of two fills into several events. `BaseScale` 2 with tick 1 and lot 2 makes an
unscaled or inexact amount visible. Fees of 33.33% and 50% make rounding and
the difference between maker and taker visible on amounts of one to four. In
`Funding` two calls suffice for one call to interfere with another, and fees up
to the largest amount reach the capped fee, the refusal of a retry, and a fee
that changes before the retry. The clock is bounded by `MaxTime`. A user's funds and
`MaxQuantity` are such that overflow is excluded by supply, as with real
ledgers; `NoCreditLost` says that the code relies on nothing more.

Two principals are enough for a grant to meet the first deposit of its grantee
and for an account to be granted, revoked and granted again; that two accounts
cannot be granted the same principal is part of what is proved. In `Scheduler` a
chunk of 2 lets a run end within a book and between books. In `Queries`
`MaxQuantity` is 8, so that three bids of four units at one level saturate, and
no balance can exceed it. A limb of 16 values has halves of 4 and bytes of 2, the
least with more than one byte per half; carries, borrows and both paths of the
division occur. The 5 events of `Administration` suffice for the installation,
two listings, a halt and an upgrade.

**Symmetry** is used for principals and call contexts in `MCFunding` and for
users in `MCReplay`, never in a liveness run.

**Deadlock** is checked in every run but `MCQuantity`, where a balance and an
amount that can be neither added nor subtracted have no step.

**Fairness.** `Funding`: a ledger answers each call and the continuation runs;
the platform guarantees a response to every call. `Exchange`: the interval
timer starts `run_once` again and again, also after upgrades, and each kind of
step of `run_once` that later runs keep reaching is eventually taken. The
latter is strong fairness: the budget may cut off any one run, but a
message starts with its instruction counter near zero, so the same check cannot
fail in every run. It is an assumption on the configured budget, which must
suffice for one settling event and one matching chunk. It is stated on the
part of a step that moves the control state. `Scheduler`: a timer that is due
fires, and a run under the same assumption on the budget settles one event or
matches one chunk; orders, resumes, upgrades and traps are bounded in number.

**Liveness is bounded by the number of orders.** `PendingServed` says that a
halted book does not block another. It does not exclude that a book with few orders waits
while new orders keep filling up another book; the executor's ranking by pending count permits
this, and the repository's documents declare it out of scope.

### A disagreement with the documentation

`src/docs/src/development/design.md:162` says that a fill-or-kill order
"transitions only `Pending → Filled` or `Pending → Expired`". A fill-or-kill
order that still waits in the queue can be canceled:
`validate_cancel_limit_order` accepts every pending order, and a unit test
expects it. `MCFokCanceled` shows the behaviour: place, cancel. The sentence
holds for matching and should mention cancellation.

A related remark on `src/docs/src/development/specs/DEFI-2849-circuit-breaker.md:105`,
"replaying the log through `apply_state_transition` reproduces heap state
exactly": `replay_events` ends by emptying `pending_settling_events`
(`state/audit/mod.rs:220`, explained in the comment there), so `ReplayReproduces`
compares the heap without the backlog. Upgrades use the snapshot, which has it.

## What is proved

All proofs hold for arbitrary finite or infinite sets of principals, tokens,
amounts, orders and books, from the assumptions named in the modules; one of
them is that the principals are finitely many where their balances are summed.

`Funding`, from `FundingAssumption` (constants have their types; `None` is no
principal), `NoTimeAssumption` (nor a time) and, for `CustodyIsBacked` only,
`FinitePrincipals`:

* `TypeCorrect`: `Spec => []TypeOK`. `TypeOK` is not inductive, since the
  subtraction in a retry needs to know what an open call looks like. The
  inductive invariant `Typed` adds `CallShape`: an open call has a caller and a
  token, its transfer amount and fee add up to its amount, and a withdrawal is
  for more than its fee.
* `GuardsAreExact`: `Spec => []GuardedCalls`. Each step opens a call with its
  guard, closes a call with its guard, or leaves both alone; one lemma each.
* `AccountsAreSeparate`: `Spec => []FundingXorTrading`. Strengthened by
  `OnlyUsersHold` (an unregistered principal has no balance), on top of the
  exact guards: a grant looks at the guards, and the guards are the open calls
  that will register their callers.
* `WhitelistsAgree`: `Spec => []WhitelistAgrees`, and `GrantsSpaced`: the action
  property `GrantsAreSpaced`. The former is inductive with the types and the
  finiteness of every whitelist, without which its cardinality says nothing.
* `CustodyIsBacked`: `Spec => []CustodyBacked`, on top of types and guards. For
  each principal's part: at most one open call concerns a given balance, so what
  that call is owed closes the books. For the whole: a deposit or a payment
  changes one part and `custody` alike, and a fill divides its gross amount
  between two parts, or one and the same, and the fee pool. The second argument
  needs what `SumFunction` does when one value changes (`SumChange`), which the
  module proves first, by induction over finite sets stated as facts about sets.
* `WithdrawalsPayNet`: the action property `WithdrawPaysNetOfFee`, from
  `CallShape`.

`Fees`: `MulCeilIsCeiling` (the computation by quotient and remainder is the
rounded-up fee), `FeeWithinAmount` (withholding never underflows) and
`PairsSettleExactly` (the listing rule makes every notional exact, so that the
assertion in `checked_mul_quantity_scaled` never fails).

`OrderLifecycle`: `OrdersAreSound` and `OrdersEndForGood`. Together with the
checked refinement they say of the code's records that status and filled
quantity agree and that ended orders stay as they are.

`Quantity`, from `WidthAssumption` and `NoneAssumption`, for every width:
`LimbsInRange` (`Spec => []TypeOK`) and `ArithmeticIsExact`
(`Spec => []ArithmeticExact`): adding, subtracting and comparing limb by limb
with carry and borrow are the operations of the numbers, and `None` is returned
exactly when the result does not fit. The lemmas take the carry cases one by one,
with the number of values of a limb as an opaque constant.

`Paging`, from `PagingAssumption`: `HistoriesInLockstep`
(`Spec => []IndexInLockstep`): both histories hold exactly what was inserted, in
order, each record with its index entry, and no assertion of `insert_once`
fails. The inductive invariant adds the types and `IdsMinted`: the ids in use are
below the counters, and no two matches that wait to be settled share a fill
sequence number, so that the next insertion is new.

`WriteBack`, from `AmountsAssumption` and `NoneAssumption`:
`BufferAlwaysCoherent`, and `WriteBackImplementsLedger`: under the mapping that
reads a row from the buffer if it is there, from the stable map otherwise, and
as zero if it is in neither, every step is a step of `BalanceLedger` or a
stutter. The proof goes operation by operation from the type invariant and
`BufferCoherent`.

Only model-checked: everything about `Exchange`, `Replay`, `Scheduler`,
`Administration` and `Queries`, including the refinement of `OrderLifecycle`;
the product, the division, the fee and the encodings of `Quantity`, which are
nonlinear or computed by folds; the walks of `Paging`; `NoCreditLost`;
`NoEmptyRows`; and liveness, which is beyond the proof system. What the folds of
`OrderBook` compute, which takes induction over sequences, is not proved either.

## Abstractions

* Users are principals; the dense `UserId` is an injective name. Outside
  `WriteBack` a missing balance row is a zero balance and the buffer is the
  balance it flushes; `WriteBackImplementsLedger` justifies it.
* Timestamps, `placed_by` and `canceled_by`, error values and logging are left
  out. A refused request is a step that is not taken.
* In `Exchange` users act for themselves and start with funds; funding is in
  `Funding` and `Replay`, delegation in `Funding`.
* A rejected ledger call was not executed, and a ledger replies as its interface
  says. The second is an assumption on the listed ledgers: `icrc1_transfer`
  (`ledger/mod.rs:188`) also takes a reply that it cannot decode for a failure,
  and `withdraw` credits the amount back, although such a ledger may have
  executed the transfer. `CustodyBacked` and `LedgerBacksExchange` say nothing
  about that case. A canister is upgraded when stopped, hence without open calls.
* A book is restored from the levels that the same version wrote. The asserts of
  the restore (an order that rests twice, a level that occurs twice) are
  `SnapshotInvalid`, which sets `bug`.
* A settling event's two effects, legs and balances, happen in one step, as they
  do in the code's message.
* Any two orders of a book may match in `Paging`, and a matching round leaves any
  number of settling events in `Scheduler`: both allow more than the code does.
* `Replay` replays into empty stable structures with writing switched on, as the
  repository's replay tests do.

## Not modelled

* Snapshots of older versions: the fallbacks of `StateSnapshot::into_state` for
  fields they lack, and the upgrade from them.
* The restricted mode as a filter on callers: `assert_caller_is_allowed` traps
  before a handler does anything. The mode itself is configuration in
  `Administration`.
* The events of granting and revoking trading accounts in `Replay`; they are
  applied and logged in one message.
* Fairness between books under a load that never ends, which the executor does
  not promise.
* The lists of events and of trading accounts, the dashboard, metrics and HTTP:
  they read and render.
* The text and byte forms of identifiers. Paging relies on bytes sorting like the
  numbers they encode, which the big-endian form gives.
* The derived CBOR of records, the runtime interface, public types, the client
  and the benchmarks: no state of their own.
