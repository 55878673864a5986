---------------------------- MODULE Administration ----------------------------
(***************************************************************************)
(* The administration of the canister: its installation, the listing of    *)
(* trading pairs, halts of trading, and upgrades.  `state' is the part of  *)
(* State that these operations own, `event_log' the audit log they write   *)
(* in stable memory and `snapshot' the stable cell that carries the heap   *)
(* across an upgrade.                                                      *)
(*                                                                         *)
(* Each message is one step: nothing here awaits.  A call that returns an  *)
(* error or traps changes nothing, so it is not a step; installing code is *)
(* atomic on the platform, a trap in either hook undoing both.             *)
(***************************************************************************)
EXTENDS Integers, Sequences, FiniteSets, Functions, SequencesExt

CONSTANTS
    Controllers, Callers,  \* who may administer, and who calls
    Requests,              \* the AddTradingPairRequests that are made
    InitArgs,              \* arguments of the installation
    UpgradeArgs,           \* arguments of an upgrade; None is "no argument"
    None,                  \* Option::None
    MaxU64,                \* u64::MAX
    MaxBps,                \* BasisPoint::MAX
    MAX_INSTRUCTION_BUDGET,
    DefaultUnits,          \* DEFAULT_MAX_SETTLEMENT_UNITS_PER_EVENT
    MAX_HALT_BOOKS,
    MaxEvents              \* bound of the model: length of the log

VARIABLES
    state,      \* mode, policy, tokens, pairs, books, next id, permissions
    event_log,  \* the audit log
    snapshot,   \* STATE_SNAPSHOT: None when the cell is empty
    bug         \* an assertion or an expect of the code failed

vars == <<state, event_log, snapshot, bug>>

-----------------------------------------------------------------------------
\* Configuration.

\* ExecutionPolicy::try_new returns Ok.
try_new(policy) ==
    /\ policy.chunk # 0
    /\ policy.budget # 0
    /\ policy.units # 0
    /\ policy.budget <= MAX_INSTRUCTION_BUDGET

unwrap_or(option, default) == IF option = None THEN default ELSE option

Permissions == [trading_halted |-> FALSE, halted_pairs |-> {}]

is_halted(permissions, book) ==
    permissions.trading_halted \/ book \in permissions.halted_pairs

\* The policy State::new makes of the installation's argument.
InitPolicy(arg) ==
    [chunk |-> arg.chunk, budget |-> arg.budget,
     units |-> unwrap_or(arg.units, DefaultUnits)]

\* State::new.
New(arg) ==
    [mode |-> arg.mode, policy |-> InitPolicy(arg), next_book_id |-> 0,
     tokens |-> <<>>, trading_pairs |-> <<>>, order_books |-> <<>>,
     permissions |-> Permissions]

-----------------------------------------------------------------------------
\* Trading pairs.

\* 10u64.checked_pow.
checked_pow(decimals) == IF 10^decimals <= MaxU64 THEN 10^decimals ELSE None

base_scale(s, base) == checked_pow(s.tokens[base])

\* The first entry wins: record_token asserts that a second one agrees.
record_token(tokens, token, metadata) ==
    IF token \in DOMAIN tokens THEN tokens
    ELSE [t \in DOMAIN tokens \cup {token} |->
             IF t = token THEN metadata ELSE tokens[t]]

\* Faulty variant: the check looks at nothing.
check_no_metadata(s, token, submitted) == TRUE

check_token_metadata_consistency(s, token, submitted) ==
    token \in DOMAIN s.tokens => s.tokens[token] = submitted

Extend(f, key, val) ==
    [k \in DOMAIN f \cup {key} |-> IF k = key THEN val ELSE f[k]]

\* OrderBook::new, an empty book with the parameters of its pair.
Book(e) ==
    [tick |-> e.tick, lot |-> e.lot, min |-> e.min, max |-> e.max,
     maker |-> e.maker, taker |-> e.taker]

record_trading_pair(s, e) ==
    [s EXCEPT
        !.tokens = record_token(record_token(@, e.base, e.base_metadata),
                                e.quote, e.quote_metadata),
        !.trading_pairs = Extend(@, <<e.base, e.quote>>, e.book_id),
        !.order_books = Extend(@, e.book_id, Book(e)),
        !.next_book_id = @ + 1]

\* The assertion of record_token fails: the token is known otherwise.
record_token_panics(tokens, token, metadata) ==
    token \in DOMAIN tokens /\ tokens[token] # metadata

\* An assertion of record_trading_pair, of record_token or of
\* TradingPairMap::insert fails.
record_trading_pair_panics(s, e) ==
    \/ record_token_panics(s.tokens, e.base, e.base_metadata)
    \/ record_token_panics(record_token(s.tokens, e.base, e.base_metadata),
                           e.quote, e.quote_metadata)
    \/ e.book_id # s.next_book_id
    \/ <<e.base, e.quote>> \in DOMAIN s.trading_pairs
    \/ e.book_id \in Range(s.trading_pairs)
    \/ e.book_id \in DOMAIN s.order_books

-----------------------------------------------------------------------------
\* The audit log.

\* The policy an upgrade asks for: a field it does not give stays as it is.
Merged(policy, arg) ==
    [chunk |-> unwrap_or(arg.chunk, policy.chunk),
     budget |-> unwrap_or(arg.budget, policy.budget),
     units |-> unwrap_or(arg.units, policy.units)]

ApplyUpgrade(s, arg) ==
    [s EXCEPT !.mode = unwrap_or(arg.mode, @),
              !.policy = Merged(@, arg)]

ApplyHalt(s, book_ids, halted) ==
    [s EXCEPT !.permissions =
        IF book_ids = None
          THEN IF halted THEN [@ EXCEPT !.trading_halted = TRUE]
               ELSE Permissions
          ELSE [@ EXCEPT !.halted_pairs =
                  IF halted THEN @ \cup book_ids ELSE @ \ book_ids]]

\* The arms of apply_state_transition for the events of this module.
apply_state_transition(s, event) ==
    CASE event.type = "AddTradingPair" -> record_trading_pair(s, event)
      [] event.type = "SetHalt" -> ApplyHalt(s, event.book_ids, event.halted)
      [] event.type = "Upgrade" -> ApplyUpgrade(s, event.arg)

replay_events(log) ==
    FoldLeft(apply_state_transition, New(log[1].arg), Tail(log))

\* process_event: apply, then append to the log.
process_event(event) ==
    /\ Len(event_log) < MaxEvents
    /\ state' = apply_state_transition(state, event)
    /\ event_log' = Append(event_log, event)

-----------------------------------------------------------------------------
\* The snapshot.

\* Faulty variant: permissions are left out unless all trading is halted.
from_state_halt_only(s) ==
    [mode |-> s.mode, policy |-> s.policy, next_book_id |-> s.next_book_id,
     tokens |-> {<<t, s.tokens[t]>> : t \in DOMAIN s.tokens},
     trading_pairs |->
        {<<p, s.trading_pairs[p]>> : p \in DOMAIN s.trading_pairs},
     order_books |-> {<<b, s.order_books[b]>> : b \in DOMAIN s.order_books},
     permissions |->
        IF s.permissions.trading_halted THEN s.permissions ELSE None]

\* StateSnapshot::from_state: maps become lists of entries, permissions that
\* are the default are left out.
from_state(s) ==
    [mode |-> s.mode, policy |-> s.policy, next_book_id |-> s.next_book_id,
     tokens |-> {<<t, s.tokens[t]>> : t \in DOMAIN s.tokens},
     trading_pairs |->
        {<<p, s.trading_pairs[p]>> : p \in DOMAIN s.trading_pairs},
     order_books |-> {<<b, s.order_books[b]>> : b \in DOMAIN s.order_books},
     permissions |->
        IF s.permissions = Permissions THEN None ELSE s.permissions]

FromEntries(entries) ==
    [k \in {e[1] : e \in entries} |->
        (CHOOSE e \in entries : e[1] = k)[2]]

\* StateSnapshot::into_state, of a snapshot that this version has written; the
\* fallbacks for fields that older versions did not have are left out.
into_state(c) ==
    [mode |-> c.mode, policy |-> c.policy, next_book_id |-> c.next_book_id,
     tokens |-> FromEntries(c.tokens),
     trading_pairs |-> FromEntries(c.trading_pairs),
     order_books |-> FromEntries(c.order_books),
     permissions |-> unwrap_or(c.permissions, Permissions)]

\* Two entries share their key (i = 1) or their value (i = 2).
Duplicated(entries, i) == \E e, f \in entries : e # f /\ e[i] = f[i]

\* An assertion of into_state fails: a duplicate entry, or a policy that
\* try_new refuses.
into_state_panics(c) ==
    \/ ~try_new(c.policy)
    \/ Duplicated(c.tokens, 1)
    \/ Duplicated(c.trading_pairs, 1)
    \/ Duplicated(c.trading_pairs, 2)
    \/ Duplicated(c.order_books, 1)

\* Faulty variant: the cell keeps what was read.
load_uncleared(cell) == [read |-> cell, left |-> cell]

\* state_snapshot::load reads the cell and clears it.
load(cell) == [read |-> cell, left |-> None]

-----------------------------------------------------------------------------
\* The canister.

\* lifecycle::init: an argument that try_new refuses traps.
Init ==
    \E arg \in InitArgs :
        /\ try_new(InitPolicy(arg))
        /\ state = New(arg)
        /\ event_log = <<[type |-> "Init", arg |-> arg]>>
        /\ snapshot = None
        /\ bug = FALSE

\* The checks of add_trading_pair that look at the request alone.
ValidRequest(r) ==
    /\ r.base # r.quote
    /\ r.tick # 0
    /\ r.lot # 0 /\ r.lot <= MaxU64
    /\ r.maker <= MaxBps /\ r.taker <= MaxBps
    /\ r.min # 0
    /\ r.max # None => r.max >= r.min

\* tick_size * lot_size is a multiple of 10^base_decimals.
TickLotDivisible(r) ==
    /\ checked_pow(r.base_metadata) # None
    /\ (r.tick * r.lot) % checked_pow(r.base_metadata) = 0

\* The event add_trading_pair records.
PairEvent(r, id) ==
    [type |-> "AddTradingPair", book_id |-> id,
     base |-> r.base, quote |-> r.quote,
     base_metadata |-> r.base_metadata, quote_metadata |-> r.quote_metadata,
     tick |-> r.tick, lot |-> r.lot, min |-> r.min, max |-> r.max,
     maker |-> r.maker, taker |-> r.taker]

add_trading_pair(caller, r) ==
    /\ caller \in Controllers
    /\ ValidRequest(r)
    /\ <<r.base, r.quote>> \notin DOMAIN state.trading_pairs
    /\ check_token_metadata_consistency(state, r.base, r.base_metadata)
    /\ check_token_metadata_consistency(state, r.quote, r.quote_metadata)
    /\ TickLotDivisible(r)
    /\ process_event(PairEvent(r, state.next_book_id))
    /\ bug' = (bug \/ record_trading_pair_panics(
                          state, PairEvent(r, state.next_book_id)))
    /\ UNCHANGED snapshot

\* halt_trading and resume_trading; pairs = None is every pair.  An unknown
\* pair traps.
set_halt(caller, pairs, halted) ==
    /\ caller \in Controllers
    /\ pairs # None => Cardinality(pairs) <= MAX_HALT_BOOKS
    /\ process_event(
          [type |-> "SetHalt", halted |-> halted,
           book_ids |-> IF pairs = None THEN None
                        ELSE {state.trading_pairs[p] : p \in pairs}])
    /\ UNCHANGED <<snapshot, bug>>

\* pre_upgrade fills the cell, unless the operator skips it.
pre_upgrade(skipped) == IF skipped THEN snapshot ELSE from_state(state)

\* post_upgrade after the cell was loaded: an empty cell traps, an argument
\* whose policy try_new refuses traps, no argument records nothing.
post_upgrade(loaded, arg) ==
    /\ loaded.read # None
    /\ ~into_state_panics(loaded.read)
    /\ snapshot' = loaded.left
    /\ \/ /\ arg = None
          /\ state' = into_state(loaded.read)
          /\ UNCHANGED event_log
       \/ /\ arg # None
          /\ Len(event_log) < MaxEvents
          /\ try_new(Merged(into_state(loaded.read).policy, arg))
          /\ state' = ApplyUpgrade(into_state(loaded.read), arg)
          /\ event_log' = Append(event_log, [type |-> "Upgrade", arg |-> arg])
    /\ UNCHANGED bug

\* Code is installed in upgrade mode.
Upgrade(skipped, arg) == post_upgrade(load(pre_upgrade(skipped)), arg)

Next ==
    \/ \E caller \in Callers, r \in Requests : add_trading_pair(caller, r)
    \/ \E caller \in Callers, halted \in BOOLEAN :
          \E pairs \in {None} \cup SUBSET DOMAIN state.trading_pairs :
              set_halt(caller, pairs, halted)
    \/ \E skipped \in BOOLEAN, arg \in UpgradeArgs : Upgrade(skipped, arg)

Spec == Init /\ [][Next]_vars

-----------------------------------------------------------------------------
\* What get_trading_pairs answers with, and list_supported_tokens.

get_trading_pairs ==
    {[base |-> p[1], quote |-> p[2],
      base_metadata |-> state.tokens[p[1]],
      quote_metadata |-> state.tokens[p[2]],
      halted |-> is_halted(state.permissions, state.trading_pairs[p]),
      book |-> state.order_books[state.trading_pairs[p]]]
        : p \in DOMAIN state.trading_pairs}

\* An expect of get_trading_pairs fails.
get_trading_pairs_panics ==
    \E p \in DOMAIN state.trading_pairs :
        \/ state.trading_pairs[p] \notin DOMAIN state.order_books
        \/ p[1] \notin DOMAIN state.tokens
        \/ p[2] \notin DOMAIN state.tokens

list_supported_tokens == {<<t, state.tokens[t]>> : t \in DOMAIN state.tokens}

-----------------------------------------------------------------------------
\* Properties.

\* Replaying the log from its Init event rebuilds the state the canister
\* holds: every change of mode, policy, pairs or halts is recorded in the
\* order it was made, and no upgrade changes what the log does not say.
LogRebuildsState == replay_events(event_log) = state

\* The snapshot loses nothing: what pre_upgrade would write now, post_upgrade
\* accepts and turns back into the same state (duplicates, an invalid policy
\* or a default that is not the default would break it).
SnapshotRestores ==
    /\ ~into_state_panics(from_state(state))
    /\ into_state(from_state(state)) = state

\* The pairs and the books are in one-to-one correspondence, the ids are the
\* ones handed out so far, every halted book is listed, and the settlement
\* of a listed pair divides exactly: the scale of its base token, as the
\* token is recorded now, fits a u64 and divides tick times lot.  No assertion
\* of record_trading_pair, record_token or the pair map fails once
\* add_trading_pair's own checks have passed, and no listed pair lacks what
\* get_trading_pairs expects to find.
ListingSound ==
    /\ ~bug /\ ~get_trading_pairs_panics
    /\ IsInjective(state.trading_pairs)
    /\ Range(state.trading_pairs) = 0 .. state.next_book_id - 1
    /\ DOMAIN state.order_books = 0 .. state.next_book_id - 1
    /\ state.permissions.halted_pairs \subseteq DOMAIN state.order_books
    /\ \A p \in get_trading_pairs :
          /\ p.base # p.quote
          /\ base_scale(state, p.base) # None
          /\ (p.book.tick * p.book.lot) % base_scale(state, p.base) = 0
          /\ <<p.quote, p.quote_metadata>> \in list_supported_tokens
=============================================================================
