----------------------------- MODULE Scheduler -----------------------------
(* When matching runs.  Placing an order and lifting a halt each queue a      *)
(* zero-delay timer; its callback drive_matching runs one bounded slice of    *)
(* work and queues the next timer while work is left.  An interval timer is   *)
(* the safety net: an upgrade drops every queued timer, and a callback that   *)
(* traps leaves none behind.  A book is the number of its pending orders; the *)
(* module Exchange has what matching and settling do to them.                 *)
EXTENDS Integers, FiniteSets, FiniteSetsExt, SequencesExt

CONSTANTS
    Books,               \* identifiers of order books, integers
    MaxOrdersPerChunk,   \* execution_policy.max_orders_per_chunk
    MaxEvents,           \* bound: settling events one matching round produces
    MaxPlaced,           \* bound: orders placed
    MaxResumes,          \* bound: resume_trading calls
    MaxFaults,           \* bound: upgrades and trapped callbacks
    MaxTimers            \* bound: zero-delay timers queued

ASSUME SchedulerAssumption ==
    /\ Books \subseteq Int /\ IsFiniteSet(Books)
    /\ MaxOrdersPerChunk \in Nat \ {0}
    /\ {MaxEvents, MaxPlaced, MaxResumes, MaxFaults, MaxTimers} \subseteq Nat

VARIABLES
    pending,       \* [book -> number of pending orders]
    backlog,       \* length of pending_settling_events
    permissions,   \* [trading_halted, halted_pairs]
    active_tasks,  \* the tasks a TimerGuard is held for
    timers,        \* zero-delay timers queued
    interval,      \* the interval timer is set
    interrupted,   \* a timer was lost since the interval timer last fired
    placed, resumes, faults    \* for the bounds

vars == <<pending, backlog, permissions, active_tasks, timers, interval,
          interrupted, placed, resumes, faults>>

Task == {"ProcessPendingOrders"}

Init ==
    /\ pending = [b \in Books |-> 0]
    /\ backlog = 0
    /\ permissions = [trading_halted |-> FALSE, halted_pairs |-> {}]
    /\ active_tasks = {}
    /\ timers = 0
    /\ interval = TRUE
    /\ interrupted = FALSE
    /\ placed = 0 /\ resumes = 0 /\ faults = 0

-----------------------------------------------------------------------------
(* What the executor sees.                                                  *)

permit_matching(b) ==
    ~permissions.trading_halted /\ b \notin permissions.halted_pairs

\* Faulty variant: a halted book counts as work.
has_any_pending_orders(counts) == \E b \in Books : counts[b] > 0

has_matchable_pending_orders(counts) ==
    \E b \in Books : counts[b] > 0 /\ permit_matching(b)

\* ExecutionStatus::from_state reports MoreWork.
MoreWork(counts, events) == has_matchable_pending_orders(counts) \/ events > 0

\* What is left to do, independently of what the executor reports.
WorkLeft ==
    \/ backlog > 0
    \/ \E b \in Books : /\ pending[b] > 0
                        /\ ~permissions.trading_halted
                        /\ b \notin permissions.halted_pairs

books_by_pending_order_count_desc ==
    SetToSortSeq({b \in Books : pending[b] > 0},
                 LAMBDA a, b : \/ pending[a] > pending[b]
                               \/ pending[a] = pending[b] /\ a < b)

-----------------------------------------------------------------------------
(* One run.                                                                 *)

\* taken[i]: the orders the i-th ranked book gives to the chunk.
ChunkShares(ranked) ==
    LET share(i, budget) ==
            IF permit_matching(ranked[i]) THEN Min({pending[ranked[i]], budget})
                                          ELSE 0
        left[i \in 0 .. Len(ranked)] ==
            IF i = 0 THEN MaxOrdersPerChunk
                     ELSE left[i - 1] - share(i, left[i - 1])
    IN  [i \in 1 .. Len(ranked) |-> left[i - 1] - left[i]]

\* The loop over the books ends after the j-th one: at the end of the list, or
\* because the instruction budget is spent, which takes at least one matching
\* round.  Events stay behind only from the last round: an earlier round that
\* leaves some has spent the budget, and the loop ends there.
MatchOutcomes(ranked, taken) ==
    {[pending |-> [b \in Books |->
                     IF \E i \in 1 .. j : ranked[i] = b
                     THEN pending[b] - taken[CHOOSE i \in 1 .. j : ranked[i] = b]
                     ELSE pending[b]],
      backlog |-> events] :
        <<j, events>> \in
          {x \in (0 .. Len(ranked)) \X (0 .. MaxEvents) :
             /\ x[1] < Len(ranked) => \E i \in 1 .. x[1] : taken[i] > 0
             /\ x[2] > 0 => x[1] > 0 /\ taken[x[1]] > 0}}

\* run_once: drain what an earlier run left, then match book by book.  The
\* budget covers at least one settling event.
RunOutcomes ==
    {[pending |-> pending, backlog |-> left] : left \in 0 .. backlog - 1}
    \cup MatchOutcomes(books_by_pending_order_count_desc,
                       ChunkShares(books_by_pending_order_count_desc))

\* process_pending_orders under its TimerGuard: the states it may leave and
\* the status it returns.
process_pending_orders(tasks) ==
    IF Task \subseteq tasks
    THEN {[pending |-> pending, backlog |-> backlog, status |-> "AlreadyRunning"]}
    ELSE {[pending |-> after.pending, backlog |-> after.backlog,
           status |-> IF MoreWork(after.pending, after.backlog)
                      THEN "MoreWork" ELSE "Complete"] : after \in RunOutcomes}

\* Faulty variant: the guard stays in place.
TimerGuardLeak(tasks) == tasks \cup Task

\* The guard's set of tasks after a run: inserted by TimerGuard::new, removed
\* by its Drop.
TimerGuardDrop(tasks) == (tasks \cup Task) \ Task

\* drive_matching, with the timers still queued when its callback runs.
drive_matching(queued) ==
    /\ \E after \in process_pending_orders(active_tasks) :
         /\ pending' = after.pending
         /\ backlog' = after.backlog
         /\ timers' = IF after.status = "MoreWork" THEN queued + 1 ELSE queued
    /\ active_tasks' = TimerGuardDrop(active_tasks)

-----------------------------------------------------------------------------
(* Messages.                                                                *)

\* add_limit_order succeeds on a book that is not halted and queues a timer.
AddLimitOrder(b) ==
    /\ placed < MaxPlaced
    /\ timers < MaxTimers
    /\ ~permissions.trading_halted /\ b \notin permissions.halted_pairs
    /\ pending' = [pending EXCEPT ![b] = @ + 1]
    /\ timers' = timers + 1
    /\ placed' = placed + 1
    /\ UNCHANGED <<backlog, permissions, active_tasks, interval, interrupted,
                   resumes, faults>>

\* cancel_limit_order takes an order out of the queue; its refund is settled in
\* the same message, whatever the backlog.
CancelLimitOrder(b) ==
    /\ pending[b] > 0
    /\ pending' = [pending EXCEPT ![b] = @ - 1]
    /\ UNCHANGED <<backlog, permissions, active_tasks, timers, interval,
                   interrupted, placed, resumes, faults>>

\* halt_trading of some pairs, or of everything (pairs = {}).
HaltTrading(pairs) ==
    /\ permissions' = IF pairs = {}
                      THEN [permissions EXCEPT !.trading_halted = TRUE]
                      ELSE [permissions EXCEPT !.halted_pairs = @ \cup pairs]
    /\ UNCHANGED <<pending, backlog, active_tasks, timers, interval,
                   interrupted, placed, resumes, faults>>

\* Faulty variant of ResumeTrading: lifting a halt queues no timer.
ResumeTradingUnarmed(pairs) ==
    /\ resumes < MaxResumes
    /\ timers < MaxTimers
    /\ permissions' = IF pairs = {}
                      THEN [trading_halted |-> FALSE, halted_pairs |-> {}]
                      ELSE [permissions EXCEPT !.halted_pairs = @ \ pairs]
    /\ resumes' = resumes + 1
    /\ UNCHANGED <<pending, backlog, active_tasks, timers, interval,
                   interrupted, placed, faults>>

\* resume_trading: a resume of everything lifts the halts of pairs too.
ResumeTrading(pairs) ==
    /\ resumes < MaxResumes
    /\ timers < MaxTimers
    /\ permissions' = IF pairs = {}
                      THEN [trading_halted |-> FALSE, halted_pairs |-> {}]
                      ELSE [permissions EXCEPT !.halted_pairs = @ \ pairs]
    /\ timers' = timers + 1
    /\ resumes' = resumes + 1
    /\ UNCHANGED <<pending, backlog, active_tasks, interval, interrupted,
                   placed, faults>>

\* A zero-delay timer fires.
FireTimer ==
    /\ timers > 0
    /\ drive_matching(timers - 1)
    /\ UNCHANGED <<permissions, interval, interrupted, placed, resumes, faults>>

\* The interval timer fires; it stays set.
FireInterval ==
    /\ interval
    /\ timers < MaxTimers
    /\ drive_matching(timers)
    /\ interrupted' = FALSE
    /\ UNCHANGED <<permissions, interval, placed, resumes, faults>>

\* The callback of a zero-delay timer traps: its effects, the guard's among
\* them, are rolled back, and the timer is gone.
Trap ==
    /\ timers > 0
    /\ faults < MaxFaults
    /\ timers' = timers - 1
    /\ interrupted' = TRUE
    /\ faults' = faults + 1
    /\ UNCHANGED <<pending, backlog, permissions, active_tasks, interval,
                   placed, resumes>>

\* An upgrade drops every timer and the guards' tasks; post_upgrade sets the
\* interval timer again, and no zero-delay timer, whatever work is left.
post_upgrade ==
    /\ faults < MaxFaults
    /\ timers' = 0 /\ interval' = TRUE /\ active_tasks' = {}
    /\ interrupted' = TRUE
    /\ faults' = faults + 1
    /\ UNCHANGED <<pending, backlog, permissions, placed, resumes>>

-----------------------------------------------------------------------------

Next ==
    \/ \E b \in Books : AddLimitOrder(b) \/ CancelLimitOrder(b)
    \/ \E pairs \in SUBSET Books : HaltTrading(pairs) \/ ResumeTrading(pairs)
    \/ FireTimer \/ FireInterval \/ Trap \/ post_upgrade

Spec == Init /\ [][Next]_vars

\* Timers that are due fire.
Fairness == WF_vars(FireTimer) /\ WF_vars(FireInterval)

FairSpec == Spec /\ Fairness

-----------------------------------------------------------------------------
(* Properties.                                                              *)

\* Unless an upgrade or a trap lost a timer since the interval timer last
\* fired, work that is left has a zero-delay timer queued: no order waits for
\* the interval, however orders, cancellations, halts, resumes and runs that
\* were cut off by the budget interleave.
WorkIsArmed == WorkLeft /\ ~interrupted => timers > 0

\* Work that is left is done in the end, also when an upgrade or a trap lost
\* the timers: everything settled, and nothing pending on a book that is not
\* halted.
WorkGetsDone == []<>~WorkLeft

\* The zero-delay timers run dry: the chain of callbacks that reschedule
\* themselves ends, also while orders wait on a halted book.
TimersRunDry == []<>(timers = 0)
=============================================================================
