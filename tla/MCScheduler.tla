---------------------------- MODULE MCScheduler ----------------------------
(* Two books and chunks of two orders, so that a run can end between books and *)
(* within one; three orders, so that one book can outrank the other.           *)
EXTENDS Scheduler

MCBooks == {1, 2}
=============================================================================
