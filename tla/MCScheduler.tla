----------------------------- MODULE MCScheduler -----------------------------
(***************************************************************************)
(* Instances of Scheduler for TLC: two processors; one user thread, one    *)
(* kernel thread.                                                          *)
(***************************************************************************)
EXTENDS Scheduler

CONSTANTS u1, k1

MCCpu == {0, 1}
MCThread == {u1, k1}
MCUserThread == {u1}

=============================================================================
