---------------------------- MODULE MCScheduler -----------------------------
(* Scheduler with a handful of stacks, for TLC.                            *)
EXTENDS Scheduler

=============================================================================
