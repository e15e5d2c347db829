---------------------------- MODULE MCScheduler ----------------------------
(* Model checking of Scheduler: the constants come from the .cfg files.    *)
EXTENDS SchedulerInv
=============================================================================
