----------------------------- MODULE MCScheduler -----------------------------
(* The scheduler on a short clock.  The minimum interval, the cadence floor, *)
(* the lifetime of a run and its cost are small and pairwise different, and  *)
(* the dial can put the cadence floor below the minimum interval.            *)
EXTENDS Scheduler

MCCosts == {0, 2}
MCDial == {1, 3}
=============================================================================
