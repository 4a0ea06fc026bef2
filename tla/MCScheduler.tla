---------------------------- MODULE MCScheduler ----------------------------
(* Model values, symmetry and constraint for the runs of Scheduler.        *)
EXTENDS Scheduler, TLC

CONSTANTS t1, t2, c1, c2

Symmetric == Permutations(Callers)

\* The liveness properties ask nothing of a program once it is not careful.
Careful == careful
=============================================================================
