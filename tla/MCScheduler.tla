----------------------------- MODULE MCScheduler -----------------------------
EXTENDS Scheduler

CONSTANTS s1, s2, w1

\* Two schedulers and a cleanup worker, as in the split deployment.
Deployment == [p \in Procs |-> IF p = w1 THEN "run-worker-cleanup" ELSE "run-scheduler"]
=============================================================================
