----------------------------- MODULE MCJobQueue -----------------------------
(* JobQueue on two workers, two jobs (one asked for by a user, one by the    *)
(* system) and two attempts per job.                                        *)
EXTENDS JobQueue, TLC

CONSTANTS w1, w2

MCJobs == 1 .. 2
MCRequested == {1}
MCWorkers == {w1, w2}
Symmetry == Permutations(MCWorkers)
=============================================================================
