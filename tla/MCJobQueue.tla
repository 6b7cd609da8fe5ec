----------------------------- MODULE MCJobQueue -----------------------------
(* JobQueue on small instances. *)
EXTENDS JobQueue, TLC

CONSTANTS j1, j2, w1, w2

Workers == Permutations(Worker)

=============================================================================
