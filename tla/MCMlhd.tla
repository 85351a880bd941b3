------------------------------- MODULE MCMlhd -------------------------------
(* Instances of Mlhd for TLC: a few pids, which are interchangeable.       *)
EXTENDS Mlhd, TLC

Symmetry == Permutations(Pids)

\* WorkerEnds of one pid: the specification says the same of every pid, and the
\* run that checks this declares no symmetry.
WorkersEnd == WorkerEnds(CHOOSE p \in Pids : TRUE)
=============================================================================
