--------------------------- MODULE MCRunLifecycle ---------------------------
(* Small instances of RunLifecycle for TLC. *)
EXTENDS RunLifecycle, TLC

CONSTANTS r1, r2, prof

OneProfile == [r \in Run |-> prof]
NoProcess  == {}
Symmetry   == Permutations(Proc) \union Permutations(Build) \union Permutations(Lane)
                \union Permutations(Run)

\* With a worker that stalls, the second run is only a row: enqueued, cancelled or retried
\* beside the first one, but not explored once a slot works on it.
OneAtWork == \A s \in Slot : job[s].run # r2
=============================================================================
