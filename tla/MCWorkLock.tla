----------------------------- MODULE MCWorkLock -----------------------------
(* WorkLock on small instances: the symmetry of attempts and processes.    *)
EXTENDS WorkLock, TLC

Symmetry == Permutations(Ids) \cup Permutations(Procs)
=============================================================================
