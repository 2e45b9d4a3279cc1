------------------------- MODULE MCStateController -------------------------
(* StateController on small instances: tasks, processors and objects are    *)
(* interchangeable.                                                         *)
EXTENDS StateController, TLC

Symmetry ==
    Permutations(Slots) \cup Permutations(Procs) \cup Permutations(Objects)
=============================================================================
