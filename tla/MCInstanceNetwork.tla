-------------------------- MODULE MCInstanceNetwork --------------------------
(* Instances of InstanceNetwork for TLC.                                   *)
EXTENDS InstanceNetwork, TLC

Symmetry == Permutations(DPUs) \cup Permutations(Segments) \cup Permutations(Updaters)
=============================================================================
