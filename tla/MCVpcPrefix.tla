---------------------------- MODULE MCVpcPrefix ----------------------------
(* Instances of VpcPrefix for TLC.                                         *)
EXTENDS VpcPrefix, TLC

Symmetry == Permutations(Batches) \cup Permutations(Handlers)
=============================================================================
