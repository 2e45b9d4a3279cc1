-------------------------- MODULE MCNetworkSegment --------------------------
(* Instances of NetworkSegment for TLC.                                    *)
EXTENDS NetworkSegment, TLC

Symmetry == Permutations(Instances) \cup Permutations(Handlers)
=============================================================================
