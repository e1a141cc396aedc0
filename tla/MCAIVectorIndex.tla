-------------------------- MODULE MCAIVectorIndex --------------------------
(* Instances of AIVectorIndex for TLC.                                     *)
EXTENDS AIVectorIndex, TLC

CONSTANTS a, b, g1, g2, g3

Symmetry == Permutations(Signatures) \cup Permutations(Services)

=============================================================================
