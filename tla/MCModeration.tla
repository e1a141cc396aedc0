---------------------------- MODULE MCModeration ----------------------------
(* Instances of Moderation for TLC.                                        *)
EXTENDS Moderation, TLC

CONSTANTS w1, w2, c1

Symmetry == Permutations(Workers)

=============================================================================
