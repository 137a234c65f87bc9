---------------------------- MODULE MCChainAnchor ----------------------------
(* ChainAnchor on small instances.                                         *)
EXTENDS ChainAnchor, TLC

Symmetry ==
    Permutations(Measurements) \cup Permutations(Logs) \cup Permutations(Commitments)
=============================================================================
