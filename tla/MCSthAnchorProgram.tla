------------------------- MODULE MCSthAnchorProgram -------------------------
(* SthAnchorProgram on small instances.                                    *)
EXTENDS SthAnchorProgram, TLC

Symmetry ==
    Permutations(Authorities) \cup Permutations(Epochs) \cup Permutations(Roots)
        \cup Permutations(Commitments) \cup Permutations(Txs)
=============================================================================
