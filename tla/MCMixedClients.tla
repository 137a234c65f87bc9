--------------------------- MODULE MCMixedClients ---------------------------
(* Witnessing with clients of different policies: one asks for three of    *)
(* four witnesses, one knows only two and asks for both, one was built     *)
(* with a threshold of zero.  w4 colludes.                                 *)
EXTENDS Witnessing, TLC

CONSTANTS w1, w2, w3, w4, three_of_four, two_of_two, zero

AllWitnesses == {w1, w2, w3, w4}
OneColluder == {w4}
ThreeClients == {three_of_four, two_of_two, zero}
OwnWitnesses == [c \in Clients |-> IF c = two_of_two THEN {w1, w2} ELSE Witnesses]
OwnThreshold == [c \in Clients |-> CASE c = three_of_four -> 3
                                     [] c = two_of_two -> 2
                                     [] c = zero -> 0]

\* The instance is one the theorems speak of.
ASSUME MixedQuorumsOverlap == QuorumOverlap

Symmetry ==
    Permutations(Measurements) \cup Permutations(Logs) \cup Permutations({w1, w2})
=============================================================================
