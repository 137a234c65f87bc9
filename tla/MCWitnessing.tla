---------------------------- MODULE MCWitnessing ----------------------------
(* Witnessing with clients that all trust the same witnesses.              *)
EXTENDS Witnessing, TLC

CONSTANT Quorum   \* the threshold of every client

TrustAll == [c \in Clients |-> Witnesses]
SameThreshold == [c \in Clients |-> Quorum]

Symmetry ==
    Permutations(Measurements) \cup Permutations(Logs) \cup Permutations(Clients)
        \cup Permutations(Honest)
=============================================================================
