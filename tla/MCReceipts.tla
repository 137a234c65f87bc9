----------------------------- MODULE MCReceipts -----------------------------
(* Receipts on small instances: every session has a nonce of its own.      *)
EXTENDS Receipts, TLC

\* Session s expects the nonce called s.
OwnNonce == [s \in Sessions |-> s]

Symmetry ==
    Permutations(Measurements) \cup Permutations(Sessions) \cup Permutations(Operated)
=============================================================================
