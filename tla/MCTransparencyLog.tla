-------------------------- MODULE MCTransparencyLog --------------------------
(* TransparencyLog with two logs; and larger trees of distinct leaves.      *)
EXTENDS TransparencyLog, TLC

Symmetry == Permutations(Measurements) \cup Permutations(Logs)

\* Log l after n more leaves, all different.
Continued(l, n) == leaves[l] \o [i \in 1..n |-> LeafHash(i)]

\* Every proof is accepted for every shape of tree up to eight leaves, with
\* complete and incomplete subtrees on every level: however large a log is, and
\* when three leaves more have been appended (the index arithmetic of
\* verify_inclusion and verify_consistency fits path and cons_subproof).
EveryShapeVerifies ==
    \A l \in Logs, n \in 0..3 :
        LET d == Continued(l, n)
            root == Root(d)
        IN  /\ \A i \in Len(leaves[l])..(Len(d) - 1) :
                   \E proof \in InclusionProof(d, i) :
                       VerifyInclusion(i - Len(leaves[l]) + 1, proof, root)
            /\ \A k \in 1..Len(d) :
                   \E proof \in ConsistencyProof(d, k) :
                       VerifyConsistency(proof, Root(FirstPart(d, k)), root)

\* The hashes an operator has to forge paths with: of all ranges of leaves.
KnownHashes ==
    UNION {{Mth(SubSeq(leaves[l], i, j)) : i, j \in 1..Len(leaves[l])} : l \in Logs}

ForgedPaths == UNION {[1..n -> KnownHashes] : n \in 0..3}

\* What a proof of these sizes may join.
MayJoin(m, n, old, new) ==
    /\ S!IsPrefix(old, new)
    /\ m = n => old = new
    /\ 0 < m /\ m < n => old # <<>> /\ old # new

\* A forged proof does no more than a genuine one: any path of up to three
\* hashes an operator can compute, under sizes up to ten, joins only heads of
\* which the old is a prefix of the new; equal sizes join only equal heads, and
\* a path from a positive size only a non-empty head to a different one
\* (verify_consistency).  On logs of up to four leaves together.
ForgedPathsExtend ==
    (\A k, l \in Logs : k # l => Len(leaves[k]) + Len(leaves[l]) <= 4) =>
    \A old, new \in UNION {Snapshots(l) : l \in Logs} :
        LET old_root == Root(old)
            new_root == Root(new)
        IN  \A m, n \in {k \in Words : k <= 2 * MaxSize} : ~MayJoin(m, n, old, new) =>
                \A path \in ForgedPaths :
                    ~VerifyConsistency([first_size |-> m, second_size |-> n, path |-> path],
                                       old_root, new_root)
=============================================================================
