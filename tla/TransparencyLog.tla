--------------------------- MODULE TransparencyLog ---------------------------
(***************************************************************************)
(* The append-only log (`struct TransparencyLog`) and what its proofs are  *)
(* worth.  One value of Logs is one TransparencyLog object: an operator    *)
(* with two of them can show different histories to different readers.     *)
(*                                                                         *)
(* The only state is the vector of leaf hashes.  Queries change nothing;   *)
(* each one is an operator of the leaves at the time of the query.  Since  *)
(* leaves only grow, whatever a log has issued at an earlier time is the   *)
(* answer to the same query on a prefix of its leaves: a reader may hold   *)
(* answers about any of these Snapshots, of any log, at once.              *)
(***************************************************************************)
EXTENDS Merkle

CONSTANTS Measurements,   \* what is logged
          Logs,           \* log objects
          MaxSize         \* bound on the size of a log

\* No log grows past half the range of its integers: 2^63 leaves of 32 bytes.
ASSUME LogAssumption == MaxSize \in Nat /\ MaxSize <= Pow2[Width - 1]

VARIABLE leaves           \* leaves[l]: the leaf hashes of log l, in order

vars == leaves

S == INSTANCE SequencesExt

Init == leaves = [l \in Logs |-> <<>>]

\* Fault: the measurement is stored as it is.
AppendUnhashed(l, m) ==
    /\ Len(leaves[l]) < MaxSize
    /\ leaves' = [leaves EXCEPT ![l] = Append(@, m)]

\* TransparencyLog::append; the index it returns is the old length.
AppendLeaf(l, m) ==
    /\ Len(leaves[l]) < MaxSize
    /\ leaves' = [leaves EXCEPT ![l] = Append(@, LeafHash(m))]

Next == \E l \in Logs, m \in Measurements : AppendLeaf(l, m)

Spec == Init /\ [][Next]_vars

-----------------------------------------------------------------------------
(* Queries, on the leaves d of a log.  Indices count from 0.  An Option is *)
(* the set of its values: {} is None.                                      *)

Root(d) == Mth(d)

Places(d, m) == {i \in 0..(Len(d) - 1) : d[i + 1] = LeafHash(m)}

\* Fault: the last place.
FindLast(d, m) == {i \in Places(d, m) : \A j \in Places(d, m) : j <= i}

\* find: the first place.
Find(d, m) == {i \in Places(d, m) : \A j \in Places(d, m) : i <= j}

InclusionProof(d, index) ==
    IF index >= Len(d) THEN {}
    ELSE {[leaf_index |-> index, tree_size |-> Len(d), audit_path |-> Path(index, d)]}

\* Fault: no proof when nothing was appended since.
ConsistencyProofOnlyIfGrown(d, first_size) ==
    IF first_size = 0 \/ first_size >= Len(d) THEN {}
    ELSE {[first_size |-> first_size, second_size |-> Len(d),
           path |-> ConsSubproof(first_size, d, TRUE)]}

ConsistencyProof(d, first_size) ==
    IF first_size = 0 \/ first_size > Len(d) THEN {}
    ELSE {[first_size |-> first_size, second_size |-> Len(d),
           path |-> IF first_size = Len(d) THEN <<>>
                    ELSE ConsSubproof(first_size, d, TRUE)]}

-----------------------------------------------------------------------------
(* Properties.                                                             *)

\* A reader may be told any sizes and indices (Words), true or not.
Snapshots(l) == S!Prefixes(leaves[l])

\* Each log is a vector of leaf hashes of measurements.
TypeOK ==
    leaves \in [Logs -> UNION {[1..n -> {LeafHash(m) : m \in Measurements}] :
                               n \in 0..MaxSize}]

\* A log can prove to the holder of any earlier, non-empty head of its own
\* that the current tree extends it, and the holder's verify_consistency
\* accepts that proof (consistency_proof and verify_consistency agree for
\* every pair of sizes, complete and incomplete subtrees alike).
ConsistencyComplete ==
    \A l \in Logs : \A old \in Snapshots(l) \ {<<>>} :
        \E proof \in ConsistencyProof(leaves[l], Len(old)) :
            VerifyConsistency(proof, Root(old), Root(leaves[l]))

\* The paths of the consistency proofs that the logs issue.
IssuedPaths ==
    {proof.path : proof \in UNION {ConsistencyProof(leaves[l], k) : l \in Logs, k \in 0..MaxSize}}

\* A consistency proof never joins two histories: whatever sizes are claimed
\* for a path some log issued, and whichever heads it is replayed against,
\* verify_consistency accepts only if the old leaves are a prefix of the new.
ConsistencySound ==
    \A path \in IssuedPaths, to \in Logs :
        LET new_root == Root(leaves[to])
        IN  \A old \in UNION {Snapshots(l) : l \in Logs} : LET old_root == Root(old) IN
            ~S!IsPrefix(old, leaves[to]) => \A m, n \in Words :
                ~VerifyConsistency([first_size |-> m, second_size |-> n, path |-> path],
                                   old_root, new_root)

\* A log can prove every leaf it holds: for each logged measurement, find
\* gives its first index and the audit path for that index (and for every
\* other index that holds it) is accepted under the current root.
InclusionComplete ==
    \A l \in Logs, m \in Measurements :
        LET d == leaves[l]
            at == {i \in 0..(Len(d) - 1) : d[i + 1] = LeafHash(m)}
        IN  /\ IF at = {} THEN Find(d, m) = {}
               ELSE \E first \in at : Find(d, m) = {first} /\ \A i \in at : first <= i
            /\ \A i \in at : \E proof \in InclusionProof(d, i) :
                   VerifyInclusion(m, proof, Root(d))

\* An audit path proves nothing but membership: whatever index and size are
\* claimed for a path some log issued, verify_inclusion accepts it under the
\* root of a tree only for a measurement of that tree, and when the size is
\* the true one, only at the index where the measurement is.
InclusionSound ==
    \A l, of \in Logs, m \in Measurements, i \in 0..MaxSize :
        \A proof \in InclusionProof(leaves[l], i) :
        \A d \in Snapshots(of) : LET root == Root(d) IN
        \A index, size \in Words :
            VerifyInclusion(m, [leaf_index |-> index, tree_size |-> size,
                                audit_path |-> proof.audit_path], root)
                => /\ S!Contains(d, LeafHash(m))
                   /\ size = Len(d) => index < size /\ d[index + 1] = LeafHash(m)

\* The fact the witness and client models rest on: between genuine heads,
\* some proof in circulation passes verify_consistency exactly when the old
\* tree is a non-empty prefix of the new one (VerifyConsistency of TreeHeads,
\* with the proofs that Witnessing lets the operator hand out).
ProofsAreExtension ==
    \A from, to \in Logs : \A old \in Snapshots(from) \ {<<>>} :
        LET new == leaves[to] IN
        (\E l \in Logs : \E proof \in ConsistencyProof(leaves[l], Len(old)) :
             /\ proof.second_size = Len(new)
             /\ VerifyConsistency(proof, Root(old), Root(new)))
        <=> S!IsPrefix(old, new)
=============================================================================
