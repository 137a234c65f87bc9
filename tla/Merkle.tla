------------------------------- MODULE Merkle -------------------------------
(***************************************************************************)
(* The pure algorithms of `mod log`: the RFC 6962 tree hash, its audit     *)
(* paths and consistency proofs, and the two verifiers that replay them.   *)
(*                                                                         *)
(* A hash is the term it was computed from, so two hashes are equal        *)
(* exactly when they were computed from equal inputs (collision            *)
(* resistance), and a leaf, a node and the empty tree never collide        *)
(* (domain separation).  Everything else is the code's arithmetic: which   *)
(* nodes a proof lists, in which order, and how the bits of the claimed    *)
(* sizes say on which side each one is hashed.                             *)
(***************************************************************************)
EXTENDS Naturals, Sequences, FiniteSets

CONSTANT Width   \* bits of the integers that carry sizes and indices (64)

ASSUME WidthAssumption == Width \in Nat \ {0}

EmptyRoot == <<"empty">>
LeafHash(m) == <<"leaf", m>>
NodeHash(l, r) == <<"node", l, r>>

\* 2^k; the integer operations of the code all are divisions by such numbers.
Pow2[k \in Nat] == IF k = 0 THEN 1 ELSE 2 * Pow2[k - 1]

-----------------------------------------------------------------------------
(* Building the tree and its proofs; d is the sequence of leaf hashes.  The *)
(* code recurs on slices of d; here a slice is its length n and the number  *)
(* i of leaves before it, and m counts from the start of d, not of a slice. *)

\* The largest power of two strictly less than n, for n >= 2.
Split(n) == CHOOSE k \in {Pow2[i] : i \in 0..n} : k < n /\ n <= 2 * k

FirstPart(d, k) == SubSeq(d, 1, k)
SecondPart(d, k) == SubSeq(d, k + 1, Len(d))

\* Tree(d)[n][i] is the hash of the n leaves after the first i.
Tree(d) ==
    LET mth[n \in Nat] ==
            [i \in Nat |->
                IF n = 0 THEN EmptyRoot
                ELSE IF n = 1 THEN d[i + 1]
                ELSE LET k == Split(n) IN NodeHash(mth[k][i], mth[n - k][i + k])]
    IN  mth

Mth(d) == Tree(d)[Len(d)][0]

\* The audit path, from the leaf to the root, of the leaf at index m (from 0).
PathIn(m, d) ==
    LET path[n \in Nat] ==
            [i \in Nat |->
                LET k == Split(n)
                IN  IF n <= 1 THEN <<>>
                    ELSE IF m < i + k THEN Append(path[k][i], Tree(d)[n - k][i + k])
                    ELSE Append(path[n - k][i + k], Tree(d)[k][i])]
    IN  path

Path(m, d) == PathIn(m, d)[Len(d)][0]

\* The nodes that rebuild both the tree over the first m leaves and the tree
\* over the slice.  b: the slice still holds the first m leaves from their
\* start, so that the verifier may hold the root it stops at.
ConsSubproofIn(m, d) ==
    LET sub[n \in Nat] ==
            [i \in Nat |-> [b \in BOOLEAN |->
                LET k == Split(n)
                IN  IF m = i + n \/ n <= 1 THEN IF b THEN <<>> ELSE <<Tree(d)[n][i]>>
                    ELSE IF m <= i + k THEN Append(sub[k][i][b], Tree(d)[n - k][i + k])
                    ELSE Append(sub[n - k][i + k][FALSE], Tree(d)[k][i])]]
    IN  sub

ConsSubproof(m, d, b) == ConsSubproofIn(m, d)[Len(d)][0][b]

-----------------------------------------------------------------------------
(* Integer operations of the verifiers.                                    *)

Words == 0..(Pow2[Width] - 1)

\* x >> k.  A build without overflow checks masks the shift count.
Shr(x, k) == x \div Pow2[k % Width]

Bit(x, i) == Shr(x, i) % 2

CountOnes == [x \in Words |-> Cardinality({i \in 0..(Width - 1) : Bit(x, i) = 1})]

\* The length in bits of the exclusive or of x and y: the position above the
\* highest bit on which they differ.
BitLenXor ==
    [x \in Words |-> [y \in Words |->
        CHOOSE k \in 0..Width :
            /\ x \div Pow2[k] = y \div Pow2[k]
            /\ \A j \in 0..(k - 1) : x \div Pow2[j] # y \div Pow2[j]]]

TrailingZeros ==
    [x \in Words \ {0} |->
        CHOOSE k \in 0..(Width - 1) : x % Pow2[k] = 0 /\ x % Pow2[k + 1] # 0]

-----------------------------------------------------------------------------
(* Replaying proofs.                                                       *)

\* The hash that the loops below end with: each proof[i] is hashed in on the
\* left or the right of the accumulator, or passed over.
Climb(seed, proof, side) ==
    LET acc[i \in Nat] ==
            IF i = 0 THEN seed
            ELSE IF side[i] = "left" THEN NodeHash(proof[i], acc[i - 1])
            ELSE IF side[i] = "right" THEN NodeHash(acc[i - 1], proof[i])
            ELSE acc[i - 1]
    IN  acc[Len(proof)]

AllLeft(proof) == [i \in 1..Len(proof) |-> "left"]

\* Fault: the side is taken from the bit above.
ChainInnerBitAbove(seed, proof, index) ==
    Climb(seed, proof, [i \in 1..Len(proof) |-> IF Bit(index, i) = 0 THEN "right" ELSE "left"])

\* Hash seed up through proof, on the side the bits of index say.
ChainInner(seed, proof, index) ==
    Climb(seed, proof, [i \in 1..Len(proof) |-> IF Bit(index, i - 1) = 0 THEN "right" ELSE "left"])

\* Fault: folds the right siblings too.
ChainInnerWhole(seed, proof, index) == Climb(seed, proof, AllLeft(proof))

\* The same, of the left siblings only: the old tree has nothing on the right.
ChainInnerRight(seed, proof, index) ==
    Climb(seed, proof, [i \in 1..Len(proof) |-> IF Bit(index, i - 1) = 1 THEN "left" ELSE "none"])

ChainBorderRight(seed, proof) == Climb(seed, proof, AllLeft(proof))

VerifyInclusion(leaf, proof, root) ==
    LET index == proof.leaf_index
        size == proof.tree_size
        path == proof.audit_path
        inner == BitLenXor[index][size - 1]
        border == CountOnes[Shr(index, inner)]
    IN  /\ index < size
        /\ Len(path) = inner + border
        /\ root = ChainBorderRight(
                      ChainInner(LeafHash(leaf), FirstPart(path, inner), index),
                      SecondPart(path, inner))

\* Fault: only the new root is compared.
ReplaysNewRoot(m, n, path, first_root, second_root) ==
    LET shift == TrailingZeros[m]
        inner == BitLenXor[m - 1][n - 1] - shift
        full == m = Pow2[shift]
        start == IF full THEN 0 ELSE 1
        seed == IF full THEN first_root ELSE path[1]
        rest == SecondPart(path, start)
        mask == Shr(m - 1, shift)
    IN  /\ BitLenXor[m - 1][n - 1] >= shift
        /\ full \/ path # <<>>
        /\ Len(path) = start + inner + CountOnes[Shr(m - 1, BitLenXor[m - 1][n - 1])]
        /\ second_root = ChainBorderRight(
                             ChainInner(seed, FirstPart(rest, inner), mask),
                             SecondPart(rest, inner))

\* The case 0 < m < n of verify_consistency: one path rebuilds both roots.
ReplaysBothRoots(m, n, path, first_root, second_root) ==
    LET inner0 == BitLenXor[m - 1][n - 1]
        border == CountOnes[Shr(m - 1, inner0)]
        shift == TrailingZeros[m]
        inner == inner0 - shift
        full == m = Pow2[shift]         \* the old tree is one complete subtree
        start == IF full THEN 0 ELSE 1
        seed == IF full THEN first_root ELSE path[1]
        rest == SecondPart(path, start)
        mask == Shr(m - 1, shift)
    IN  /\ inner0 >= shift
        /\ full \/ path # <<>>
        /\ Len(path) = start + inner + border
        /\ first_root = ChainBorderRight(
                            ChainInnerRight(seed, FirstPart(rest, inner), mask),
                            SecondPart(rest, inner))
        /\ second_root = ChainBorderRight(
                             ChainInner(seed, FirstPart(rest, inner), mask),
                             SecondPart(rest, inner))

VerifyConsistency(proof, first_root, second_root) ==
    LET m == proof.first_size
        n == proof.second_size
        path == proof.path
    IN  \/ m = n /\ path = <<>> /\ first_root = second_root
        \/ 0 = m /\ m < n /\ path = <<>> /\ first_root = EmptyRoot
        \/ 0 < m /\ m < n
           /\ ReplaysBothRoots(m, n, path, first_root, second_root)
=============================================================================
