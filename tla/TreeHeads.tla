------------------------------ MODULE TreeHeads ------------------------------
(***************************************************************************)
(* Tree heads and the consistency proofs between them, as witnesses and    *)
(* clients see them.                                                       *)
(*                                                                         *)
(* A root is the sequence of measurements it commits to: with a collision- *)
(* resistant hash the two determine each other.  Nothing ties the size in  *)
(* a head to its root: an operator can sign any size, and claim any in a   *)
(* proof.  FalseSizes says which ones he does.  A consistency proof is the *)
(* two sizes it carries and the two roots its path rebuilds.  That a path  *)
(* exists only from a tree to an extension of it, whatever sizes are       *)
(* claimed, and that every genuine extension has one, is checked bit by    *)
(* bit in TransparencyLog (ConsistencySound, ConsistencyComplete,          *)
(* ProofsAreExtension) and MCTransparencyLog (ForgedPathsExtend).          *)
(***************************************************************************)
EXTENDS Naturals, Sequences, FiniteSets, SequencesExt

CONSTANTS Measurements,   \* what is logged
          MaxSize,        \* bound on the size of a tree
          FalseSizes,     \* sizes an operator states of trees of another size
          None            \* Option::None

ASSUME MaxSizeAssumption == MaxSize \in Nat

Sizes == 0..MaxSize

ASSUME FalseSizesAssumption == FalseSizes \subseteq Sizes

Roots == UNION {[1..n -> Measurements] : n \in Sizes}

\* A SignedTreeHead whose signature verified; also the (size, root) pairs
\* that witnesses and clients remember.
Heads == [tree_size : Sizes, root : Roots]

ASSUME NoneAssumption ==
    /\ None \notin Heads /\ None \notin Roots
    /\ None \notin [first_size : Sizes, second_size : Sizes, rebuilds : Roots \X Roots]

\* signed_tree_head, when the log had k leaves.
HeadOf(tree, k) == [tree_size |-> k, root |-> SubSeq(tree, 1, k)]

\* The heads an operator can have signed over the first k leaves of a tree.
SignableHeads(tree, k) ==
    {[tree_size |-> size, root |-> SubSeq(tree, 1, k)] : size \in {k} \cup FalseSizes}

\* The proof that the first n leaves of a tree extend its first k leaves.
ProofBetween(tree, k, n) ==
    [first_size |-> k, second_size |-> n,
     rebuilds |-> <<SubSeq(tree, 1, k), SubSeq(tree, 1, n)>>]

\* The same path under false sizes.  For some of them the verifier would
\* want a path of another shape; here the operator has a path for them all.
ClaimableProofs(tree, k, n) ==
    {[first_size |-> i, second_size |-> j,
      rebuilds |-> <<SubSeq(tree, 1, k), SubSeq(tree, 1, n)>>] :
         i \in {k} \cup FalseSizes, j \in {n} \cup FalseSizes}

\* Its three cases: equal sizes, from the empty tree, and a path that is
\* replayed; a path always adds something to a tree that is not empty.
VerifyConsistency(proof, first_root, second_root) ==
    /\ proof.rebuilds = <<first_root, second_root>>
    /\ \/ proof.first_size = proof.second_size /\ first_root = second_root
       \/ 0 = proof.first_size /\ 0 < proof.second_size /\ first_root = <<>>
       \/ /\ 0 < proof.first_size /\ proof.first_size < proof.second_size
          /\ first_root # <<>> /\ first_root # second_root

\* Two heads that can belong to one append-only history.
Consistent(g, h) ==
    /\ g.tree_size <= h.tree_size => IsPrefix(g.root, h.root)
    /\ h.tree_size <= g.tree_size => IsPrefix(h.root, g.root)
=============================================================================
