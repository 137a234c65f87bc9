---------------------------- MODULE TreeHeadsProofs ----------------------------
(***************************************************************************)
(* Facts about roots, prefixes and heads that the proofs about the         *)
(* federation, the sessions, the ledger and the receipts share.            *)
(***************************************************************************)
EXTENDS TreeHeads, FiniteSetTheorems, SequenceTheorems, TLAPS

USE MaxSizeAssumption, FalseSizesAssumption

\* Roots are the sequences of measurements no longer than the bound.
LEMMA RootsAreSequences ==
    ASSUME NEW r
    PROVE  r \in Roots <=> r \in Seq(Measurements) /\ Len(r) \in Sizes
<1>1. ASSUME r \in Seq(Measurements)
      PROVE  r \in [1..Len(r) -> Measurements]
  BY <1>1
<1>2. QED
  BY <1>1 DEF Roots, Sizes

\* Prefixes, element by element.
LEMMA PrefixElements ==
    ASSUME NEW X, NEW s \in Seq(X), NEW t \in Seq(X)
    PROVE  IsPrefix(s, t) <=> /\ Len(s) <= Len(t)
                              /\ \A i \in 1..Len(s) : s[i] = t[i]
<1>1. SubSeq(s, 1, Len(s)) = s
  OBVIOUS
<1>2. ASSUME Len(s) <= Len(t)
      PROVE  /\ SubSeq(t, 1, Len(s)) \in Seq(X)
             /\ Len(SubSeq(t, 1, Len(s))) = Len(s)
             /\ \A i \in 1..Len(s) : SubSeq(t, 1, Len(s))[i] = t[i]
  BY <1>2
<1>3. ASSUME Len(s) <= Len(t), \A i \in 1..Len(s) : s[i] = t[i]
      PROVE  s = SubSeq(t, 1, Len(s))
  BY <1>2, <1>3
<1>4. QED
  BY <1>1, <1>2, <1>3 DEF IsPrefix

LEMMA PrefixTransitive ==
    ASSUME NEW r \in Roots, NEW s \in Roots, NEW t \in Roots,
           IsPrefix(r, s), IsPrefix(s, t)
    PROVE  IsPrefix(r, t)
BY RootsAreSequences, PrefixElements DEF Sizes

\* Of two beginnings of one tree the shorter is a prefix of the longer.
LEMMA PrefixesOfOne ==
    ASSUME NEW r \in Roots, NEW s \in Roots, NEW t \in Roots,
           IsPrefix(r, t), IsPrefix(s, t), Len(r) <= Len(s)
    PROVE  IsPrefix(r, s)
BY RootsAreSequences, PrefixElements DEF Sizes

\* The parts of a head; its size may be false.
LEMMA HeadParts ==
    ASSUME NEW h \in Heads
    PROVE  /\ h.tree_size \in Nat /\ h.tree_size \in Sizes
           /\ h.root \in Roots
           /\ h = [tree_size |-> h.tree_size, root |-> h.root]
           /\ IsPrefix(h.root, h.root)
<1>1. h.tree_size \in Sizes /\ h.root \in Roots
  BY DEF Heads
<1>2. IsPrefix(h.root, h.root)
  BY <1>1, RootsAreSequences, PrefixElements DEF Sizes
<1>3. QED
  BY <1>1, <1>2 DEF Heads, Sizes

\* The first k leaves of a tree are a tree, and whatever is signed over them
\* a head.
LEMMA SignableAreHeads ==
    ASSUME NEW t \in Roots, NEW k \in 0..Len(t)
    PROVE  /\ SubSeq(t, 1, k) \in Roots
           /\ SignableHeads(t, k) \subseteq Heads
<1>1. t \in Seq(Measurements) /\ Len(t) \in Sizes
  BY RootsAreSequences
<1>2. SubSeq(t, 1, k) \in Seq(Measurements) /\ Len(SubSeq(t, 1, k)) = k
  BY <1>1, SubSeqProperties
<1>3. k \in Sizes
  BY <1>1 DEF Sizes
<1>4. SubSeq(t, 1, k) \in Roots
  BY <1>2, <1>3, RootsAreSequences, Zenon
<1>5. ASSUME NEW size \in {k} \cup FalseSizes
      PROVE  [tree_size |-> size, root |-> SubSeq(t, 1, k)] \in Heads
  <2>1. size \in Sizes
    BY <1>3
  <2>2. QED
    BY <1>4, <2>1 DEF Heads
<1>6. QED
  BY <1>4, <1>5, Zenon DEF SignableHeads

\* A shorter beginning of a tree is a prefix of a longer one.
LEMMA BeginningsArePrefixes ==
    ASSUME NEW t \in Roots, NEW n \in 0..Len(t), NEW k \in 0..Len(t), k <= n
    PROVE  IsPrefix(SubSeq(t, 1, k), SubSeq(t, 1, n))
<1>1. t \in Seq(Measurements) /\ Len(t) \in Nat
  BY RootsAreSequences DEF Sizes
<1>2. ASSUME NEW j \in 0..Len(t)
      PROVE  /\ SubSeq(t, 1, j) \in Seq(Measurements)
             /\ Len(SubSeq(t, 1, j)) = j
             /\ \A i \in 1..j : SubSeq(t, 1, j)[i] = t[i]
  BY <1>1, SubSeqProperties
<1>3. /\ \A i \in 1..k : SubSeq(t, 1, k)[i] = SubSeq(t, 1, n)[i]
      /\ SubSeq(t, 1, k) \in Seq(Measurements) /\ Len(SubSeq(t, 1, k)) = k
      /\ SubSeq(t, 1, n) \in Seq(Measurements) /\ Len(SubSeq(t, 1, n)) = n
  BY <1>1, <1>2
<1>4. QED
  BY <1>3, PrefixElements

LEMMA EmptyIsRoot == <<>> \in Roots
<1>1. <<>> \in Seq(Measurements) /\ Len(<<>>) = 0
  OBVIOUS
<1>2. 0 \in Sizes
  BY DEF Sizes
<1>3. QED
  BY <1>1, <1>2, RootsAreSequences, Zenon

\* append makes a tree of a tree, and every beginning of the old tree is one
\* of the new.
LEMMA AppendedTree ==
    ASSUME NEW t \in Roots, NEW m \in Measurements, Len(t) < MaxSize
    PROVE  /\ Append(t, m) \in Roots
           /\ Len(Append(t, m)) = Len(t) + 1
           /\ IsPrefix(t, Append(t, m))
           /\ \A k \in 0..Len(t) : SubSeq(Append(t, m), 1, k) = SubSeq(t, 1, k)
<1>1. t \in Seq(Measurements) /\ Len(t) \in Sizes /\ Len(t) \in Nat
  BY RootsAreSequences DEF Sizes
<1>2. /\ Append(t, m) \in Seq(Measurements)
      /\ Len(Append(t, m)) = Len(t) + 1
      /\ \A i \in 1..Len(t) : Append(t, m)[i] = t[i]
  BY <1>1, AppendProperties
<1>3. Len(Append(t, m)) \in Sizes
  BY <1>1, <1>2 DEF Sizes
<1>4. Append(t, m) \in Roots
  BY <1>2, <1>3, RootsAreSequences, Zenon
<1>5. IsPrefix(t, Append(t, m))
  <2>1. Len(t) <= Len(Append(t, m)) /\ \A i \in 1..Len(t) : t[i] = Append(t, m)[i]
    BY <1>1, <1>2
  <2>2. QED
    BY <1>1, <1>2, <2>1, PrefixElements, Zenon
<1>6. ASSUME NEW k \in 0..Len(t)
      PROVE  SubSeq(Append(t, m), 1, k) = SubSeq(t, 1, k)
  <2>1. k \in Nat /\ k <= Len(t) /\ k <= Len(Append(t, m))
    BY <1>1, <1>2
  <2>2. /\ SubSeq(t, 1, k) \in Seq(Measurements) /\ Len(SubSeq(t, 1, k)) = k
        /\ SubSeq(Append(t, m), 1, k) \in Seq(Measurements)
        /\ Len(SubSeq(Append(t, m), 1, k)) = k
        /\ \A i \in 1..k : SubSeq(t, 1, k)[i] = t[i]
        /\ \A i \in 1..k : SubSeq(Append(t, m), 1, k)[i] = Append(t, m)[i]
    BY <1>1, <1>2, <2>1, SubSeqProperties
  <2>3. \A i \in 1..k : SubSeq(t, 1, k)[i] = SubSeq(Append(t, m), 1, k)[i]
    BY <1>1, <1>2, <2>1, <2>2
  <2>4. QED
    BY <2>1, <2>2, <2>3
<1>7. QED
  BY <1>2, <1>4, <1>5, <1>6

\* What was signable over a tree is signable over it when it has grown.
LEMMA SignableStays ==
    ASSUME NEW t \in Roots, NEW m \in Measurements, Len(t) < MaxSize, NEW k \in 0..Len(t)
    PROVE  SignableHeads(Append(t, m), k) = SignableHeads(t, k)
BY AppendedTree DEF SignableHeads

\* The root of a signable head is a beginning of the tree.
LEMMA SignableIsBeginning ==
    ASSUME NEW t \in Roots, NEW k \in 0..Len(t), NEW h \in SignableHeads(t, k)
    PROVE  /\ h.root = SubSeq(t, 1, k)
           /\ IsPrefix(h.root, t)
<1>1. h.root = SubSeq(t, 1, k)
  BY DEF SignableHeads
<1>2. t \in Seq(Measurements) /\ Len(t) \in Nat
  BY RootsAreSequences DEF Sizes
<1>3. SubSeq(t, 1, Len(t)) = t
  BY <1>2
<1>4. IsPrefix(SubSeq(t, 1, k), SubSeq(t, 1, Len(t)))
  BY <1>2, BeginningsArePrefixes
<1>5. QED
  BY <1>1, <1>3, <1>4

\* What a prefix lists, the whole lists at the same place.
LEMMA PrefixLists ==
    ASSUME NEW s \in Roots, NEW t \in Roots, IsPrefix(s, t), NEW i \in DOMAIN s
    PROVE  i \in DOMAIN t /\ t[i] = s[i]
BY RootsAreSequences, PrefixElements DEF Sizes

\* Consistency of heads has no direction.
LEMMA ConsistentIsSymmetric ==
    ASSUME NEW g, NEW h
    PROVE  Consistent(g, h) <=> Consistent(h, g)
BY DEF Consistent

\* Of two consistent heads one root is a prefix of the other.
LEMMA ConsistentRoots ==
    ASSUME NEW g \in Heads, NEW h \in Heads, Consistent(g, h)
    PROVE  IsPrefix(g.root, h.root) \/ IsPrefix(h.root, g.root)
BY HeadParts DEF Consistent
=============================================================================
