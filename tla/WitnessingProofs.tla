--------------------------- MODULE WitnessingProofs ---------------------------
(***************************************************************************)
(* The witness federation for any number of logs, witnesses, clients,      *)
(* measurements and any bound on the size of the trees.                    *)
(*                                                                         *)
(* The argument: every head an honest witness has cosigned is a prefix of  *)
(* the one it remembers (LastDominates), so all of them lie on one         *)
(* history; every head a client trusts has a quorum behind it              *)
(* (TrustNeedsQuorum); two quorums share an honest witness                 *)
(* (QuorumOverlap), which has cosigned both heads.                         *)
(***************************************************************************)
EXTENDS Witnessing, TreeHeadsProofs

USE MaxSizeAssumption, FalseSizesAssumption

-----------------------------------------------------------------------------
(* What is offered.                                                        *)

\* Whatever the operator offers is a head.
LEMMA OfferedAreHeads ==
    ASSUME TypeOK
    PROVE  OfferedHeads \subseteq Heads
<1>1. ASSUME NEW l \in Logs, NEW k \in 0..Len(leaves[l])
      PROVE  SignableHeads(leaves[l], k) \subseteq Heads
  BY SignableAreHeads DEF TypeOK
<1>2. QED
  BY <1>1 DEF OfferedHeads

\* A proof that joins a remembered root to an offered head shows the one to
\* be a prefix of the other, and the same at the same size, whatever sizes
\* the proof and the head state.
LEMMA JoinedExtends ==
    ASSUME TypeOK, NEW proof \in OfferedProofs \cup {None},
           NEW size \in Nat, NEW root, NEW sth \in Heads,
           JoinsTo(proof, size, root, sth)
    PROVE  /\ size <= sth.tree_size
           /\ IsPrefix(root, sth.root)
           /\ size = sth.tree_size => root = sth.root
<1>1. proof \in OfferedProofs
  BY DEF JoinsTo
<1>2. PICK l \in Logs : \E n \in 0..Len(leaves[l]) : \E k \in 0..n :
                             proof \in ClaimableProofs(leaves[l], k, n)
  BY <1>1 DEF OfferedProofs
<1>3. PICK n \in 0..Len(leaves[l]) : \E k \in 0..n :
           proof \in ClaimableProofs(leaves[l], k, n)
  BY <1>2
<1>4. PICK k \in 0..n : proof \in ClaimableProofs(leaves[l], k, n)
  BY <1>3
<1>5. proof.rebuilds = <<SubSeq(leaves[l], 1, k), SubSeq(leaves[l], 1, n)>>
  BY <1>4 DEF ClaimableProofs
<1>6. root = SubSeq(leaves[l], 1, k) /\ sth.root = SubSeq(leaves[l], 1, n)
  BY <1>5 DEF JoinsTo, VerifyConsistency
<1>7. leaves[l] \in Roots /\ Len(leaves[l]) \in Nat
  BY RootsAreSequences DEF TypeOK, Sizes
<1>8. IsPrefix(SubSeq(leaves[l], 1, k), SubSeq(leaves[l], 1, n))
  BY <1>7, BeginningsArePrefixes
<1>9. size = proof.first_size /\ sth.tree_size = proof.second_size
  BY DEF JoinsTo
<1>10. size <= sth.tree_size /\ (size = sth.tree_size => root = sth.root)
  BY <1>9, HeadParts DEF JoinsTo, VerifyConsistency
<1>11. QED
  BY <1>6, <1>8, <1>10

-----------------------------------------------------------------------------
(* Types.                                                                  *)

LEMMA TypeInit == Init => TypeOK
BY EmptyIsRoot DEF Init, TypeOK

LEMMA TypeStep == TypeOK /\ [Next]_vars => TypeOK'
<1> SUFFICES ASSUME TypeOK, [Next]_vars PROVE TypeOK'
  OBVIOUS
<1>1. CASE UNCHANGED vars
  BY <1>1 DEF TypeOK, vars
<1>2. ASSUME NEW l \in Logs, NEW m \in Measurements, AppendLeaf(l, m)
      PROVE  TypeOK'
  <2>1. Append(leaves[l], m) \in Roots
    BY <1>2, AppendedTree DEF AppendLeaf, TypeOK
  <2>2. QED
    BY <1>2, <2>1 DEF AppendLeaf, TypeOK
<1>3. ASSUME NEW w \in Honest, NEW sth \in OfferedHeads,
             NEW proof \in OfferedProofs \cup {None}, Cosign(w, sth, proof)
      PROVE  TypeOK'
  <2>1. sth \in Heads
    BY OfferedAreHeads
  <2>2. QED
    BY <1>3, <2>1 DEF Cosign, TypeOK, Honest
<1>4. ASSUME NEW c \in Clients, NEW sth \in OfferedHeads,
             NEW proof \in OfferedProofs \cup {None},
             NEW cosigners \in SUBSET Cosigners(sth),
             Ingest(c, sth, cosigners, proof)
      PROVE  TypeOK'
  <2>1. sth \in Heads /\ sth.root \in Roots
    BY OfferedAreHeads, HeadParts
  <2>2. [by_size[c] EXCEPT ![sth.tree_size] = sth.root] \in [Sizes -> Roots \cup {None}]
    BY <2>1 DEF TypeOK
  <2>3. by_size' \in [Clients -> [Sizes -> Roots \cup {None}]]
    BY <1>4, <2>2 DEF Ingest, TypeOK
  <2>4. accepted' \in [Clients -> SUBSET Heads]
    BY <1>4, <2>1 DEF Ingest, TypeOK
  <2>5. QED
    BY <1>4, <2>3, <2>4 DEF Ingest, TypeOK
<1>5. QED
  BY <1>1, <1>2, <1>3, <1>4 DEF Next, ProofsTo

\* Every variable keeps its type: no handler stores anything but a head, or a
\* root at a size within the bound.
THEOREM TypeCorrect == Spec => []TypeOK
BY TypeInit, TypeStep, PTL DEF Spec

-----------------------------------------------------------------------------
(* Honest witnesses.                                                       *)

\* One history, all of it behind the last head: neither part is inductive
\* without the other once sizes may be false.
LastIsHighest == LastDominates /\ HonestCosignsOneHistory

LEMMA LastIsHighestStep == TypeOK /\ LastIsHighest /\ [Next]_vars => LastIsHighest'
<1> SUFFICES ASSUME TypeOK, LastDominates, HonestCosignsOneHistory, [Next]_vars
             PROVE  LastDominates' /\ HonestCosignsOneHistory'
  BY DEF LastIsHighest
<1>1. CASE UNCHANGED <<last, cosigs>>
  BY <1>1 DEF LastDominates, HonestCosignsOneHistory
<1>2. ASSUME NEW w \in Honest, NEW sth \in OfferedHeads,
             NEW proof \in OfferedProofs \cup {None}, Cosign(w, sth, proof)
      PROVE  LastDominates' /\ HonestCosignsOneHistory'
  <2>1. sth \in Heads /\ sth # None
    BY OfferedAreHeads, NoneAssumption
  <2>2. w \in Witnesses /\ last'[w] = sth /\ cosigs'[w] = cosigs[w] \cup {sth}
    BY <1>2 DEF Cosign, TypeOK, Honest
  <2>3. ASSUME NEW h \in cosigs[w]
        PROVE  /\ h \in Heads
               /\ h.tree_size <= sth.tree_size
               /\ IsPrefix(h.root, sth.root)
               /\ h.tree_size = sth.tree_size => h.root = sth.root
    <3>1. /\ last[w] # None
          /\ h.tree_size <= last[w].tree_size
          /\ IsPrefix(h.root, last[w].root)
          /\ h.tree_size = last[w].tree_size => h.root = last[w].root
      BY <2>2, <2>3 DEF LastDominates
    <3>2. h \in Heads /\ last[w] \in Heads
      BY <2>2, <2>3, <3>1 DEF TypeOK
    <3>3. /\ h.tree_size \in Nat /\ last[w].tree_size \in Nat /\ sth.tree_size \in Nat
          /\ h.root \in Roots /\ last[w].root \in Roots /\ sth.root \in Roots
      BY <2>1, <3>2, HeadParts
    <3>4. /\ last[w].tree_size <= sth.tree_size
          /\ IsPrefix(last[w].root, sth.root)
          /\ last[w].tree_size = sth.tree_size => last[w].root = sth.root
      BY <1>2, <2>1, <3>1, <3>3, JoinedExtends DEF Cosign
    <3>5. IsPrefix(h.root, sth.root)
      BY <3>1, <3>3, <3>4, PrefixTransitive
    <3>6. QED
      BY <3>1, <3>2, <3>3, <3>4, <3>5
  <2>4. sth.tree_size <= sth.tree_size /\ IsPrefix(sth.root, sth.root)
    BY <2>1, HeadParts
  <2>5. ASSUME NEW v \in Witnesses, v # w
        PROVE  last'[v] = last[v] /\ cosigs'[v] = cosigs[v]
    BY <1>2, <2>5 DEF Cosign, TypeOK
  <2>6. LastDominates'
    BY <2>1, <2>2, <2>3, <2>4, <2>5 DEF LastDominates
  <2>7. ASSUME NEW h \in cosigs[w]
        PROVE  Consistent(h, sth) /\ Consistent(sth, h)
    <3>1. h.tree_size \in Nat /\ sth.tree_size \in Nat
      BY <2>1, <2>3, HeadParts
    <3>2. QED
      BY <2>3, <2>4, <3>1 DEF Consistent
  <2>8. Consistent(sth, sth)
    BY <2>4 DEF Consistent
  <2>9. HonestCosignsOneHistory'
    BY <2>2, <2>5, <2>7, <2>8 DEF HonestCosignsOneHistory, Honest
  <2>10. QED
    BY <2>6, <2>9
<1>3. QED
  BY <1>1, <1>2 DEF Next, ProofsTo, vars, AppendLeaf, Ingest

\* What a witness has forgotten is always covered by what it remembers,
\* although the operator may state any sizes.
THEOREM LastAlwaysDominates == Spec => []LastDominates
<1>1. Init => LastIsHighest
  BY DEF Init, LastIsHighest, LastDominates, HonestCosignsOneHistory, Honest
<1>2. LastIsHighest => LastDominates
  BY DEF LastIsHighest
<1>3. QED
  BY <1>1, <1>2, LastIsHighestStep, TypeCorrect, PTL DEF Spec

\* Any number of honest witnesses, each following heads from any number of
\* forked logs in any order, cosign one history each.
THEOREM HonestHistory == Spec => []HonestCosignsOneHistory
<1>1. Init => LastIsHighest
  BY DEF Init, LastIsHighest, LastDominates, HonestCosignsOneHistory, Honest
<1>2. LastIsHighest => HonestCosignsOneHistory
  BY DEF LastIsHighest
<1>3. QED
  BY <1>1, <1>2, LastIsHighestStep, TypeCorrect, PTL DEF Spec

-----------------------------------------------------------------------------
(* Clients.                                                                *)

\* A cosignature is never withdrawn.
LEMMA CosignersGrow ==
    ASSUME TypeOK, [Next]_vars, NEW h
    PROVE  Cosigners(h) \subseteq Cosigners(h)'
<1>1. ASSUME NEW w \in Honest, NEW sth, NEW proof, Cosign(w, sth, proof)
      PROVE  \A v \in Witnesses : cosigs[v] \subseteq cosigs'[v]
  BY <1>1 DEF Cosign, TypeOK
<1>2. CASE UNCHANGED cosigs
  BY <1>2 DEF Cosigners
<1>3. \A v \in Witnesses : cosigs[v] \subseteq cosigs'[v]
  BY <1>1, <1>2 DEF Next, ProofsTo, vars, AppendLeaf, Ingest
<1>4. QED
  BY <1>3 DEF Cosigners

\* What ingest counts is a quorum of the cosignatures that exist.
LEMMA CountedIsQuorum ==
    ASSUME NEW c \in Clients, NEW sth, NEW cosigners \in SUBSET Cosigners(sth),
           NEW proof, Ingest(c, sth, cosigners, proof)
    PROVE  Cosigners(sth) \cap Trusted[c] \in Quorums(c)
<1>1. /\ IsFiniteSet(Trusted[c]) /\ Threshold[c] \in Nat
      /\ Threshold[c] # 0
      /\ Cardinality(cosigners \cap Trusted[c]) >= Threshold[c]
  BY WitnessingAssumption DEF Ingest, HasQuorum
<1>2. IsFiniteSet(Cosigners(sth) \cap Trusted[c])
  BY <1>1, FS_Subset
<1>3. cosigners \cap Trusted[c] \subseteq Cosigners(sth) \cap Trusted[c]
  OBVIOUS
<1>4. /\ Cardinality(cosigners \cap Trusted[c])
             <= Cardinality(Cosigners(sth) \cap Trusted[c])
      /\ Cardinality(cosigners \cap Trusted[c]) \in Nat
      /\ Cardinality(Cosigners(sth) \cap Trusted[c]) \in Nat
  BY <1>2, <1>3, FS_Subset, FS_CardinalityType
<1>5. QED
  BY <1>1, <1>4 DEF Quorums

LEMMA TrustNeedsQuorumStep ==
    TypeOK /\ TrustNeedsQuorum /\ [Next]_vars => TrustNeedsQuorum'
<1> SUFFICES ASSUME TypeOK, TrustNeedsQuorum, [Next]_vars,
                    NEW c \in Clients, NEW h \in accepted'[c]
             PROVE  Cosigners(h)' \cap Trusted[c] \in Quorums(c)
  BY DEF TrustNeedsQuorum, Quorums
<1>1. Cosigners(h) \cap Trusted[c] \in Quorums(c)
  <2>1. CASE h \in accepted[c]
    BY <2>1 DEF TrustNeedsQuorum
  <2>2. ASSUME NEW d \in Clients, NEW sth \in OfferedHeads,
               NEW proof \in OfferedProofs \cup {None},
               NEW cosigners \in SUBSET Cosigners(sth),
               Ingest(d, sth, cosigners, proof), h \notin accepted[c]
        PROVE  Cosigners(h) \cap Trusted[c] \in Quorums(c)
    <3>1. d = c /\ h = sth
      BY <2>2 DEF Ingest, TypeOK
    <3>2. QED
      BY <2>2, <3>1, CountedIsQuorum
  <2>3. QED
    BY <2>1, <2>2 DEF Next, ProofsTo, vars, AppendLeaf, Cosign
<1>2. Cosigners(h) \subseteq Cosigners(h)'
  BY CosignersGrow
<1>3. IsFiniteSet(Cosigners(h)' \cap Trusted[c])
  BY WitnessingAssumption, FS_Subset
<1>4. /\ Cardinality(Cosigners(h) \cap Trusted[c])
             <= Cardinality(Cosigners(h)' \cap Trusted[c])
      /\ Cardinality(Cosigners(h) \cap Trusted[c]) \in Nat
      /\ Cardinality(Cosigners(h)' \cap Trusted[c]) \in Nat
  BY <1>2, <1>3, FS_Subset, FS_CardinalityType
<1>5. QED
  BY <1>1, <1>4, WitnessingAssumption DEF Quorums

\* No client ever trusts a head without a quorum of its own witnesses.
THEOREM QuorumBehindTrust == Spec => []TrustNeedsQuorum
<1>1. Init => TrustNeedsQuorum
  BY DEF Init, TrustNeedsQuorum
<1>2. QED
  BY <1>1, TrustNeedsQuorumStep, TypeCorrect, PTL DEF Spec

LEMMA TablesAgreeStep == TypeOK /\ TablesAgree /\ [Next]_vars => TablesAgree'
<1> SUFFICES ASSUME TypeOK, TablesAgree, [Next]_vars PROVE TablesAgree'
  OBVIOUS
<1>1. CASE UNCHANGED <<by_size, accepted>>
  BY <1>1 DEF TablesAgree
<1>2. ASSUME NEW c \in Clients, NEW sth \in OfferedHeads,
             NEW proof \in OfferedProofs \cup {None},
             NEW cosigners \in SUBSET Cosigners(sth),
             Ingest(c, sth, cosigners, proof)
      PROVE  TablesAgree'
  <2>1. sth \in Heads
    BY OfferedAreHeads
  <2>2. \A h \in Heads : /\ h.tree_size \in Sizes /\ h.root # None
                         /\ h.tree_size = sth.tree_size /\ h.root = sth.root => h = sth
    BY <2>1, NoneAssumption, RootsAreSequences DEF Heads
  <2>3. /\ by_size[c][sth.tree_size] \in {None, sth.root}
        /\ \A n \in Sizes : by_size'[c][n] = IF n = sth.tree_size THEN sth.root
                                             ELSE by_size[c][n]
        /\ accepted'[c] = accepted[c] \cup {sth}
    BY <1>2, <2>1, <2>2 DEF Ingest, DoesNotEquivocate, TypeOK
  <2>4. accepted'[c] = {h \in Heads : by_size'[c][h.tree_size] = h.root}
    <3>1. accepted[c] = {h \in Heads : by_size[c][h.tree_size] = h.root}
      BY DEF TablesAgree
    <3>2. QED
      BY <2>1, <2>2, <2>3, <3>1
  <2>5. ASSUME NEW d \in Clients, d # c
        PROVE  accepted'[d] = accepted[d] /\ by_size'[d] = by_size[d]
    BY <1>2, <2>5 DEF Ingest, TypeOK
  <2>6. QED
    BY <2>4, <2>5 DEF TablesAgree
<1>3. QED
  BY <1>1, <1>2 DEF Next, ProofsTo, vars, AppendLeaf, Cosign

\* is_anchored and ingest never disagree about what is trusted.
THEOREM TablesAlwaysAgree == Spec => []TablesAgree
<1>1. Init => TablesAgree
  BY NoneAssumption, RootsAreSequences DEF Init, TablesAgree, Heads
<1>2. QED
  BY <1>1, TablesAgreeStep, TypeCorrect, PTL DEF Spec

LEMMA AnchorStep == TypeOK /\ [Next]_vars => [AnchorOnlyExtends]_vars
<1> SUFFICES ASSUME TypeOK, [Next]_vars PROVE AnchorOnlyExtends
  OBVIOUS
<1> SUFFICES ASSUME NEW c \in Clients, NEW n \in Sizes, by_size[c][n] # None
             PROVE  /\ by_size'[c][n] = by_size[c][n]
                    /\ \A m \in Sizes :
                           IsHighest(c, n) /\ IsHighest(c, m)' =>
                               n <= m /\ IsPrefix(by_size[c][n], by_size'[c][m])
  BY DEF AnchorOnlyExtends
<1>1. by_size[c][n] \in Roots /\ IsPrefix(by_size[c][n], by_size[c][n])
  BY RootsAreSequences, PrefixElements DEF TypeOK, Sizes
<1>2. CASE by_size'[c] = by_size[c]
  BY <1>1, <1>2 DEF IsHighest, Sizes
<1>3. ASSUME NEW sth \in OfferedHeads, NEW proof \in OfferedProofs \cup {None},
             NEW cosigners, Ingest(c, sth, cosigners, proof)
      PROVE  /\ by_size'[c][n] = by_size[c][n]
             /\ \A m \in Sizes :
                    IsHighest(c, n) /\ IsHighest(c, m)' =>
                        n <= m /\ IsPrefix(by_size[c][n], by_size'[c][m])
  <2> DEFINE size == sth.tree_size
  <2>1. sth \in Heads /\ size \in Sizes /\ sth.root \in Roots /\ sth.root # None
    BY OfferedAreHeads, RootsAreSequences, NoneAssumption DEF Heads
  <2>2. \A m \in Sizes : by_size'[c][m] = IF m = size THEN sth.root
                                          ELSE by_size[c][m]
    BY <1>3, <2>1 DEF Ingest, TypeOK
  <2>3. by_size[c][size] \in {None, sth.root}
    BY <1>3 DEF Ingest, DoesNotEquivocate
  <2>4. by_size'[c][n] = by_size[c][n]
    BY <2>2, <2>3
  <2>5. ASSUME NEW m \in Sizes, IsHighest(c, n), IsHighest(c, m)'
        PROVE  n <= m /\ IsPrefix(by_size[c][n], by_size'[c][m])
    <3>1. /\ n <= m /\ size <= m
          /\ by_size'[c][m] # None
          /\ \A k \in Sizes : by_size[c][k] # None => k <= n
      BY <2>1, <2>2, <2>4, <2>5 DEF IsHighest
    <3>2. CASE size > n
      <4>1. JoinsTo(proof, n, by_size[c][n], sth)
        BY <1>3, <2>5, <3>2 DEF Ingest, ExtendsHighest
      <4>2. n \in Nat
        BY DEF Sizes
      <4>3. IsPrefix(by_size[c][n], sth.root)
        BY <2>1, <4>1, <4>2, JoinedExtends
      <4>4. m = size
        BY <2>1, <2>2, <3>1, <3>2 DEF Sizes
      <4>5. QED
        BY <2>2, <3>1, <4>3, <4>4
    <3>3. CASE ~(size > n)
      <4>1. m = n
        BY <2>1, <2>2, <3>1, <3>3 DEF Sizes
      <4>2. QED
        BY <1>1, <2>4, <3>1, <4>1
    <3>4. QED
      BY <3>2, <3>3
  <2>6. QED
    BY <2>4, <2>5
<1>4. ASSUME NEW d \in Clients, NEW sth, NEW cosigners, NEW proof,
             Ingest(d, sth, cosigners, proof), d # c
      PROVE  by_size'[c] = by_size[c]
  BY <1>4 DEF Ingest, TypeOK
<1>5. QED
  BY <1>2, <1>3, <1>4 DEF Next, ProofsTo, vars, AppendLeaf, Cosign

\* Without any assumption on who colludes: no WitnessAnchor ever rewrites a
\* root it trusts, and its highest head is only ever replaced by an extension.
THEOREM AnchorsAlwaysExtend == Spec => AnchorsOnlyExtend
BY TypeCorrect, AnchorStep, PTL DEF Spec, AnchorsOnlyExtend

-----------------------------------------------------------------------------
(* All clients together.                                                   *)

\* Behind two trusted heads stands one honest witness that cosigned both.
LEMMA TrustedAreConsistent ==
    ASSUME QuorumOverlap
    PROVE  HonestCosignsOneHistory /\ TrustNeedsQuorum => NoSplitView
<1> SUFFICES ASSUME HonestCosignsOneHistory, TrustNeedsQuorum,
                    NEW c \in Clients, NEW d \in Clients,
                    NEW g \in accepted[c], NEW h \in accepted[d]
             PROVE  Consistent(g, h)
  BY DEF NoSplitView
<1>1. /\ Cosigners(g) \cap Trusted[c] \in Quorums(c)
      /\ Cosigners(h) \cap Trusted[d] \in Quorums(d)
  BY DEF TrustNeedsQuorum
<1>2. PICK w \in Honest : w \in Cosigners(g) /\ w \in Cosigners(h)
  BY <1>1 DEF QuorumOverlap
<1>3. g \in cosigs[w] /\ h \in cosigs[w]
  BY <1>2 DEF Cosigners, Honest
<1>4. QED
  BY <1>3 DEF HonestCosignsOneHistory

\* If any two quorums share an honest witness, no two clients of the
\* federation ever trust heads of two histories.
THEOREM OverlapPreventsSplitView ==
    ASSUME QuorumOverlap
    PROVE  Spec => []NoSplitView
BY TrustedAreConsistent, HonestHistory, QuorumBehindTrust, PTL

\* When quorums overlap so: every client asks for t of the same n witnesses,
\* of which f collude, and 2t > n + f.  (That fewer than t collude is not
\* enough: see the run minority_colluder.)
THEOREM MajorityOverlap ==
    ASSUME NEW T, IsFiniteSet(T), NEW t \in Nat,
           \A c \in Clients : Trusted[c] = T /\ Threshold[c] = t,
           2 * t > Cardinality(T) + Cardinality(T \cap Colluding)
    PROVE  QuorumOverlap
<1> SUFFICES ASSUME NEW c \in Clients, NEW d \in Clients,
                    NEW Q \in Quorums(c), NEW R \in Quorums(d),
                    Q \cap R \cap Honest = {}
             PROVE  FALSE
  BY DEF QuorumOverlap
<1>1. /\ Q \subseteq T /\ R \subseteq T
      /\ Cardinality(Q) >= t /\ Cardinality(R) >= t
  BY DEF Quorums
<1>2. T \subseteq Witnesses
  BY WitnessingAssumption
<1>3. Q \cap R \subseteq T \cap Colluding
  BY <1>1, <1>2 DEF Honest
<1>4. /\ IsFiniteSet(Q) /\ IsFiniteSet(R) /\ IsFiniteSet(Q \cup R)
      /\ IsFiniteSet(Q \cap R) /\ IsFiniteSet(T \cap Colluding)
      /\ Cardinality(Q \cup R) <= Cardinality(T)
  <2>1. Q \cup R \subseteq T /\ Q \cap R \subseteq T /\ T \cap Colluding \subseteq T
    BY <1>1
  <2>2. QED
    BY <1>1, <2>1, FS_Subset
<1>5. Cardinality(Q \cap R) <= Cardinality(T \cap Colluding)
  BY <1>3, <1>4, FS_Subset
<1>6. Cardinality(Q \cup R) = Cardinality(Q) + Cardinality(R) - Cardinality(Q \cap R)
  BY <1>4, FS_Union
<1>7. /\ Cardinality(Q) \in Nat /\ Cardinality(R) \in Nat /\ Cardinality(T) \in Nat
      /\ Cardinality(Q \cap R) \in Nat /\ Cardinality(T \cap Colluding) \in Nat
  BY <1>4, FS_CardinalityType
<1>8. QED
  BY <1>1, <1>4, <1>5, <1>6, <1>7

-----------------------------------------------------------------------------
(* Catching up.                                                            *)

\* The proof a log issues from its first k leaves joins their head to the
\* current one, also when k is all of them.
LEMMA IssuedProofJoins ==
    ASSUME TypeOK, NEW l \in Logs, NEW k \in 1..Len(leaves[l])
    PROVE  /\ JoinsTo(ConsistencyProof(l, k), k, SubSeq(leaves[l], 1, k), Current(l))
           /\ Current(l).tree_size = Len(leaves[l])
           /\ k = Len(leaves[l]) => Current(l).root = SubSeq(leaves[l], 1, k)
<1> DEFINE t == leaves[l]
           n == Len(leaves[l])
           old == SubSeq(leaves[l], 1, k)
           new == SubSeq(leaves[l], 1, n)
           proof == ProofBetween(leaves[l], k, n)
<1>1. t \in Seq(Measurements) /\ n \in Nat /\ k \in Nat /\ 0 < k /\ k <= n
  BY RootsAreSequences DEF TypeOK, Sizes
<1>2. ConsistencyProof(l, k) = proof
  BY <1>1 DEF ConsistencyProof
<1>3. Len(old) = k /\ Len(new) = n /\ old # <<>> /\ (k # n => old # new)
  BY <1>1, SubSeqProperties
<1>4. /\ proof.first_size = k /\ proof.second_size = n
      /\ proof.rebuilds = <<old, new>> /\ proof # None
  <2>1. old \in Roots /\ new \in Roots /\ k \in Sizes /\ n \in Sizes
    BY <1>1, RootsAreSequences, SignableAreHeads DEF TypeOK, Sizes
  <2>2. proof \in [first_size : Sizes, second_size : Sizes, rebuilds : Roots \X Roots]
    BY <2>1 DEF ProofBetween
  <2>3. QED
    BY <2>2, NoneAssumption DEF ProofBetween
<1>5. Current(l).tree_size = n /\ Current(l).root = new
  BY DEF Current, HeadOf
<1>6. VerifyConsistency(proof, old, new)
  BY <1>1, <1>3, <1>4 DEF VerifyConsistency
<1>7. QED
  BY <1>2, <1>4, <1>5, <1>6 DEF JoinsTo

\* Whoever follows a log from a non-empty head of it passes every check on the
\* way to its current head, with the proof the log issues: an honest witness
\* those of cosign, a client whose quorum has cosigned it those of ingest.
\* (FollowersCanCatchUp says that the steps are then enabled.)
THEOREM FollowersPassTheChecks ==
    Spec => [](\A l \in Logs : \A k \in 1..Len(leaves[l]) :
        /\ \A w \in Honest : last[w] = HeadOf(leaves[l], k) =>
               JoinsTo(ConsistencyProof(l, k), last[w].tree_size, last[w].root, Current(l))
        /\ \A c \in Clients :
               LET cosigners == Cosigners(Current(l))
               IN  /\ IsHighest(c, k)
                   /\ by_size[c][k] = HeadOf(leaves[l], k).root
                   /\ cosigners \cap Trusted[c] \in Quorums(c)
                   => /\ HasQuorum(c, cosigners)
                      /\ DoesNotEquivocate(c, Current(l))
                      /\ ExtendsHighest(c, Current(l), ConsistencyProof(l, k)))
<1>1. ASSUME TypeOK, NEW l \in Logs, NEW k \in 1..Len(leaves[l]),
             NEW w \in Honest, last[w] = HeadOf(leaves[l], k)
      PROVE  JoinsTo(ConsistencyProof(l, k), last[w].tree_size, last[w].root, Current(l))
  BY <1>1, IssuedProofJoins DEF HeadOf
<1>2. ASSUME TypeOK, NEW l \in Logs, NEW k \in 1..Len(leaves[l]), NEW c \in Clients,
             IsHighest(c, k), by_size[c][k] = HeadOf(leaves[l], k).root,
             Cosigners(Current(l)) \cap Trusted[c] \in Quorums(c)
      PROVE  /\ HasQuorum(c, Cosigners(Current(l)))
             /\ DoesNotEquivocate(c, Current(l))
             /\ ExtendsHighest(c, Current(l), ConsistencyProof(l, k))
  <2>1. Len(leaves[l]) \in Sizes /\ Len(leaves[l]) \in Nat /\ k \in Sizes
    BY <1>2, RootsAreSequences DEF TypeOK, Sizes
  <2>2. by_size[c][k] = SubSeq(leaves[l], 1, k)
    BY <1>2 DEF HeadOf
  <2>3. HasQuorum(c, Cosigners(Current(l)))
    BY <1>2 DEF HasQuorum, Quorums
  <2>4. DoesNotEquivocate(c, Current(l))
    <3>1. CASE k = Len(leaves[l])
      BY <1>2, <2>2, <3>1, IssuedProofJoins DEF DoesNotEquivocate
    <3>2. CASE k < Len(leaves[l])
      BY <1>2, <2>1, <3>2, IssuedProofJoins DEF DoesNotEquivocate, IsHighest, Sizes
    <3>3. QED
      BY <2>1, <3>1, <3>2
  <2>5. ExtendsHighest(c, Current(l), ConsistencyProof(l, k))
    <3>1. ASSUME NEW max_size \in Sizes, IsHighest(c, max_size) PROVE max_size = k
      BY <1>2, <2>1, <3>1 DEF IsHighest, Sizes
    <3>2. QED
      BY <1>2, <2>2, <3>1, IssuedProofJoins DEF ExtendsHighest
  <2>6. QED
    BY <2>3, <2>4, <2>5
<1>3. TypeOK => \A l \in Logs : \A k \in 1..Len(leaves[l]) :
        /\ \A w \in Honest : last[w] = HeadOf(leaves[l], k) =>
               JoinsTo(ConsistencyProof(l, k), last[w].tree_size, last[w].root, Current(l))
        /\ \A c \in Clients :
               LET cosigners == Cosigners(Current(l))
               IN  /\ IsHighest(c, k)
                   /\ by_size[c][k] = HeadOf(leaves[l], k).root
                   /\ cosigners \cap Trusted[c] \in Quorums(c)
                   => /\ HasQuorum(c, cosigners)
                      /\ DoesNotEquivocate(c, Current(l))
                      /\ ExtendsHighest(c, Current(l), ConsistencyProof(l, k))
  BY <1>1, <1>2, Zenon
<1>4. QED
  BY <1>3, TypeCorrect, PTL

-----------------------------------------------------------------------------
(* The federation implements OneHistory.                                   *)

TrustedHeads == UNION {accepted[c] : c \in Clients}

\* A step of the federation adds at most one head to what clients trust, and
\* that head is consistent with all the others.
LEMMA StepOfOneHistory ==
    ASSUME TypeOK, NoSplitView', [Next]_vars
    PROVE  \/ UNCHANGED TrustedHeads
           \/ \E h \in Heads : /\ \A g \in TrustedHeads : Consistent(g, h)
                               /\ TrustedHeads' = TrustedHeads \cup {h}
<1>1. ASSUME NEW c \in Clients, NEW sth \in OfferedHeads, NEW cosigners, NEW proof,
             Ingest(c, sth, cosigners, proof)
      PROVE  \E h \in Heads : /\ \A g \in TrustedHeads : Consistent(g, h)
                              /\ TrustedHeads' = TrustedHeads \cup {h}
  <2>1. /\ accepted'[c] = accepted[c] \cup {sth}
        /\ \A d \in Clients : d # c => accepted'[d] = accepted[d]
    BY <1>1 DEF Ingest, TypeOK
  <2>2. TrustedHeads' = TrustedHeads \cup {sth}
    BY <2>1 DEF TrustedHeads
  <2>3. ASSUME NEW g \in TrustedHeads
        PROVE  Consistent(g, sth)
    <3>1. PICK d \in Clients : g \in accepted[d]
      BY DEF TrustedHeads
    <3>2. g \in accepted'[d] /\ sth \in accepted'[c]
      BY <2>1, <3>1
    <3>3. QED
      BY <3>2 DEF NoSplitView
  <2>4. sth \in Heads
    BY OfferedAreHeads
  <2>5. QED
    BY <2>2, <2>3, <2>4
<1>2. CASE UNCHANGED accepted
  BY <1>2 DEF TrustedHeads
<1>3. QED
  BY <1>1, <1>2 DEF Next, ProofsTo, vars, AppendLeaf, Cosign

\* Under quorum overlap the federation implements one trusted, growing
\* history: clients may learn heads late, in any order and through different
\* witnesses, and still act as one reader who never accepts a fork.
THEOREM FederationIsOneHistory ==
    ASSUME QuorumOverlap
    PROVE  Spec => ImplementsOneHistory
<1>1. Init => OneTrustedHistory!Init
  BY DEF Init, OneTrustedHistory!Init
<1>2. TypeOK /\ NoSplitView' /\ [Next]_vars
          => [OneTrustedHistory!Next]_(UNION {accepted[c] : c \in Clients})
  BY StepOfOneHistory
     DEF TrustedHeads, OneTrustedHistory!Next, OneTrustedHistory!Trust,
         OneTrustedHistory!Heads, OneTrustedHistory!Roots, OneTrustedHistory!Sizes,
         OneTrustedHistory!Consistent, OneTrustedHistory!IsPrefix,
         Heads, Roots, Sizes, Consistent, IsPrefix
<1>3. QED
  BY <1>1, <1>2, TypeCorrect, OverlapPreventsSplitView, PTL
     DEF Spec, ImplementsOneHistory, OneTrustedHistory!Spec
=============================================================================
