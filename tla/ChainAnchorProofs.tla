--------------------------- MODULE ChainAnchorProofs ---------------------------
(***************************************************************************)
(* The ledger for any number of operators, logs, measurements and          *)
(* commitments, any bound on the size of the trees and any false sizes.    *)
(*                                                                         *)
(* The argument: an epoch that is taken stays as it is (EpochsStand), so   *)
(* whatever was said about it stays true.  An answer of no is safe only    *)
(* because the epoch was taken when it was given, which AnswersStand does  *)
(* not say; Answered does.                                                 *)
(***************************************************************************)
EXTENDS ChainAnchor, TreeHeadsProofs

\* Whatever is submitted or checked is a head.
LEMMA OfferedAreHeads ==
    ASSUME TypeOK
    PROVE  OfferedHeads \subseteq Heads
<1>1. ASSUME NEW l \in Logs, NEW k \in 0..Len(leaves[l])
      PROVE  SignableHeads(leaves[l], k) \subseteq Heads
  BY SignableAreHeads DEF TypeOK
<1>2. QED
  BY <1>1 DEF OfferedHeads

\* A root is never None.
LEMMA HeadHasRoot ==
    ASSUME NEW h \in Heads
    PROVE  h.root # None
BY HeadParts, NoneAssumption

LEMMA TypeInit == Init => TypeOK
BY EmptyIsRoot DEF Init, TypeOK

LEMMA TypeStep == TypeOK /\ [Next]_vars => TypeOK'
<1> SUFFICES ASSUME TypeOK, [Next]_vars PROVE TypeOK'
  OBVIOUS
<1>1. ASSUME NEW l \in Logs, NEW m \in Measurements, AppendLeaf(l, m) PROVE TypeOK'
  <2>1. Append(leaves[l], m) \in Roots
    BY <1>1, AppendedTree DEF AppendLeaf, TypeOK
  <2>2. QED
    BY <1>1, <2>1 DEF AppendLeaf, TypeOK
<1>2. ASSUME NEW sth \in OfferedHeads
      PROVE  /\ sth \in Heads
             /\ Commit(sth.tree_size, sth.root) => entries' \in [Sizes -> Roots \cup {None}]
             /\ Told(sth.tree_size, sth.root) \in BOOLEAN
  <2>1. sth \in Heads /\ sth.root \in Roots
    BY OfferedAreHeads, HeadParts
  <2>2. QED
    BY <2>1 DEF Commit, Told, TypeOK
<1>3. ASSUME NEW sth \in OfferedHeads, Submit(sth) PROVE TypeOK'
  BY <1>2, <1>3 DEF Submit, TypeOK
<1>4. ASSUME NEW sth \in OfferedHeads, AnchorSth(sth) PROVE TypeOK'
  BY <1>2, <1>4 DEF AnchorSth, TypeOK
<1>5. ASSUME NEW sth \in OfferedHeads, Check(sth) PROVE TypeOK'
  BY <1>2, <1>5 DEF Check, TypeOK
<1>6. ASSUME NEW commitment \in Commitments, SubmitWitnessSet(commitment) PROVE TypeOK'
  <2>1. (witness_set \in {None, commitment}) \in BOOLEAN
    OBVIOUS
  <2>2. [commitment |-> commitment, ok |-> witness_set \in {None, commitment}]
            \in [commitment : Commitments, ok : BOOLEAN]
    BY <2>1, Zenon
  <2>3. set_acks' \in SUBSET [commitment : Commitments, ok : BOOLEAN]
    BY <1>6, <2>2, Zenon DEF SubmitWitnessSet, TypeOK
  <2>4. witness_set' \in Commitments \cup {None}
    BY <1>6 DEF SubmitWitnessSet, TypeOK
  <2>5. QED
    BY <1>6, <2>3, <2>4 DEF SubmitWitnessSet, TypeOK
<1>7. CASE UNCHANGED vars
  BY <1>7 DEF TypeOK, vars
<1>8. QED
  BY <1>1, <1>3, <1>4, <1>5, <1>6, <1>7 DEF Next

\* What is committed, answered and relied on always has its type.
THEOREM ChainTypesCorrect == Spec => []TypeOK
BY TypeInit, TypeStep, PTL DEF Spec

-----------------------------------------------------------------------------
(* Epochs.                                                                 *)

\* A step commits at most one root, at an epoch that was free.
LEMMA EpochStep ==
    ASSUME TypeOK, [Next]_vars
    PROVE  \/ UNCHANGED entries
           \/ \E n \in Sizes, root \in Roots :
                  /\ entries[n] = None
                  /\ entries' = [entries EXCEPT ![n] = root]
<1>1. ASSUME NEW sth \in OfferedHeads, Commit(sth.tree_size, sth.root)
      PROVE  \/ UNCHANGED entries
             \/ \E n \in Sizes, root \in Roots :
                    entries[n] = None /\ entries' = [entries EXCEPT ![n] = root]
  <2>1. sth.tree_size \in Sizes /\ sth.root \in Roots
    BY OfferedAreHeads, HeadParts
  <2>2. QED
    BY <1>1, <2>1 DEF Commit
<1>2. QED
  BY <1>1 DEF Next, vars, AppendLeaf, Submit, AnchorSth, Check, SubmitWitnessSet

\* The epochs are a write-once table, whoever submits what, how often and in
\* which order (Ledger, MockLedger).
THEOREM EpochsNeverChange == Spec => EpochsAreWriteOnce
<1>1. Init => EpochTable!Init
  BY DEF Init, EpochTable!Init
<1>2. TypeOK /\ [Next]_vars => [EpochTable!Next]_entries
  BY EpochStep DEF EpochTable!Next, EpochTable!Write
<1>3. QED
  BY <1>1, <1>2, ChainTypesCorrect, PTL DEF Spec, EpochsAreWriteOnce, EpochTable!Spec

\* So what stands at an epoch stands.
LEMMA EpochsStand ==
    ASSUME TypeOK, [Next]_vars, NEW n \in Sizes, entries[n] # None
    PROVE  entries'[n] = entries[n]
BY EpochStep DEF TypeOK

-----------------------------------------------------------------------------
(* Answers.                                                                *)

LEMMA ReliedStep == TypeOK /\ ReliedHeadsStand /\ [Next]_vars => ReliedHeadsStand'
<1> SUFFICES ASSUME TypeOK, ReliedHeadsStand, [Next]_vars,
                    NEW h \in relied'
             PROVE  h \in Heads /\ entries'[h.tree_size] = h.root
  <2>1. ASSUME NEW g \in Heads, NEW h \in Heads, g.tree_size = h.tree_size, g.root = h.root
        PROVE  g = h
    BY <2>1, HeadParts
  <2>2. QED
    BY <2>1 DEF ReliedHeadsStand
<1>1. h \in Heads /\ entries[h.tree_size] = h.root
  <2>1. CASE h \in relied
    BY <2>1 DEF TypeOK, ReliedHeadsStand
  <2>2. ASSUME NEW sth \in OfferedHeads, Check(sth), h \notin relied
        PROVE  h \in Heads /\ entries[h.tree_size] = h.root
    BY <2>2, OfferedAreHeads DEF Check, IsAnchored
  <2>3. QED
    BY <2>1, <2>2 DEF Next, vars, AppendLeaf, Submit, AnchorSth, SubmitWitnessSet
<1>2. h.tree_size \in Sizes /\ h.root # None
  BY <1>1, HeadParts, HeadHasRoot
<1>3. QED
  BY <1>1, <1>2, EpochsStand

\* What clients relied on stays the committed head of its epoch.
THEOREM ReliedHeadsAlwaysStand == Spec => []ReliedHeadsStand
<1>1. Init => ReliedHeadsStand
  BY DEF Init, ReliedHeadsStand
<1>2. QED
  BY <1>1, ReliedStep, ChainTypesCorrect, PTL DEF Spec

\* Whoever has an answer has it about something that is committed.
Answered ==
    /\ \A a \in acks : entries[a.sth.tree_size] # None
    /\ set_acks # {} => witness_set # None

AnswersInv == AnswersStand /\ Answered

LEMMA AnswersStep == TypeOK /\ AnswersInv /\ [Next]_vars => AnswersInv'
<1> SUFFICES ASSUME TypeOK, AnswersInv, [Next]_vars PROVE AnswersInv'
  OBVIOUS
<1>1. ASSUME NEW a \in acks
      PROVE  /\ a.ok <=> entries'[a.sth.tree_size] = a.sth.root
             /\ entries'[a.sth.tree_size] # None
  <2>1. a.sth \in Heads
    BY DEF TypeOK
  <2>2. a.sth.tree_size \in Sizes
    BY <2>1, HeadParts
  <2>3. QED
    BY <2>2, EpochsStand DEF AnswersInv, AnswersStand, Answered
<1>2. CASE UNCHANGED <<acks, witness_set, set_acks>>
  BY <1>1, <1>2 DEF AnswersInv, AnswersStand, Answered
<1>3. ASSUME NEW sth \in OfferedHeads, Submit(sth) PROVE AnswersInv'
  <2>1. sth.tree_size \in Sizes /\ sth.root # None
    BY OfferedAreHeads, HeadParts, HeadHasRoot
  <2>2. /\ Told(sth.tree_size, sth.root) <=> entries'[sth.tree_size] = sth.root
        /\ entries'[sth.tree_size] # None
    BY <1>3, <2>1 DEF Submit, Commit, Told, TypeOK
  <2>3. acks' = acks \cup {[sth |-> sth, ok |-> Told(sth.tree_size, sth.root)]}
    BY <1>3 DEF Submit
  <2>4. QED
    BY <1>1, <1>3, <2>2, <2>3 DEF Submit, AnswersInv, AnswersStand, Answered
<1>4. ASSUME NEW commitment \in Commitments, SubmitWitnessSet(commitment) PROVE AnswersInv'
  <2>1. commitment # None
    BY CommitmentsAssumption
  <2>2. \A a \in set_acks : a.ok <=> witness_set' = a.commitment
    BY <1>4 DEF SubmitWitnessSet, AnswersInv, AnswersStand, Answered
  <2>3. /\ witness_set \in {None, commitment} <=> witness_set' = commitment
        /\ witness_set' # None
    BY <1>4, <2>1 DEF SubmitWitnessSet
  <2>4. set_acks' = set_acks \cup {[commitment |-> commitment,
                                   ok |-> witness_set \in {None, commitment}]}
    BY <1>4, Zenon DEF SubmitWitnessSet
  <2>5. \A a \in set_acks' : a.ok <=> witness_set' = a.commitment
    <3> DEFINE new == [commitment |-> commitment, ok |-> witness_set \in {None, commitment}]
    <3>1. new.commitment = commitment
      OBVIOUS
    <3>2. new.ok <=> witness_set \in {None, commitment}
      BY Zenon
    <3>3. set_acks' = set_acks \cup {new}
      BY <2>4
    <3> HIDE DEF new
    <3>4. new.ok <=> witness_set' = new.commitment
      BY <2>3, <3>1, <3>2, Zenon
    <3>5. QED
      BY <2>2, <3>3, <3>4, Zenon
  <2>6. UNCHANGED <<acks, entries>>
    BY <1>4 DEF SubmitWitnessSet
  <2>7. QED
    BY <1>1, <2>3, <2>5, <2>6 DEF AnswersInv, AnswersStand, Answered
<1>5. QED
  BY <1>2, <1>3, <1>4 DEF Next, vars, AppendLeaf, AnchorSth, Check

\* What operators were told stays true, yes and no alike (submit,
\* submit_witness_set).
THEOREM AnswersAlwaysStand == Spec => []AnswersStand
<1>1. Init => AnswersInv
  BY DEF Init, AnswersInv, AnswersStand, Answered
<1>2. AnswersInv => AnswersStand
  BY DEF AnswersInv
<1>3. QED
  BY <1>1, <1>2, AnswersStep, ChainTypesCorrect, PTL DEF Spec

-----------------------------------------------------------------------------
(* One history.  The ledger compares sizes, never trees: what THREAT-MODEL.md *)
(* says of it holds as long as the logs behind it tell one story.             *)

\* Any two logs are at most one behind the other, and so no log forked.
LogsAgree ==
    \A k, l \in Logs : IsPrefix(leaves[k], leaves[l]) \/ IsPrefix(leaves[l], leaves[k])

\* What could be offered once can be offered for ever.
LEMMA OfferedStays ==
    ASSUME TypeOK, [Next]_vars
    PROVE  OfferedHeads \subseteq OfferedHeads'
<1>1. ASSUME NEW l \in Logs, NEW k \in 0..Len(leaves[l])
      PROVE  /\ k \in 0..Len(leaves'[l])
             /\ SignableHeads(leaves'[l], k) = SignableHeads(leaves[l], k)
  <2>1. leaves[l] \in Roots /\ Len(leaves[l]) \in Nat
    BY RootsAreSequences DEF TypeOK, Sizes
  <2>2. CASE leaves'[l] = leaves[l]
    BY <2>2
  <2>3. ASSUME NEW m \in Measurements, AppendLeaf(l, m)
        PROVE  /\ k \in 0..Len(leaves'[l])
               /\ SignableHeads(leaves'[l], k) = SignableHeads(leaves[l], k)
    <3>1. leaves'[l] = Append(leaves[l], m) /\ Len(leaves[l]) < MaxSize
      BY <2>3 DEF AppendLeaf, TypeOK
    <3>2. Len(leaves'[l]) = Len(leaves[l]) + 1
      BY <2>1, <3>1, AppendedTree
    <3>3. QED
      BY <2>1, <3>1, <3>2, SignableStays
  <2>4. ASSUME NEW i \in Logs, NEW m \in Measurements, AppendLeaf(i, m), i # l
        PROVE  leaves'[l] = leaves[l]
    BY <2>4 DEF AppendLeaf, TypeOK
  <2>5. QED
    BY <2>2, <2>3, <2>4 DEF Next, vars, Submit, AnchorSth, Check, SubmitWitnessSet
<1>2. ASSUME NEW h \in OfferedHeads
      PROVE  h \in OfferedHeads'
  <2>1. PICK l \in Logs : \E k \in 0..Len(leaves[l]) : h \in SignableHeads(leaves[l], k)
    BY <1>2 DEF OfferedHeads
  <2>2. \E k \in 0..Len(leaves'[l]) : h \in SignableHeads(leaves'[l], k)
    BY <1>1, <2>1
  <2>3. QED
    BY <2>2 DEF OfferedHeads
<1>3. QED
  BY <1>2

\* Clients rely on heads of the logs as they are or were.
ReliedAreOffered == relied \subseteq OfferedHeads

LEMMA ReliedAreOfferedStep ==
    TypeOK /\ ReliedAreOffered /\ [Next]_vars => ReliedAreOffered'
<1> SUFFICES ASSUME TypeOK, ReliedAreOffered, [Next]_vars PROVE ReliedAreOffered'
  OBVIOUS
<1>1. relied' \subseteq OfferedHeads
  BY DEF ReliedAreOffered, Next, vars, AppendLeaf, Submit, AnchorSth, Check, SubmitWitnessSet
<1>2. QED
  BY <1>1, OfferedStays DEF ReliedAreOffered

LEMMA OfferedOneHistory ==
    ASSUME FalseSizes = {}, TypeOK, LogsAgree,
           NEW g \in OfferedHeads, NEW h \in OfferedHeads
    PROVE  Consistent(g, h)
<1>1. ASSUME NEW f \in OfferedHeads
      PROVE  \E l \in Logs : /\ f.root \in Roots /\ f.tree_size \in Nat
                             /\ Len(f.root) = f.tree_size
                             /\ IsPrefix(f.root, leaves[l])
  <2>1. PICK l \in Logs : \E k \in 0..Len(leaves[l]) : f \in SignableHeads(leaves[l], k)
    BY DEF OfferedHeads
  <2>2. PICK k \in 0..Len(leaves[l]) : f \in SignableHeads(leaves[l], k)
    BY <2>1
  <2>3. leaves[l] \in Roots /\ leaves[l] \in Seq(Measurements) /\ Len(leaves[l]) \in Nat
    BY RootsAreSequences DEF TypeOK, Sizes
  <2>4. f.root = SubSeq(leaves[l], 1, k) /\ f.tree_size = k /\ IsPrefix(f.root, leaves[l])
    BY <2>2, <2>3, SignableIsBeginning DEF SignableHeads
  <2>5. f.root \in Roots
    BY <2>3, <2>4, SignableAreHeads
  <2>6. Len(SubSeq(leaves[l], 1, k)) = k
    BY <2>3, SubSeqProperties
  <2>7. QED
    BY <2>4, <2>5, <2>6
<1>2. PICK k \in Logs : /\ g.root \in Roots /\ g.tree_size \in Nat
                        /\ Len(g.root) = g.tree_size /\ IsPrefix(g.root, leaves[k])
  BY <1>1
<1>3. PICK l \in Logs : /\ h.root \in Roots /\ h.tree_size \in Nat
                        /\ Len(h.root) = h.tree_size /\ IsPrefix(h.root, leaves[l])
  BY <1>1
<1>4. leaves[k] \in Roots /\ leaves[l] \in Roots
  BY DEF TypeOK
<1>5. PICK i \in Logs : /\ leaves[i] \in Roots
                        /\ IsPrefix(g.root, leaves[i]) /\ IsPrefix(h.root, leaves[i])
  BY <1>2, <1>3, <1>4, PrefixTransitive DEF LogsAgree
<1>6. QED
  BY <1>2, <1>3, <1>5, PrefixesOfOne DEF Consistent

\* THREAT-MODEL.md's one history, with the assumptions it needs: sizes are
\* true and no two logs that share the ledger ever told different stories.
\* (Without the second, the run chain_forks breaks it.)
THEOREM AgreeingLogsShareOneHistory ==
    ASSUME FalseSizes = {}
    PROVE  Spec => [](LogsAgree => ReliedOneHistory)
<1>1. Init => ReliedAreOffered
  BY DEF Init, ReliedAreOffered
<1>2. TypeOK /\ ReliedAreOffered /\ LogsAgree => ReliedOneHistory
  BY OfferedOneHistory DEF ReliedAreOffered, ReliedOneHistory
<1>3. QED
  BY <1>1, <1>2, ReliedAreOfferedStep, ChainTypesCorrect, PTL DEF Spec
=============================================================================
