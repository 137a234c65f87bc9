---------------------------- MODULE ReceiptsProofs ----------------------------
(***************************************************************************)
(* Receipts for any operators, logs, sessions, nonces and builds, any      *)
(* bounds and any false sizes.                                             *)
(*                                                                         *)
(* The argument: what a session checked stays true, because logs, quotes   *)
(* and anchored heads only ever grow.  So an accepted receipt still passes *)
(* every check (Verified), an issued one still has every part verify_receipt *)
(* asks for but the anchoring (Composed), and the rest follows from those  *)
(* two in the state.                                                       *)
(***************************************************************************)
EXTENDS Receipts, TreeHeadsProofs

\* The actions on leaves, without the bound on all logs together.
LEMMA AppendedTo ==
    ASSUME NEW l \in Logs, NEW m \in Measurements, AppendLeaf(l, m)
    PROVE  /\ Len(leaves[l]) < MaxSize
           /\ leaves' = [leaves EXCEPT ![l] = Append(@, m)]
           /\ UNCHANGED <<anchored, quotes, issued, accepted>>
BY Zenon DEF AppendLeaf

\* What an action leaves alone.
LEMMA WhatGrows ==
    ASSUME [Next]_vars
    PROVE  /\ anchored \subseteq anchored'
           /\ quotes \subseteq quotes'
           /\ issued \subseteq issued'
           /\ \/ UNCHANGED leaves
              \/ /\ UNCHANGED <<anchored, quotes, issued, accepted>>
                 /\ \E l \in Logs, m \in Measurements :
                        /\ Len(leaves[l]) < MaxSize
                        /\ leaves' = [leaves EXCEPT ![l] = Append(@, m)]
<1>1. ASSUME NEW l \in Operated, NEW nonce \in Nonces, NEW kem \in KemPublicKeys,
             NEW m \in Measurements, KeyserverIssue(l, nonce, kem, m)
      PROVE  /\ quotes \subseteq quotes' /\ issued \subseteq issued'
             /\ UNCHANGED <<leaves, anchored, accepted>>
  BY <1>1 DEF KeyserverIssue
<1>2. ASSUME NEW s \in Sessions, NEW quote \in AnyQuote, NEW nonce \in Nonces,
             NEW kem \in KemPublicKeys, Accept(s, quote, nonce, kem)
      PROVE  UNCHANGED <<leaves, anchored, quotes, issued>>
  BY <1>2 DEF Accept
<1>3. QED
  BY <1>1, <1>2, AppendedTo DEF Next, vars, Anchor, Quote

-----------------------------------------------------------------------------
(* Heads.                                                                  *)

LEMMA HeadsAreHeads ==
    ASSUME leaves \in [Logs -> Roots], NEW logs \in SUBSET Logs
    PROVE  HeadsOf(logs) \subseteq Heads
<1>1. ASSUME NEW l \in logs, NEW k \in 0..Len(leaves[l])
      PROVE  SignableHeads(leaves[l], k) \subseteq Heads
  BY SignableAreHeads
<1>2. QED
  BY <1>1 DEF HeadsOf

\* A log signs for beginnings of itself.
LEMMA HeadBeginsLog ==
    ASSUME leaves \in [Logs -> Roots], NEW logs \in SUBSET Logs, NEW h \in HeadsOf(logs)
    PROVE  \E l \in logs : IsPrefix(h.root, leaves[l])
<1>1. PICK l \in logs : \E k \in 0..Len(leaves[l]) : h \in SignableHeads(leaves[l], k)
  BY DEF HeadsOf
<1>2. leaves[l] \in Roots
  OBVIOUS
<1>3. QED
  BY <1>1, <1>2, SignableIsBeginning

\* A signature stays valid, whatever is appended.
LEMMA SignedStays ==
    ASSUME leaves \in [Logs -> Roots], [Next]_vars, NEW logs \in SUBSET Logs
    PROVE  HeadsOf(logs) \subseteq HeadsOf(logs)'
<1>1. ASSUME NEW l \in logs, NEW k \in 0..Len(leaves[l])
      PROVE  /\ k \in 0..Len(leaves'[l])
             /\ SignableHeads(leaves'[l], k) = SignableHeads(leaves[l], k)
  <2>1. leaves[l] \in Roots /\ Len(leaves[l]) \in Nat
    BY RootsAreSequences DEF Sizes
  <2>2. CASE leaves'[l] = leaves[l]
    BY <2>2
  <2>3. ASSUME NEW m \in Measurements, Len(leaves[l]) < MaxSize,
               leaves'[l] = Append(leaves[l], m)
        PROVE  /\ k \in 0..Len(leaves'[l])
               /\ SignableHeads(leaves'[l], k) = SignableHeads(leaves[l], k)
    <3>1. Len(leaves'[l]) = Len(leaves[l]) + 1
      BY <2>1, <2>3, AppendedTree
    <3>2. QED
      BY <2>1, <2>3, <3>1, SignableStays
  <2>4. \/ leaves'[l] = leaves[l]
        \/ \E m \in Measurements : Len(leaves[l]) < MaxSize /\ leaves'[l] = Append(leaves[l], m)
    BY WhatGrows
  <2>5. QED
    BY <2>2, <2>3, <2>4
<1>2. ASSUME NEW h \in HeadsOf(logs)
      PROVE  h \in HeadsOf(logs)'
  <2>1. PICK l \in logs : \E k \in 0..Len(leaves[l]) : h \in SignableHeads(leaves[l], k)
    BY DEF HeadsOf
  <2>2. \E k \in 0..Len(leaves'[l]) : h \in SignableHeads(leaves'[l], k)
    BY <1>1, <2>1
  <2>3. QED
    BY <2>2 DEF HeadsOf
<1>3. QED
  BY <1>2

-----------------------------------------------------------------------------
(* Types.                                                                  *)

\* Also that the bound on what the keyserver issues bounds the ciphertexts.
TypeInv ==
    /\ TypeOK
    /\ accepted \in [Sessions -> Receipt \cup {None}]
    /\ IsFiniteSet(issued) /\ Cardinality(issued) <= MaxIssued

LEMMA QuoteIsQuote ==
    ASSUME NEW nonce \in Nonces, NEW kem \in KemPublicKeys, NEW m \in Measurements
    PROVE  QuoteOf(nonce, kem, m) \in AnyQuote
BY DEF AnyQuote

LEMMA QuoteParts ==
    ASSUME NEW quote \in AnyQuote
    PROVE  quote.measurement \in Measurements
BY DEF AnyQuote, QuoteOf

\* An inclusion proof of a tree in Roots.
LEMMA InclusionParts ==
    ASSUME NEW t \in Roots, NEW i \in 0..(Len(t) - 1)
    PROVE  /\ InclusionProof(t, i) \in
                  [leaf_index : Sizes, tree_size : Sizes, rebuilds : Roots]
           /\ InclusionProof(t, i).tree_size = Len(t)
           /\ InclusionProof(t, i).rebuilds = t
           /\ InclusionProof(t, i).leaf_index = i
<1>1. Len(t) \in Sizes /\ Len(t) \in 0..MaxSize
  BY RootsAreSequences DEF Sizes
<1>2. i \in Sizes
  BY <1>1, MaxSizeAssumption DEF Sizes
<1>3. QED
  BY <1>1, <1>2 DEF InclusionProof

\* What the keyserver composes: every part verify_receipt asks for but the
\* anchoring, and the session key that goes with it.
Composed(i) ==
    LET r == i.receipt IN
    /\ r \in Receipt
    /\ r.quote \in quotes
    /\ r.quote.report_data = ReportData(r.nonce, r.kem_pubkey, r.quote.measurement)
    /\ r.kem_ciphertext.to = r.kem_pubkey
    /\ r.sth \in HeadsOf(Operated)
    /\ Included(r)
    /\ i.session_key = SessionKey(<<r.kem_ciphertext>>, r.nonce,
                                  r.kem_ciphertext, r.quote.measurement)

\* keyserver_issue composes one receipt more.
LEMMA IssueComposes ==
    ASSUME TypeInv, NEW l \in Operated, NEW nonce \in Nonces,
           NEW kem \in KemPublicKeys, NEW m \in Measurements,
           KeyserverIssue(l, nonce, kem, m)
    PROVE  \E i : /\ issued' = issued \cup {i}
                  /\ quotes' = quotes \cup {i.receipt.quote}
                  /\ i.receipt.quote \in AnyQuote
                  /\ Composed(i)'
<1> DEFINE n == Cardinality(issued) + 1
           ct == Encapsulation(kem, n)
           quote == QuoteOf(nonce, kem, m)
           tree == leaves[l]
           head == HeadOf(tree, Len(tree))
<1>1. /\ kem \in Sessions /\ n \in 0..MaxIssued
      /\ quotes' = quotes \cup {quote}
      /\ UNCHANGED <<leaves, anchored, accepted>>
  <2>1. Cardinality(issued) \in Nat
    BY FS_CardinalityType DEF TypeInv
  <2>2. QED
    BY <2>1, ReceiptsAssumption DEF KeyserverIssue, KemPublicKeys
<1>2. tree \in Roots /\ tree \in Seq(Measurements) /\ Len(tree) \in Sizes /\ Len(tree) \in Nat
  BY ReceiptsAssumption, RootsAreSequences DEF TypeInv, TypeOK, Sizes
<1>3. PICK first \in {i \in 1..Len(tree) : tree[i] = m} :
          issued' = issued \cup
              {[receipt |-> [quote |-> quote, nonce |-> nonce,
                             kem_pubkey |-> kem, kem_ciphertext |-> ct,
                             inclusion |-> InclusionProof(tree, first - 1), sth |-> head],
                session_key |-> SessionKey(<<ct>>, nonce, ct, m)]}
  BY DEF KeyserverIssue
<1> DEFINE inclusion == InclusionProof(tree, first - 1)
           r == [quote |-> quote, nonce |-> nonce, kem_pubkey |-> kem,
                 kem_ciphertext |-> ct, inclusion |-> inclusion, sth |-> head]
<1>4. PICK i : /\ issued' = issued \cup {i}
               /\ i.receipt = r /\ i.session_key = SessionKey(<<ct>>, nonce, ct, m)
  <2> DEFINE new == [receipt |-> r, session_key |-> SessionKey(<<ct>>, nonce, ct, m)]
  <2>1. issued' = issued \cup {new}
    BY <1>3
  <2>2. new.receipt = r /\ new.session_key = SessionKey(<<ct>>, nonce, ct, m)
    BY Zenon
  <2> HIDE DEF new
  <2>3. QED
    BY <2>1, <2>2, Zenon
<1>5. /\ quote \in AnyQuote /\ quote.measurement = m
      /\ quote.report_data = ReportData(nonce, kem, m)
  BY <1>1, QuoteIsQuote DEF QuoteOf
<1>6. ct \in [to : Sessions, n : 0..MaxIssued] /\ ct.to = kem
  BY <1>1 DEF Encapsulation
<1>7. /\ head \in SignableHeads(tree, Len(tree)) /\ head.root = tree
  <2>1. SubSeq(tree, 1, Len(tree)) = tree
    BY <1>2
  <2>2. head = [tree_size |-> Len(tree), root |-> SubSeq(tree, 1, Len(tree))]
    BY Zenon DEF HeadOf
  <2>3. head.root = tree
    BY <2>1, <2>2
  <2>4. head \in SignableHeads(tree, Len(tree))
    BY <2>2, Zenon DEF SignableHeads
  <2>5. QED
    BY <2>3, <2>4
<1>8. head \in Heads /\ head \in HeadsOf(Operated)
  <2>1. Operated \in SUBSET Logs /\ leaves \in [Logs -> Roots]
    BY ReceiptsAssumption DEF TypeInv, TypeOK
  <2>2. Len(tree) \in 0..Len(tree)
    BY <1>2
  <2>3. head \in HeadsOf(Operated)
    <3> HIDE DEF head
    <3>1. \E k \in 0..Len(leaves[l]) : head \in SignableHeads(leaves[l], k)
      BY <1>7, <2>2, Zenon
    <3>2. head \in UNION {SignableHeads(leaves[l], k) : k \in 0..Len(leaves[l])}
      BY <3>1, Zenon
    <3>3. QED
      BY <3>2, Zenon DEF HeadsOf
  <2>4. QED
    BY <2>1, <2>3, HeadsAreHeads
<1>9. first - 1 \in 0..(Len(tree) - 1) /\ tree[first] = m
  BY <1>2
<1>10. /\ inclusion \in [leaf_index : Sizes, tree_size : Sizes, rebuilds : Roots]
      /\ inclusion.tree_size = Len(tree) /\ inclusion.rebuilds = tree
      /\ inclusion.leaf_index = first - 1
  BY <1>2, <1>9, InclusionParts
<1> HIDE DEF quote, ct, head, inclusion
<1>11. VerifyInclusion(m, inclusion, tree)
  BY <1>2, <1>9, <1>10 DEF VerifyInclusion
<1>12. r \in Receipt
  BY <1>1, <1>5, <1>6, <1>8, <1>10 DEF Receipt
<1>13. Included(r)
  BY <1>5, <1>7, <1>11 DEF Included
<1>14. HeadsOf(Operated)' = HeadsOf(Operated)
  BY <1>1 DEF HeadsOf
<1>15. Composed(i)'
  <2>1. /\ i.receipt.quote = quote /\ i.receipt.nonce = nonce
        /\ i.receipt.kem_pubkey = kem /\ i.receipt.kem_ciphertext = ct
        /\ i.receipt.sth = head /\ i.receipt \in Receipt /\ Included(i.receipt)
    BY <1>4, <1>12, <1>13
  <2>2. i.receipt.quote \in quotes'
    BY <1>1, <2>1
  <2>3. i.session_key = SessionKey(<<i.receipt.kem_ciphertext>>, i.receipt.nonce,
                            i.receipt.kem_ciphertext, i.receipt.quote.measurement)
    BY <1>4, <1>5, <2>1
  <2>4. i.receipt.sth \in HeadsOf(Operated)'
    BY <1>8, <1>14, <2>1
  <2>5. QED
    BY <1>5, <1>6, <2>1, <2>2, <2>3, <2>4, Zenon DEF Composed
<1>16. QED
  BY <1>1, <1>4, <1>5, <1>15

\* What a session accepts, of the parts anybody can show it.
LEMMA AcceptVerifies ==
    ASSUME TypeInv, NEW s \in Sessions, NEW quote \in AnyQuote, NEW nonce \in Nonces,
           NEW kem \in KemPublicKeys, Accept(s, quote, nonce, kem)
    PROVE  \E r \in Receipt : /\ VerifyReceipt(s, r)
                              /\ r.inclusion.tree_size = Len(r.inclusion.rebuilds)
                              /\ accepted' = [accepted EXCEPT ![s] = r]
                              /\ UNCHANGED <<leaves, anchored, quotes, issued>>
<1>1. PICK ct \in Ciphertexts \cup {Malformed}, inclusion \in InclusionProofs,
           sth \in HeadsOf(Logs) :
          LET r == [quote |-> quote, nonce |-> nonce, kem_pubkey |-> kem,
                    kem_ciphertext |-> ct, inclusion |-> inclusion, sth |-> sth]
          IN  VerifyReceipt(s, r) /\ accepted' = [accepted EXCEPT ![s] = r]
  BY DEF Accept
<1> DEFINE r == [quote |-> quote, nonce |-> nonce, kem_pubkey |-> kem,
                 kem_ciphertext |-> ct, inclusion |-> inclusion, sth |-> sth]
<1>2. kem \in Sessions /\ ct \in Ciphertexts
  BY <1>1 DEF VerifyReceipt, WellFormed, KemPublicKeys
<1>3. ct \in [to : Sessions, n : 0..MaxIssued]
  <2>1. Cardinality(issued) \in Nat /\ Cardinality(issued) <= MaxIssued
    BY FS_CardinalityType DEF TypeInv
  <2>2. QED
    BY <1>2, <2>1, ReceiptsAssumption DEF Ciphertexts, Encapsulation
<1>4. sth \in Heads
  BY HeadsAreHeads DEF TypeInv, TypeOK
<1>5. /\ inclusion \in [leaf_index : Sizes, tree_size : Sizes, rebuilds : Roots]
      /\ inclusion.tree_size = Len(inclusion.rebuilds)
  <2>1. PICK h \in HeadsOf(Logs) : \E i \in 0..(Len(h.root) - 1) :
            inclusion = InclusionProof(h.root, i)
    BY DEF InclusionProofs
  <2>2. h.root \in Roots
    BY HeadsAreHeads, HeadParts DEF TypeInv, TypeOK
  <2>3. QED
    BY <2>1, <2>2, InclusionParts
<1>6. r \in Receipt
  BY <1>2, <1>3, <1>4, <1>5 DEF Receipt
<1>7. QED
  BY <1>1, <1>5, <1>6 DEF Accept

LEMMA TypeInit == Init => TypeInv
BY EmptyIsRoot, FS_EmptySet, ReceiptsAssumption DEF Init, TypeInv, TypeOK

LEMMA TypeStep == TypeInv /\ [Next]_vars => TypeInv'
<1> SUFFICES ASSUME TypeInv, [Next]_vars PROVE TypeInv'
  OBVIOUS
<1>1. ASSUME NEW l \in Logs, NEW m \in Measurements, AppendLeaf(l, m) PROVE TypeInv'
  <2>1. Append(leaves[l], m) \in Roots
    BY <1>1, AppendedTo, AppendedTree DEF TypeInv, TypeOK
  <2>2. QED
    BY <1>1, <2>1, AppendedTo DEF TypeInv, TypeOK
<1>2. ASSUME NEW sth \in HeadsOf(Logs), Anchor(sth) PROVE TypeInv'
  BY <1>2, HeadsAreHeads DEF Anchor, TypeInv, TypeOK
<1>3. ASSUME NEW nonce \in Nonces, NEW kem \in KemPublicKeys, NEW m \in Measurements,
             Quote(nonce, kem, m)
      PROVE  TypeInv'
  BY <1>3, QuoteIsQuote DEF Quote, TypeInv, TypeOK
<1>4. ASSUME NEW l \in Operated, NEW nonce \in Nonces, NEW kem \in KemPublicKeys,
             NEW m \in Measurements, KeyserverIssue(l, nonce, kem, m)
      PROVE  TypeInv'
  <2>1. PICK i : /\ issued' = issued \cup {i}
                 /\ quotes' = quotes \cup {i.receipt.quote}
                 /\ i.receipt.quote \in AnyQuote
                 /\ i.receipt \in Receipt
    BY <1>4, IssueComposes DEF Composed
  <2>2. IsFiniteSet(issued') /\ Cardinality(issued') <= MaxIssued
    <3>1. Cardinality(issued) \in Nat /\ Cardinality(issued) < MaxIssued
      BY <1>4, FS_CardinalityType DEF TypeInv, KeyserverIssue
    <3>2. /\ IsFiniteSet(issued')
          /\ Cardinality(issued') = Cardinality(issued)
             \/ Cardinality(issued') = Cardinality(issued) + 1
      BY <2>1, FS_AddElement DEF TypeInv
    <3>3. QED
      BY <3>1, <3>2, ReceiptsAssumption
  <2>3. UNCHANGED <<leaves, anchored, accepted>>
    BY <1>4 DEF KeyserverIssue
  <2>4. QED
    BY <2>1, <2>2, <2>3 DEF TypeInv, TypeOK
<1>5. ASSUME NEW s \in Sessions, NEW quote \in AnyQuote, NEW nonce \in Nonces,
             NEW kem \in KemPublicKeys, Accept(s, quote, nonce, kem)
      PROVE  TypeInv'
  BY <1>5, AcceptVerifies DEF TypeInv, TypeOK
<1>6. CASE UNCHANGED vars
  BY <1>6 DEF TypeInv, TypeOK, vars
<1>7. QED
  BY <1>1, <1>2, <1>3, <1>4, <1>5, <1>6 DEF Next

\* The types, with the bound on what is issued.
THEOREM TypesAlways == Spec => []TypeInv
BY TypeInit, TypeStep, PTL DEF Spec

\* An accepted receipt is well formed to the last part (verify_receipt).
THEOREM ReceiptTypesCorrect == Spec => []TypeOK
<1>1. TypeInv => TypeOK
  BY DEF TypeInv
<1>2. QED
  BY <1>1, TypesAlways, PTL

-----------------------------------------------------------------------------
(* What was checked stays checked.                                         *)

\* An accepted receipt still passes verify_receipt, and its audit path is of
\* a tree of the size it claims.
Verified ==
    \A s \in Accepting :
        /\ VerifyReceipt(s, accepted[s])
        /\ accepted[s].inclusion.tree_size = Len(accepted[s].inclusion.rebuilds)

\* The heads the anchor trusts form one history.
AnchoredAgree == \A g, h \in anchored : Consistent(g, h)

ReceiptsInv ==
    /\ TypeInv
    /\ Verified
    /\ \A i \in issued : Composed(i)
    /\ AnchoredAgree

\* A receipt that verifies goes on to verify.
LEMMA VerifiedStays ==
    ASSUME TypeInv, [Next]_vars, NEW s \in Sessions, NEW r, VerifyReceipt(s, r)
    PROVE  VerifyReceipt(s, r)'
<1>1. quotes \subseteq quotes' /\ anchored \subseteq anchored'
  BY WhatGrows
<1>2. HeadsOf(Operated) \subseteq HeadsOf(Operated)'
  BY SignedStays, ReceiptsAssumption DEF TypeInv, TypeOK
<1>3. QED
  BY <1>1, <1>2, Zenon
     DEF VerifyReceipt, VerifyQuote, Binds, WellFormed, SthSigned, Included, IsAnchored

LEMMA ComposedStays ==
    ASSUME TypeInv, [Next]_vars, NEW i, Composed(i)
    PROVE  Composed(i)'
<1>1. quotes \subseteq quotes'
  BY WhatGrows
<1>2. HeadsOf(Operated) \subseteq HeadsOf(Operated)'
  BY SignedStays, ReceiptsAssumption DEF TypeInv, TypeOK
<1>3. QED
  BY <1>1, <1>2, Zenon DEF Composed

LEMMA VerifiedStep ==
    ASSUME TypeInv, Verified, [Next]_vars
    PROVE  Verified'
<1>1. ASSUME NEW s \in Accepting, accepted'[s] = accepted[s]
      PROVE  /\ VerifyReceipt(s, accepted[s])'
             /\ accepted'[s].inclusion.tree_size = Len(accepted'[s].inclusion.rebuilds)
  <2>1. PICK r : r = accepted[s]
    OBVIOUS
  <2>2. VerifyReceipt(s, r) /\ r.inclusion.tree_size = Len(r.inclusion.rebuilds)
    BY <2>1 DEF Verified
  <2>3. VerifyReceipt(s, r)'
    BY <2>2, VerifiedStays DEF Accepting
  <2>4. QED
    BY <1>1, <2>1, <2>2, <2>3, Zenon
       DEF VerifyReceipt, VerifyQuote, Binds, WellFormed, SthSigned, Included, IsAnchored
<1>2. CASE UNCHANGED accepted
  BY <1>1, <1>2 DEF Verified, Accepting
<1>3. ASSUME NEW s \in Sessions, NEW quote \in AnyQuote, NEW nonce \in Nonces,
             NEW kem \in KemPublicKeys, Accept(s, quote, nonce, kem)
      PROVE  Verified'
  <2>1. PICK r \in Receipt : /\ VerifyReceipt(s, r)
                             /\ r.inclusion.tree_size = Len(r.inclusion.rebuilds)
                             /\ accepted' = [accepted EXCEPT ![s] = r]
    BY <1>3, AcceptVerifies
  <2>2. VerifyReceipt(s, r)'
    BY <2>1, VerifiedStays
  <2>3. ASSUME NEW t \in Accepting'
        PROVE  /\ VerifyReceipt(t, accepted[t])'
               /\ accepted'[t].inclusion.tree_size = Len(accepted'[t].inclusion.rebuilds)
    <3>1. CASE t = s
      BY <2>1, <2>2, <3>1 DEF TypeInv
    <3>2. CASE t # s
      <4>1. t \in Accepting /\ accepted'[t] = accepted[t]
        BY <2>1, <2>3, <3>2 DEF TypeInv, Accepting
      <4>2. QED
        BY <1>1, <4>1
    <3>3. QED
      BY <3>1, <3>2
  <2>4. QED
    BY <2>3 DEF Verified
<1>4. ASSUME NEW l \in Operated, NEW nonce \in Nonces, NEW kem \in KemPublicKeys,
             NEW m \in Measurements, KeyserverIssue(l, nonce, kem, m)
      PROVE  UNCHANGED accepted
  BY <1>4 DEF KeyserverIssue
<1>5. QED
  BY <1>2, <1>3, <1>4, AppendedTo DEF Next, vars, Anchor, Quote

LEMMA IssuedStep ==
    ASSUME TypeInv, \A i \in issued : Composed(i), [Next]_vars
    PROVE  \A i \in issued' : Composed(i)'
<1>1. \A i \in issued : Composed(i)'
  BY ComposedStays
<1>2. ASSUME NEW l \in Operated, NEW nonce \in Nonces, NEW kem \in KemPublicKeys,
             NEW m \in Measurements, KeyserverIssue(l, nonce, kem, m)
      PROVE  \A i \in issued' : Composed(i)'
  BY <1>1, <1>2, IssueComposes
<1>3. ASSUME NEW s \in Sessions, NEW quote \in AnyQuote, NEW nonce \in Nonces,
             NEW kem \in KemPublicKeys, Accept(s, quote, nonce, kem)
      PROVE  UNCHANGED issued
  BY <1>3 DEF Accept
<1>4. QED
  BY <1>1, <1>2, <1>3, AppendedTo DEF Next, vars, Anchor, Quote

LEMMA AnchoredStep ==
    ASSUME TypeInv, AnchoredAgree, [Next]_vars
    PROVE  AnchoredAgree'
<1>1. ASSUME NEW sth \in HeadsOf(Logs), Anchor(sth) PROVE AnchoredAgree'
  <2>1. Consistent(sth, sth)
    BY HeadsAreHeads, HeadParts DEF TypeInv, TypeOK, Consistent
  <2>2. QED
    BY <1>1, <2>1, ConsistentIsSymmetric DEF Anchor, AnchoredAgree
<1>2. ASSUME NEW l \in Operated, NEW nonce \in Nonces, NEW kem \in KemPublicKeys,
             NEW m \in Measurements, KeyserverIssue(l, nonce, kem, m)
      PROVE  UNCHANGED anchored
  BY <1>2 DEF KeyserverIssue
<1>3. ASSUME NEW s \in Sessions, NEW quote \in AnyQuote, NEW nonce \in Nonces,
             NEW kem \in KemPublicKeys, Accept(s, quote, nonce, kem)
      PROVE  UNCHANGED anchored
  BY <1>3 DEF Accept
<1>4. QED
  BY <1>1, <1>2, <1>3, AppendedTo DEF Next, vars, Quote, AnchoredAgree

\* Whatever was checked, composed or anchored once still is as it was then
\* (verify_receipt, keyserver_issue).
THEOREM ReceiptsAlways == Spec => []ReceiptsInv
<1>1. Init => ReceiptsInv
  BY TypeInit DEF Init, ReceiptsInv, Verified, Accepting, AnchoredAgree
<1>2. ReceiptsInv /\ [Next]_vars => ReceiptsInv'
  <2> SUFFICES ASSUME ReceiptsInv, [Next]_vars PROVE ReceiptsInv'
    OBVIOUS
  <2>1. TypeInv' /\ Verified' /\ AnchoredAgree'
    BY TypeStep, VerifiedStep, AnchoredStep DEF ReceiptsInv
  <2>2. \A i \in issued' : Composed(i)'
    BY IssuedStep DEF ReceiptsInv
  <2>3. QED
    BY <2>1, <2>2 DEF ReceiptsInv
<1>3. QED
  BY <1>1, <1>2, PTL DEF Spec

-----------------------------------------------------------------------------
(* What follows from that.                                                 *)

\* The parts of an accepted receipt.
LEMMA AcceptedParts ==
    ASSUME ReceiptsInv, NEW s \in Accepting
    PROVE  /\ s \in Sessions /\ accepted[s] \in Receipt
           /\ accepted[s].sth \in Heads /\ accepted[s].sth \in HeadsOf(Operated)
           /\ accepted[s].sth \in anchored
           /\ accepted[s].sth.root \in Roots
           /\ InLog(accepted[s].quote.measurement, accepted[s].sth.root)
<1> DEFINE r == accepted[s]
           i == r.inclusion.leaf_index
<1>1. s \in Sessions /\ r \in Receipt
  BY DEF Accepting, ReceiptsInv, TypeInv
<1>2. r.sth \in Heads /\ r.inclusion \in
          [leaf_index : Sizes, tree_size : Sizes, rebuilds : Roots]
  BY <1>1 DEF Receipt
<1>3. r.sth.root \in Roots
  BY <1>2, HeadParts
<1>4. VerifyReceipt(s, r) /\ r.inclusion.tree_size = Len(r.inclusion.rebuilds)
  BY DEF ReceiptsInv, Verified
<1>5. /\ i < Len(r.sth.root)
      /\ r.sth.root[i + 1] = r.quote.measurement
  BY <1>4 DEF VerifyReceipt, Included, VerifyInclusion
<1>6. i + 1 \in DOMAIN r.sth.root
  <2>1. i \in Nat
    BY <1>2, MaxSizeAssumption DEF Sizes
  <2>2. r.sth.root \in Seq(Measurements)
    BY <1>3, RootsAreSequences
  <2> HIDE DEF r, i
  <2>3. QED
    BY <1>5, <2>1, <2>2
<1>7. InLog(r.quote.measurement, r.sth.root)
  BY <1>5, <1>6 DEF InLog
<1>8. QED
  BY <1>1, <1>2, <1>3, <1>4, <1>7 DEF VerifyReceipt, SthSigned, IsAnchored

\* What a tree lists, its extensions list.
LEMMA ListedStays ==
    ASSUME NEW r \in Roots, NEW t \in Roots, IsPrefix(r, t), NEW m, InLog(m, r)
    PROVE  InLog(m, t)
BY PrefixLists DEF InLog

\* Any two sessions are on one public record, which lists both their builds
\* (the anchor check of verify_receipt with its inclusion check).
THEOREM SessionsAlwaysShareOneRecord == Spec => []SessionsShareOneRecord
<1>1. ASSUME ReceiptsInv, NEW s \in Accepting, NEW t \in Accepting
      PROVE  /\ Consistent(accepted[s].sth, accepted[t].sth)
             /\ accepted[s].sth.tree_size <= accepted[t].sth.tree_size =>
                    /\ InLog(accepted[s].quote.measurement, accepted[t].sth.root)
                    /\ InLog(accepted[t].quote.measurement, accepted[t].sth.root)
  <2>1. Consistent(accepted[s].sth, accepted[t].sth)
    BY <1>1, AcceptedParts DEF ReceiptsInv, AnchoredAgree
  <2>2. ASSUME accepted[s].sth.tree_size <= accepted[t].sth.tree_size
        PROVE  InLog(accepted[s].quote.measurement, accepted[t].sth.root)
    <3>1. IsPrefix(accepted[s].sth.root, accepted[t].sth.root)
      BY <2>1, <2>2 DEF Consistent
    <3>2. QED
      BY <1>1, <3>1, AcceptedParts, ListedStays
  <2>3. QED
    BY <1>1, <2>1, <2>2, AcceptedParts
<1>2. ReceiptsInv => SessionsShareOneRecord
  BY <1>1 DEF SessionsShareOneRecord
<1>3. QED
  BY <1>2, ReceiptsAlways, PTL

\* The operator cannot disown an accepted build (the signature check of
\* verify_receipt over an append-only log).
THEOREM OperatorAlwaysAccountable == Spec => []OperatorIsAccountable
<1>1. ASSUME ReceiptsInv, NEW s \in Accepting
      PROVE  \E l \in Operated : /\ IsPrefix(accepted[s].sth.root, leaves[l])
                                 /\ InLog(accepted[s].quote.measurement, leaves[l])
  <2>1. leaves \in [Logs -> Roots] /\ Operated \in SUBSET Logs
    BY <1>1, ReceiptsAssumption DEF ReceiptsInv, TypeInv, TypeOK
  <2>2. accepted[s].sth \in HeadsOf(Operated)
    BY <1>1, AcceptedParts
  <2>3. PICK l \in Operated : IsPrefix(accepted[s].sth.root, leaves[l])
    BY <2>1, <2>2, HeadBeginsLog
  <2>4. leaves[l] \in Roots
    BY <2>1
  <2>5. InLog(accepted[s].quote.measurement, leaves[l])
    BY <1>1, <2>3, <2>4, AcceptedParts, ListedStays
  <2>6. QED
    BY <2>3, <2>5
<1>2. ReceiptsInv => OperatorIsAccountable
  BY <1>1 DEF OperatorIsAccountable
<1>3. QED
  BY <1>2, ReceiptsAlways, PTL

\* No quote serves two sessions, if no two sessions draw the same nonce (the
\* binding check of verify_receipt).
THEOREM QuotesNeverReused ==
    ASSUME \A s, t \in Sessions : NonceOf[s] = NonceOf[t] => s = t
    PROVE  Spec => []QuotesAreNotReused
<1>1. ASSUME ReceiptsInv, NEW s \in Accepting
      PROVE  /\ s \in Sessions
             /\ accepted[s].quote \in quotes
             /\ accepted[s].quote.report_data =
                    <<NonceOf[s], accepted[s].kem_pubkey, accepted[s].quote.measurement>>
  BY <1>1, AcceptedParts
     DEF ReceiptsInv, Verified, VerifyReceipt, VerifyQuote, Binds, ReportData
<1>2. ASSUME ReceiptsInv, NEW s \in Accepting, NEW t \in Accepting,
             accepted[s].quote = accepted[t].quote
      PROVE  s = t
  BY <1>1, <1>2
<1>3. ReceiptsInv => QuotesAreNotReused
  BY <1>1, <1>2 DEF QuotesAreNotReused
<1>4. QED
  BY <1>3, ReceiptsAlways, PTL

\* A key release cannot be retargeted to another session or nonce, nor to a build
\* other than the one the session asks for (derive_session_key binds them all).
THEOREM KeysNeverRetargeted == Spec => []KeysAreNotRetargeted
<1>1. ASSUME ReceiptsInv, NEW s \in Accepting, NEW m \in Measurements, NEW i \in issued,
             ClientKey(s, accepted[s], m) = i.session_key
      PROVE  /\ i.receipt.kem_pubkey = s
             /\ i.receipt.nonce = NonceOf[s]
             /\ i.receipt.quote.measurement = m
  <2> DEFINE ct == accepted[s].kem_ciphertext
             r == i.receipt
  <2>1. /\ i.session_key =
               <<<<r.kem_ciphertext>>, r.nonce, r.kem_ciphertext, r.quote.measurement>>
        /\ r.kem_ciphertext.to = r.kem_pubkey
    BY <1>1 DEF ReceiptsInv, Composed, SessionKey
  <2>2. ClientKey(s, accepted[s], m) = <<Decapsulate(s, ct), NonceOf[s], ct, m>>
    BY DEF ClientKey, SessionKey
  <2>3. /\ Decapsulate(s, ct) = <<ct>> /\ NonceOf[s] = r.nonce /\ ct = r.kem_ciphertext
        /\ m = r.quote.measurement
    BY <1>1, <2>1, <2>2
  <2>4. ct.to = s
    <3>1. <<ct, s>> # <<ct>>
      OBVIOUS
    <3>2. QED
      BY <2>3, <3>1 DEF Decapsulate
  <2>5. QED
    BY <2>1, <2>3, <2>4
<1>2. ReceiptsInv => KeysAreNotRetargeted
  BY <1>1 DEF KeysAreNotRetargeted
<1>3. QED
  BY <1>2, ReceiptsAlways, PTL

\* A receipt of the keyserver works as soon as its head is anchored, however
\* much the log has grown (keyserver_issue against verify_receipt).
THEOREM IssuedReceiptsAlwaysWork == Spec => []IssuedReceiptsWork
<1>1. ASSUME ReceiptsInv, NEW i \in issued, NEW s \in Sessions,
             i.receipt.nonce = NonceOf[s], i.receipt.kem_pubkey = s
      PROVE  /\ i.receipt.sth \in anchored => VerifyReceipt(s, i.receipt)
             /\ i.session_key = ClientKey(s, i.receipt, i.receipt.quote.measurement)
  <2> DEFINE r == i.receipt
  <2>1. Composed(i)
    BY <1>1 DEF ReceiptsInv
  <2>2. r.kem_pubkey # Malformed /\ r.kem_ciphertext # Malformed
    <3>1. r.kem_ciphertext \in [to : Sessions, n : 0..MaxIssued]
      BY <2>1 DEF Composed, Receipt
    <3>2. [to : Sessions, n : 0..MaxIssued] \subseteq [to : Sessions, n : Nat]
      BY ReceiptsAssumption
    <3>3. QED
      BY <1>1, <3>1, <3>2, ReceiptsAssumption
  <2>3. r.sth \in anchored => VerifyReceipt(s, r)
    BY <1>1, <2>1, <2>2
       DEF Composed, VerifyReceipt, VerifyQuote, Binds, WellFormed, SthSigned, IsAnchored
  <2>4. i.session_key = ClientKey(s, r, r.quote.measurement)
    BY <1>1, <2>1 DEF Composed, ClientKey, Decapsulate
  <2>5. QED
    BY <2>3, <2>4
<1>2. ReceiptsInv => IssuedReceiptsWork
  BY <1>1 DEF IssuedReceiptsWork
<1>3. QED
  BY <1>2, ReceiptsAlways, PTL
=============================================================================
