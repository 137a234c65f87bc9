------------------------ MODULE ClientSessionsProofs ------------------------
(***************************************************************************)
(* What the commitment to a witness list and the counting of cosignatures  *)
(* are good for, for lists, bundles and thresholds of any size; and then   *)
(* that sessions trust nothing but what a quorum of witnesses their policy *)
(* names has signed, for any witnesses, policies, lists, thresholds and    *)
(* width of the integers they are cut to.                                  *)
(***************************************************************************)
EXTENDS ClientSessions, TreeHeadsProofs

-----------------------------------------------------------------------------
(* Lists, bundles and thresholds.                                          *)

\* The (id, key) pairs of a list.
Pairs(list) == {<<list[i].id, list[i].key>> : i \in DOMAIN list}

LEMMA EntryOfList ==
    ASSUME NEW S, NEW s \in Seq(S), NEW i \in 1..Len(s)
    PROVE  s[i] \in S
  OBVIOUS

LEMMA ListParts ==
    ASSUME NEW ids, NEW list \in ListsOver(ids)
    PROVE  /\ DOMAIN list = 1..Len(list)
           /\ Len(list) \in Nat
           /\ \A i \in DOMAIN list : i \in Nat /\ i >= 1
           /\ \A i \in DOMAIN list : list[i] \in [id : ids, key : Keys \cup {MalformedKey}]
           /\ IsFiniteSet(DOMAIN list)
<1>1. list \in Seq([id : ids, key : Keys \cup {MalformedKey}])
  BY DEF ListsOver
<1>2. Len(list) \in Nat /\ DOMAIN list = 1..Len(list)
  BY <1>1
<1>3. IsFiniteSet(1..Len(list))
  BY <1>2, FS_Interval
<1>4. \A i \in DOMAIN list : list[i] \in [id : ids, key : Keys \cup {MalformedKey}]
  BY <1>1, <1>2, EntryOfList
<1> QED
  BY <1>2, <1>3, <1>4

\* Only an id that occurs before can make the rank of an entry positive.
LEMMA RankZero ==
    ASSUME NEW ids, NEW list \in ListsOver(ids), NEW i \in DOMAIN list
    PROVE  Rank(list, i) = 0 <=> \A j \in 1..(i - 1) : list[j].id # list[i].id
<1> DEFINE Before == {j \in 1..(i - 1) : list[j].id = list[i].id}
<1>1. i \in Nat /\ i >= 1
  BY ListParts
<1>2. IsFiniteSet(1..(i - 1))
  BY <1>1, FS_Interval
<1>3. IsFiniteSet(Before)
  BY <1>2, FS_Subset
<1>4. Cardinality(Before) = 0 <=> Before = {}
  BY <1>3, FS_EmptySet
<1> QED
  BY <1>4 DEF Rank

LEMMA DistinctHaveRankZero ==
    ASSUME NEW ids, NEW list \in ListsOver(ids), DistinctIds(list)
    PROVE  \A i \in DOMAIN list : Rank(list, i) = 0
<1> TAKE i \in DOMAIN list
<1>1. \A j \in 1..(i - 1) : j \in DOMAIN list /\ j # i
  BY ListParts
<1>2. \A j \in 1..(i - 1) : list[j].id # list[i].id
  BY <1>1 DEF DistinctIds
<1> QED
  BY <1>2, RankZero

\* A repeated id shows in the commitment as an entry of positive rank.
LEMMA RankZeroAreDistinct ==
    ASSUME NEW ids, NEW list \in ListsOver(ids), \A i \in DOMAIN list : Rank(list, i) = 0
    PROVE  DistinctIds(list)
<1> SUFFICES ASSUME NEW i \in DOMAIN list, NEW j \in DOMAIN list,
                    list[i].id = list[j].id, i # j
             PROVE  FALSE
  BY DEF DistinctIds
<1>1. i \in Nat /\ j \in Nat /\ i >= 1 /\ j >= 1
  BY ListParts
<1>2. CASE i < j
  <2>1. i \in 1..(j - 1)
    BY <1>1, <1>2
  <2> QED
    BY <2>1, RankZero
<1>3. CASE j < i
  <2>1. j \in 1..(i - 1)
    BY <1>1, <1>3
  <2> QED
    BY <2>1, RankZero
<1> QED
  BY <1>1, <1>2, <1>3

\* Whoever makes an anchor with new_checked against the commitment to a list has
\* that list, but for its order: the same keys under the same ids, none twice
\* and none malformed.  Of the threshold he has the low 32 bits only
\* (witness_set_commitment, new_checked).
THEOREM CheckedIsPublished ==
    ASSUME NEW list \in ListsOver(Ids), NEW threshold \in Nat,
           NEW handed \in ListsOver(Ids), NEW stated \in Nat,
           NewChecked(handed, stated, Commitment(list, threshold))
    PROVE  /\ Pairs(handed) = Pairs(list)
           /\ DistinctIds(list)
           /\ stated % U32 = threshold % U32
           /\ KeysParse(list)
<1> DEFINE Entries(l) == {<<l[i].id, Rank(l, i), l[i].key>> : i \in DOMAIN l}
<1>1. Entries(handed) = Entries(list) /\ stated % U32 = threshold % U32
  BY DEF NewChecked, Commitment
<1>2. DistinctIds(handed) /\ KeysParse(handed)
  BY DEF NewChecked
<1>3. \A i \in DOMAIN handed : Rank(handed, i) = 0
  BY <1>2, DistinctHaveRankZero
<1>4. \A i \in DOMAIN list : \E j \in DOMAIN handed :
          /\ list[i].id = handed[j].id
          /\ Rank(list, i) = Rank(handed, j)
          /\ list[i].key = handed[j].key
  <2> TAKE i \in DOMAIN list
  <2>1. <<list[i].id, Rank(list, i), list[i].key>> \in Entries(handed)
    BY <1>1
  <2> QED
    BY <2>1
<1>5. \A j \in DOMAIN handed : \E i \in DOMAIN list :
          list[i].id = handed[j].id /\ list[i].key = handed[j].key
  <2> TAKE j \in DOMAIN handed
  <2>1. <<handed[j].id, Rank(handed, j), handed[j].key>> \in Entries(list)
    BY <1>1
  <2> QED
    BY <2>1
<1>6. \A i \in DOMAIN list : Rank(list, i) = 0
  BY <1>3, <1>4
<1>7. DistinctIds(list)
  BY <1>6, RankZeroAreDistinct
<1>8. Pairs(handed) = Pairs(list)
  BY <1>4, <1>5 DEF Pairs
<1> QED
  BY <1>1, <1>2, <1>4, <1>7, <1>8 DEF KeysParse

\* No bundle counts for more witnesses than signed: repeating cosignatures,
\* mislabelling them or reordering them does not raise the tally above the
\* number of entries whose keys signed (the counting loop of ingest).
THEOREM TallyIsBounded ==
    ASSUME NEW ids, NEW list \in ListsOver(ids), NEW bundle, NEW signers
    PROVE  /\ Tally(list, bundle, signers) \in Nat
           /\ Tally(list, bundle, signers) <= Cardinality(Signing(list, signers))
<1> DEFINE Counted == {bundle[k].witness_id :
                          k \in {j \in DOMAIN bundle : IsValid(list, bundle[j], signers)}}
           Entries == Signing(list, signers)
           IdOf == [i \in Entries |-> list[i].id]
           Named == {IdOf[i] : i \in Entries}
<1>1. IsFiniteSet(Entries)
  BY ListParts, FS_Subset DEF Signing
<1>2. /\ IsFiniteSet(Named)
      /\ Cardinality(Named) <= Cardinality(Entries)
  <2>1. IdOf \in Surjection(Entries, Named)
    BY DEF Surjection
  <2> QED
    BY <1>1, <2>1, FS_Surjection
<1>3. Counted \subseteq Named
  <2> SUFFICES ASSUME NEW k \in DOMAIN bundle, IsValid(list, bundle[k], signers)
               PROVE  bundle[k].witness_id \in Named
    OBVIOUS
  <2>1. PICK i \in DOMAIN list : /\ list[i].id = bundle[k].witness_id
                                 /\ list[i].key \in signers
    BY DEF IsValid, Verifies
  <2>2. i \in Entries
    BY <2>1 DEF Signing
  <2> QED
    BY <2>1, <2>2
<1>4. IsFiniteSet(Counted) /\ Cardinality(Counted) <= Cardinality(Named)
  BY <1>2, <1>3, FS_Subset
<1>5. /\ Cardinality(Counted) \in Nat
      /\ Cardinality(Named) \in Nat
      /\ Cardinality(Entries) \in Nat
  BY <1>1, <1>2, <1>4, FS_CardinalityType
<1> QED
  BY <1>2, <1>4, <1>5 DEF Tally

\* How many entries signed does not depend on the order of a list.
LEMMA SigningUpToOrder ==
    ASSUME NEW ids, NEW list \in ListsOver(ids), NEW other \in ListsOver(ids), NEW signers,
           Pairs(list) = Pairs(other), DistinctIds(list), DistinctIds(other)
    PROVE  Cardinality(Signing(list, signers)) <= Cardinality(Signing(other, signers))
<1> DEFINE A == Signing(list, signers)
           B == Signing(other, signers)
           Twin(i) == CHOOSE j \in DOMAIN other :
                          other[j].id = list[i].id /\ other[j].key = list[i].key
           f == [i \in A |-> Twin(i)]
<1>1. \A i \in DOMAIN list : /\ Twin(i) \in DOMAIN other
                             /\ other[Twin(i)].id = list[i].id
                             /\ other[Twin(i)].key = list[i].key
  <2> TAKE i \in DOMAIN list
  <2>1. <<list[i].id, list[i].key>> \in Pairs(other)
    BY DEF Pairs
  <2>2. \E j \in DOMAIN other : other[j].id = list[i].id /\ other[j].key = list[i].key
    BY <2>1 DEF Pairs
  <2> QED
    BY <2>2
<1>2. f \in Injection(A, B)
  <2>1. \A i \in A : f[i] \in B
    BY <1>1 DEF Signing
  <2>2. \A i, j \in A : f[i] = f[j] => i = j
    BY <1>1 DEF Signing, DistinctIds
  <2> QED
    BY <2>1, <2>2 DEF Injection, IsInjective
<1>3. IsFiniteSet(B)
  BY ListParts, FS_Subset DEF Signing
<1> QED
  BY <1>2, <1>3, FS_Injection

\* What cosignatures name is counted exactly, if the ids of the list are distinct
\* and every signature that can be had is in the bundle: neither the order nor
\* what else is in the bundle, valid or not, hides one of them (the counting
\* loop of ingest).
THEOREM QuorumIsCounted ==
    ASSUME NEW ids, NEW list \in ListsOver(ids), DistinctIds(list),
           NEW bundle, IsFiniteSet(DOMAIN bundle), NEW signers,
           \A i \in Signing(list, signers) : \E k \in DOMAIN bundle :
               bundle[k].witness_id = list[i].id /\ bundle[k].key = list[i].key
    PROVE  Tally(list, bundle, signers) = Cardinality(Signing(list, signers))
<1> DEFINE Valid == {k \in DOMAIN bundle : IsValid(list, bundle[k], signers)}
           IdAt == [k \in Valid |-> bundle[k].witness_id]
           Counted == {bundle[k].witness_id : k \in Valid}
           Entries == Signing(list, signers)
           IdOf == [i \in Entries |-> list[i].id]
<1>1. IsFiniteSet(Entries)
  BY ListParts, FS_Subset DEF Signing
<1>2. IsFiniteSet(Counted)
  <2>1. IsFiniteSet(Valid)
    BY FS_Subset
  <2>2. IdAt \in Surjection(Valid, Counted)
    BY DEF Surjection
  <2> QED
    BY <2>1, <2>2, FS_Surjection
<1>3. IdOf \in Injection(Entries, Counted)
  <2>1. ASSUME NEW i \in Entries
        PROVE  list[i].id \in Counted
    <3>1. i \in DOMAIN list /\ list[i].key \in signers /\ Rank(list, i) = 0
      BY DistinctHaveRankZero DEF Signing
    <3>2. PICK k \in DOMAIN bundle :
              bundle[k].witness_id = list[i].id /\ bundle[k].key = list[i].key
      OBVIOUS
    <3>3. IsValid(list, bundle[k], signers)
      BY <3>1, <3>2 DEF IsValid, Verifies
    <3> QED
      BY <3>2, <3>3
  <2>2. \A i, j \in Entries : IdOf[i] = IdOf[j] => i = j
    BY DEF Signing, DistinctIds
  <2> QED
    BY <2>1, <2>2 DEF Injection, IsInjective
<1>4. Cardinality(Entries) <= Cardinality(Counted)
  BY <1>2, <1>3, FS_Injection
<1>5. Cardinality(Counted) <= Cardinality(Entries)
  BY TallyIsBounded DEF Tally
<1>6. Cardinality(Entries) \in Nat /\ Cardinality(Counted) \in Nat
  BY <1>1, <1>2, FS_CardinalityType
<1> QED
  BY <1>4, <1>5, <1>6 DEF Tally

\* A list with the entries of another, as many of them, repeats no id either.
LEMMA ReorderedIsDistinct ==
    ASSUME NEW ids, NEW list \in ListsOver(ids), NEW other \in ListsOver(ids),
           DistinctIds(list), Len(other) = Len(list),
           {other[i] : i \in DOMAIN other} = {list[i] : i \in DOMAIN list}
    PROVE  DistinctIds(other)
<1> DEFINE Places == DOMAIN list
           Entries == {list[i] : i \in Places}
           At == [i \in Places |-> list[i]]
           OtherAt == [i \in Places |-> other[i]]
<1>1. IsFiniteSet(Places) /\ DOMAIN other = Places
  BY ListParts
<1>2. At \in Surjection(Places, Entries) /\ At \in Injection(Places, Entries)
  BY DEF Surjection, Injection, IsInjective, DistinctIds
<1>3. Cardinality(Entries) = Cardinality(Places)
  BY <1>1, <1>2, FS_Surjection
<1>4. OtherAt \in Surjection(Places, Entries)
  BY <1>1 DEF Surjection
<1>5. \A i, j \in Places : OtherAt[i] = OtherAt[j] => i = j
  BY <1>1, <1>3, <1>4, FS_Surjection DEF Injection, IsInjective
<1> SUFFICES ASSUME NEW i \in Places, NEW j \in Places, other[i].id = other[j].id
             PROVE  i = j
  BY <1>1 DEF DistinctIds
<1>6. PICK p \in Places, q \in Places : other[i] = list[p] /\ other[j] = list[q]
  <2>1. other[i] \in Entries /\ other[j] \in Entries
    BY <1>1
  <2> QED
    BY <2>1
<1>7. p = q
  BY <1>6 DEF DistinctIds
<1> QED
  BY <1>5, <1>6, <1>7

\* new_checked takes the published list in any order, if it is one of distinct
\* ids and well-formed keys (witness_set_commitment sorts).
THEOREM AnyOrderIsChecked ==
    ASSUME NEW ids, NEW list \in ListsOver(ids), NEW other \in ListsOver(ids), NEW threshold,
           DistinctIds(list), KeysParse(list), Len(other) = Len(list),
           {other[i] : i \in DOMAIN other} = {list[i] : i \in DOMAIN list}
    PROVE  NewChecked(other, threshold, Commitment(list, threshold))
<1> DEFINE Entries(l) == {<<l[i].id, Rank(l, i), l[i].key>> : i \in DOMAIN l}
<1>1. DistinctIds(other)
  BY ReorderedIsDistinct
<1>2. /\ \A i \in DOMAIN list : Rank(list, i) = 0
      /\ \A i \in DOMAIN other : Rank(other, i) = 0
  BY <1>1, DistinctHaveRankZero
<1>3. /\ \A i \in DOMAIN list : \E j \in DOMAIN other : other[j] = list[i]
      /\ \A j \in DOMAIN other : \E i \in DOMAIN list : other[j] = list[i]
  OBVIOUS
<1>4. Entries(other) = Entries(list)
  <2>1. ASSUME NEW i \in DOMAIN list, NEW j \in DOMAIN other, other[j] = list[i]
        PROVE  <<other[j].id, Rank(other, j), other[j].key>>
                   = <<list[i].id, Rank(list, i), list[i].key>>
    BY <1>2, <2>1
  <2>2. ASSUME NEW i \in DOMAIN list
        PROVE  <<list[i].id, Rank(list, i), list[i].key>> \in Entries(other)
    <3>1. PICK j \in DOMAIN other : other[j] = list[i]
      BY <1>3
    <3>2. <<other[j].id, Rank(other, j), other[j].key>> \in Entries(other)
      OBVIOUS
    <3>3. QED
      BY <2>1, <3>1, <3>2
  <2>3. ASSUME NEW j \in DOMAIN other
        PROVE  <<other[j].id, Rank(other, j), other[j].key>> \in Entries(list)
    <3>1. PICK i \in DOMAIN list : other[j] = list[i]
      BY <1>3
    <3>2. <<list[i].id, Rank(list, i), list[i].key>> \in Entries(list)
      OBVIOUS
    <3>3. QED
      BY <2>1, <3>1, <3>2
  <2>4. QED
    BY <2>2, <2>3, Zenon
<1>5. KeysParse(other)
  BY <1>3 DEF KeysParse
<1> QED
  BY <1>1, <1>4, <1>5 DEF NewChecked, Commitment

-----------------------------------------------------------------------------
(* Policies and quorums of the sessions.                                   *)

\* The parts of a policy; an operator that cuts its threshold to 32 bits has a
\* policy still.
LEMMA PolicyParts ==
    ASSUME NEW ids, NEW policy \in PoliciesOver(ids)
    PROVE  /\ policy.list \in ListsOver(ids)
           /\ policy.threshold \in Thresholds /\ policy.threshold \in Nat
  BY DEF PoliciesOver, Thresholds

\* More signatures do not undo a quorum.
LEMMA QuorumsGrow ==
    ASSUME NEW ids, NEW policy \in PoliciesOver(ids), NEW S, NEW T, S \subseteq T,
           IsQuorum(policy, S)
    PROVE  IsQuorum(policy, T)
<1>1. policy.list \in ListsOver(ids) /\ policy.threshold \in Nat
  BY PolicyParts
<1>2. IsFiniteSet(Signing(policy.list, T)) /\ IsFiniteSet(Signing(policy.list, S))
  BY <1>1, ListParts, FS_Subset DEF Signing
<1>3. Signing(policy.list, S) \subseteq Signing(policy.list, T)
  BY DEF Signing
<1>4. Cardinality(Signing(policy.list, S)) <= Cardinality(Signing(policy.list, T))
  BY <1>2, <1>3, FS_Subset
<1>5. /\ Cardinality(Signing(policy.list, S)) \in Nat
      /\ Cardinality(Signing(policy.list, T)) \in Nat
  BY <1>2, FS_CardinalityType
<1> QED
  BY <1>1, <1>3, <1>4, <1>5 DEF IsQuorum

\* An anchor that was just made and accepts has a quorum of its list.
LEMMA FreshIngestNeedsQuorum ==
    ASSUME NEW ids, NEW list \in ListsOver(ids), NEW threshold \in Nat, NEW bundle,
           NEW signers, FreshIngest(list, threshold, bundle, signers)
    PROVE  /\ Signing(list, signers) # {}
           /\ threshold <= Cardinality(Signing(list, signers))
<1>1. IsFiniteSet(Signing(list, signers))
  BY ListParts, FS_Subset DEF Signing
<1>2. Cardinality(Signing(list, signers)) \in Nat
  BY <1>1, FS_CardinalityType
<1>3. threshold # 0 /\ threshold <= Cardinality(Signing(list, signers))
  BY <1>2, TallyIsBounded DEF FreshIngest
<1>4. Signing(list, signers) # {}
  BY <1>2, <1>3, FS_EmptySet
<1> QED
  BY <1>3, <1>4

LEMMA CutIsSmaller ==
    ASSUME NEW n \in Nat
    PROVE  n % U32 \in Nat /\ n % U32 <= n
  BY WitnessSetAssumption

LEMMA SmallIsNotCut ==
    ASSUME NEW n \in Ids
    PROVE  n % U32 = n
  BY WitnessSetAssumption DEF Ids

LEMMA ListsAreLists == Lists \subseteq ListsOver(Ids)
<1> DEFINE Entry == [id : Ids, key : Keys \cup {MalformedKey}]
<1>1. 0..MaxList \subseteq Nat
  BY ClientSessionsAssumption
<1>2. Seq(Entry) = UNION {[1..n -> Entry] : n \in Nat}
  BY SeqDef
<1> QED
  BY <1>1, <1>2 DEF Lists, ListsOver

\* Distinct ids of 32 bits are at most so many.
LEMMA DistinctListIsShort ==
    ASSUME NEW list \in ListsOver(Ids), DistinctIds(list)
    PROVE  Len(list) <= U32
<1> DEFINE IdOf == [i \in DOMAIN list |-> list[i].id]
<1>1. IdOf \in Injection(DOMAIN list, Ids)
  BY ListParts DEF Injection, IsInjective, DistinctIds
<1>2. IsFiniteSet(Ids) /\ Cardinality(Ids) = U32
  <2>1. U32 - 1 \in Int /\ 0 \in Int /\ U32 - 1 >= 0
    BY WitnessSetAssumption
  <2>2. Cardinality(0..(U32 - 1)) = (U32 - 1) - 0 + 1 /\ IsFiniteSet(0..(U32 - 1))
    BY <2>1, FS_Interval
  <2> QED
    BY <2>2, WitnessSetAssumption DEF Ids
<1>3. Cardinality(DOMAIN list) = Len(list) /\ Len(list) \in Nat
  <2>1. DOMAIN list = 1..Len(list) /\ Len(list) \in Nat
    BY ListParts
  <2>2. Cardinality(1..Len(list)) = IF 1 > Len(list) THEN 0 ELSE Len(list) - 1 + 1
    BY <2>1, FS_Interval
  <2> QED
    BY <2>1, <2>2
<1>4. Cardinality(DOMAIN list) <= Cardinality(Ids)
  BY <1>1, <1>2, FS_Injection
<1> QED
  BY <1>2, <1>3, <1>4

\* A positive threshold with the same low bits as another that is at most U32 is
\* no smaller.
LEMMA LowBitsAreEnough ==
    ASSUME NEW n \in Nat, NEW t \in Nat, t # 0, n <= U32, t % U32 = n % U32
    PROVE  n <= t
<1>1. CASE n < U32
  <2>1. n % U32 = n
    BY <1>1, SmallIsNotCut, WitnessSetAssumption DEF Ids
  <2> QED
    BY <2>1, CutIsSmaller
<1>2. CASE n = U32
  <2>1. n % U32 = 0
    BY <1>2, WitnessSetAssumption
  <2>2. t < U32 => t % U32 = t
    BY SmallIsNotCut, WitnessSetAssumption DEF Ids
  <2> QED
    BY <1>2, <2>1, <2>2, WitnessSetAssumption
<1> QED
  BY <1>1, <1>2, WitnessSetAssumption

\* What the provider can hand to a pinned session cannot weaken a policy that was
\* published: the sets of signers that convince are its quorums, in the low 32
\* bits of the threshold always, and in all of them if its list is long enough
\* for the threshold (witness_set_commitment, new_checked).
THEOREM PinnedNeedsPublishedQuorum ==
    ASSUME NEW policy, NEW signers, <<policy, signers>> \in ConvincedPinned
    PROVE  /\ policy \in Policies
           /\ IsQuorum([policy EXCEPT !.threshold = @ % U32], signers)
           /\ CanBeMet(policy) => IsQuorum(policy, signers)
<1>1. PICK handed \in Passing(policy), bundle \in Bundles :
          /\ policy \in Policies
          /\ FreshIngest(handed.list, handed.threshold, bundle, signers)
  BY DEF ConvincedPinned
<1>2. /\ policy \in PoliciesOver(Ids)
      /\ policy.list \in ListsOver(Ids) /\ policy.threshold \in Nat
  BY <1>1, PolicyParts, ClientSessionsAssumption
<1>3. /\ handed.list \in ListsOver(Ids) /\ handed.threshold \in Nat
      /\ NewChecked(handed.list, handed.threshold, Commitment(policy.list, policy.threshold))
  BY <1>1, ListsAreLists, WitnessSetAssumption DEF Passing, Thresholds
<1>4. /\ Pairs(handed.list) = Pairs(policy.list)
      /\ DistinctIds(policy.list)
      /\ handed.threshold % U32 = policy.threshold % U32
  BY <1>2, <1>3, CheckedIsPublished
<1>5. DistinctIds(handed.list)
  BY <1>3 DEF NewChecked
<1>6. Cardinality(Signing(handed.list, signers)) <= Cardinality(Signing(policy.list, signers))
  BY <1>2, <1>3, <1>4, <1>5, SigningUpToOrder
<1>7. /\ Signing(handed.list, signers) # {}
      /\ handed.threshold <= Cardinality(Signing(handed.list, signers))
  BY <1>1, <1>3, FreshIngestNeedsQuorum
<1>8. IsFiniteSet(Signing(handed.list, signers)) /\ IsFiniteSet(Signing(policy.list, signers))
  BY <1>2, <1>3, ListParts, FS_Subset DEF Signing
<1>9. /\ Cardinality(Signing(handed.list, signers)) \in Nat
      /\ Cardinality(Signing(policy.list, signers)) \in Nat
      /\ Cardinality(Signing(handed.list, signers)) # 0
  BY <1>7, <1>8, FS_CardinalityType, FS_EmptySet
<1>10. Signing(policy.list, signers) # {}
  BY <1>6, <1>8, <1>9, FS_EmptySet
<1>11. policy.threshold % U32 <= handed.threshold /\ policy.threshold % U32 \in Nat
  BY <1>2, <1>3, <1>4, CutIsSmaller
<1>12. policy.threshold % U32 <= Cardinality(Signing(policy.list, signers))
  BY <1>3, <1>6, <1>7, <1>9, <1>11
<1>13. CanBeMet(policy) => policy.threshold <= Cardinality(Signing(policy.list, signers))
  <2> SUFFICES ASSUME CanBeMet(policy)
               PROVE  policy.threshold <= Cardinality(Signing(policy.list, signers))
    OBVIOUS
  <2>1. Len(policy.list) <= U32 /\ Len(policy.list) \in Nat
    BY <1>2, <1>4, DistinctListIsShort, ListParts
  <2>2. policy.threshold <= U32
    BY <1>2, <2>1, WitnessSetAssumption DEF CanBeMet
  <2>3. handed.threshold # 0
    BY <1>1 DEF FreshIngest
  <2>4. policy.threshold <= handed.threshold
    BY <1>2, <1>3, <1>4, <2>2, <2>3, LowBitsAreEnough
  <2> QED
    BY <1>2, <1>3, <1>6, <1>7, <1>9, <2>4
<1>14. LET cut == [policy EXCEPT !.threshold = @ % U32]
       IN  cut.list = policy.list /\ cut.threshold = policy.threshold % U32
  BY <1>2 DEF PoliciesOver
<1> QED
  BY <1>1, <1>10, <1>12, <1>13, <1>14 DEF IsQuorum

\* Ids that are cut to 32 bits still make a list, of the same keys.
LEMMA TruncatedIsList ==
    ASSUME NEW ids \in SUBSET Nat, NEW list \in ListsOver(ids)
    PROVE  /\ Truncated(list) \in ListsOver(Ids)
           /\ \A signers : Signing(Truncated(list), signers) = Signing(list, signers)
<1>1. /\ DOMAIN Truncated(list) = DOMAIN list
      /\ \A i \in DOMAIN list : Truncated(list)[i].key = list[i].key
  BY ListParts DEF Truncated
<1>2. \A i \in 1..Len(list) :
          [list[i] EXCEPT !.id = @ % U32] \in [id : Ids, key : Keys \cup {MalformedKey}]
  BY ListParts, WitnessSetAssumption DEF Ids
<1>3. Truncated(list) = [i \in 1..Len(list) |-> [list[i] EXCEPT !.id = @ % U32]]
  BY ListParts DEF Truncated
<1>4. Truncated(list) \in ListsOver(Ids)
  BY <1>2, <1>3, ListParts DEF ListsOver
<1> QED
  BY <1>1, <1>4 DEF Signing

\* Neither can cutting the ids of its list weaken the policy of a script.
THEOREM ScriptedNeedsOwnQuorum ==
    ASSUME NEW s, NEW signers, <<s, signers>> \in ConvincedScripted
    PROVE  s \in Scripted /\ IsQuorum(Own[s], signers)
<1>1. PICK bundle \in Bundles : s \in Scripted /\ VerifyFull(Own[s], bundle, signers)
  BY DEF ConvincedScripted
<1> DEFINE list == Own[s].list
<1>2. list \in ListsOver(Nat) /\ Own[s].threshold \in Nat
  BY <1>1, PolicyParts, ClientSessionsAssumption
<1>3. Truncated(list) \in ListsOver(Ids) /\ Signing(Truncated(list), signers) = Signing(list, signers)
  BY <1>2, TruncatedIsList
<1>4. FreshIngest(Truncated(list), Own[s].threshold, bundle, signers)
  BY <1>1 DEF VerifyFull
<1> QED
  BY <1>1, <1>2, <1>3, <1>4, FreshIngestNeedsQuorum DEF IsQuorum

-----------------------------------------------------------------------------
(* TrustIsGrounded is inductive together with this: a pinned session has    *)
(* nothing to go by before a policy is published, and then that policy      *)
(* stays.                                                                   *)

Shape ==
    /\ published \in Policies \cup {None}
    /\ published = None => \A s \in Pinned : accepted[s] = {}
    /\ cosigs = [w \in Keys |-> cosigs[w]]
    /\ accepted = [s \in Sessions |-> accepted[s]]

Inv == Shape /\ TrustIsGrounded

LEMMA KindsOfSession ==
    /\ Pinned \subseteq Sessions /\ Scripted \subseteq Sessions /\ Gossiping \subseteq Sessions
    /\ Grounded = Pinned \cup Scripted /\ Grounded \subseteq Sessions
    /\ Sessions = Grounded \cup Gossiping
    /\ \A s \in Scripted : s \notin Pinned
    /\ \A s \in Gossiping : s \notin Grounded
  BY ClientSessionsAssumption DEF Sessions, Grounded

\* The policies sessions go by are policies, and cutting a threshold leaves it
\* one.
LEMMA PoliciesArePolicies ==
    /\ \A s \in Scripted : Own[s] \in PoliciesOver(Nat)
    /\ \A policy \in Policies : [policy EXCEPT !.threshold = @ % U32] \in PoliciesOver(Ids)
<1>1. \A s \in Scripted : Own[s] \in PoliciesOver(Nat)
  BY ClientSessionsAssumption
<1>2. ASSUME NEW policy \in Policies
      PROVE  [policy EXCEPT !.threshold = @ % U32] \in PoliciesOver(Ids)
  <2>1. policy \in PoliciesOver(Ids)
    BY ClientSessionsAssumption
  <2>2. policy.threshold % U32 \in Thresholds
    BY <2>1, PolicyParts, CutIsSmaller, WitnessSetAssumption DEF Thresholds
  <2> QED
    BY <2>1, <2>2 DEF PoliciesOver
<1> QED
  BY <1>1, <1>2

LEMMA InitInv == Init => Inv
<1> SUFFICES ASSUME Init PROVE Inv
  OBVIOUS
<1>1. \A s \in Sessions : accepted[s] = {}
  BY DEF Init
<1>2. Shape
  BY <1>1, KindsOfSession DEF Init, Shape
<1> QED
  BY <1>1, <1>2, KindsOfSession DEF Inv, TrustIsGrounded

\* Cosignatures are never taken back.
LEMMA SignersGrow ==
    ASSUME Shape, [Next]_vars
    PROVE  /\ cosigs' = [w \in Keys |-> cosigs'[w]]
           /\ \A h : Signers(h) \subseteq Signers(h)'
<1>1. ASSUME NEW sth, NEW w, NEW proof, Federation!Cosign(w, sth, proof)
      PROVE  cosigs' = [k \in Keys |-> cosigs'[k]] /\ \A k \in Keys : cosigs[k] \subseteq cosigs'[k]
  BY <1>1 DEF Federation!Cosign, Shape
<1>2. CASE UNCHANGED cosigs
  BY <1>2 DEF Shape, Signers, Federation!Cosigners
<1>3. CASE FederationStep
  <2>1. CASE \E l \in Logs, m \in Measurements : Federation!AppendLeaf(l, m)
    BY <1>2, <2>1 DEF Federation!AppendLeaf
  <2>2. CASE \E sth, w, proof : Federation!Cosign(w, sth, proof)
    BY <1>1, <2>2 DEF Signers, Federation!Cosigners
  <2> QED
    BY <1>3, <2>1, <2>2 DEF FederationStep
<1>4. CASE ~FederationStep
  <2>1. UNCHANGED cosigs
    BY <1>4 DEF Next, vars, SubmitWitnessSet, VerifyPinned, VerifyScripted, VerifyGossiped, Trust
  <2> QED
    BY <1>2, <2>1
<1> QED
  BY <1>3, <1>4

\* Quorums that stood before a step still stand if the policies stay.
LEMMA QuorumsStand ==
    ASSUME Inv, [Next]_vars,
           NEW s \in Grounded, NEW h \in accepted[s],
           s \in Pinned => published' = published
    PROVE  MayConvince(s, Signers(h))'
<1>1. MayConvince(s, Signers(h)) /\ Signers(h) \subseteq Signers(h)'
  BY SignersGrow DEF Inv, TrustIsGrounded
<1>2. PolicyOf(s)' = PolicyOf(s) /\ EnforcedPolicy(s)' = EnforcedPolicy(s)
  BY DEF PolicyOf, EnforcedPolicy
<1>3. /\ \E ids : PolicyOf(s) \in PoliciesOver(ids)
      /\ \E ids : EnforcedPolicy(s) \in PoliciesOver(ids)
  <2>1. CASE s \in Pinned
    <3>1. published \in Policies
      BY <2>1 DEF Inv, Shape
    <3> QED
      BY <2>1, <3>1, PoliciesArePolicies, ClientSessionsAssumption DEF PolicyOf, EnforcedPolicy
  <2>2. CASE s \notin Pinned
    BY <2>2, PoliciesArePolicies, KindsOfSession DEF PolicyOf, EnforcedPolicy
  <2> QED
    BY <2>1, <2>2
<1>4. IsQuorum(EnforcedPolicy(s), Signers(h)')
  BY <1>1, <1>3, QuorumsGrow DEF MayConvince
<1>5. CanBeMet(PolicyOf(s)) => IsQuorum(PolicyOf(s), Signers(h)')
  BY <1>1, <1>3, QuorumsGrow DEF MayConvince
<1> QED
  BY <1>2, <1>4, <1>5 DEF MayConvince, CanBeMet

\* Steps in which no session accepts anything.
LEMMA NothingAccepted ==
    ASSUME Inv, [Next]_vars, UNCHANGED accepted,
           \/ UNCHANGED published
           \/ published = None /\ published' \in Policies
    PROVE  Inv'
<1>1. Shape'
  BY SignersGrow, ClientSessionsAssumption DEF Inv, Shape
<1>2. ASSUME NEW s \in Grounded, NEW h \in accepted[s]
      PROVE  MayConvince(s, Signers(h))'
  <2>1. s \in Pinned => published' = published
    BY <1>2 DEF Inv, Shape
  <2> QED
    BY <1>2, <2>1, QuorumsStand
<1>3. TrustIsGrounded'
  BY <1>2 DEF Inv, TrustIsGrounded
<1> QED
  BY <1>1, <1>3 DEF Inv

\* A step in which session s accepts sth, for a good reason.
LEMMA OneAccepted ==
    ASSUME Inv, [Next]_vars, NEW s \in Sessions, NEW sth, Trust(s, sth),
           s \in Pinned => published # None,
           s \in Grounded => MayConvince(s, Signers(sth)),
           s \in Gossiping => \E t \in Sessions : \E g \in accepted[t] : g.root = sth.root
    PROVE  Inv'
<1>1. /\ \A t \in Sessions : accepted'[t] = IF t = s THEN accepted[t] \cup {sth} ELSE accepted[t]
      /\ accepted' = [t \in Sessions |-> accepted'[t]]
      /\ published' = published /\ cosigs' = cosigs
  BY DEF Inv, Shape, Trust
<1>2. Shape'
  BY <1>1, KindsOfSession DEF Inv, Shape
<1>3. ASSUME NEW t \in Grounded, NEW h \in accepted'[t]
      PROVE  MayConvince(t, Signers(h))'
  <2>1. CASE h \in accepted[t]
    BY <1>1, <1>3, <2>1, QuorumsStand
  <2>2. CASE h \notin accepted[t]
    <3>1. t = s /\ h = sth
      BY <1>1, <1>3, <2>2, KindsOfSession
    <3>2. MayConvince(s, Signers(sth))' <=> MayConvince(s, Signers(sth))
      BY <1>1 DEF MayConvince, PolicyOf, EnforcedPolicy, CanBeMet, Signers, Federation!Cosigners
    <3> QED
      BY <1>3, <3>1, <3>2
  <2> QED
    BY <2>1, <2>2
<1>4. ASSUME NEW t \in Sessions, NEW h \in accepted[t]
      PROVE  \E u \in Grounded : \E g \in accepted'[u] : g.root = h.root
  <2>1. \E u \in Grounded : \E g \in accepted[u] : g.root = h.root
    BY <1>4, KindsOfSession DEF Inv, TrustIsGrounded
  <2> QED
    BY <1>1, <2>1, KindsOfSession
<1>5. ASSUME NEW t \in Gossiping, NEW h \in accepted'[t]
      PROVE  \E u \in Grounded : \E g \in accepted'[u] : g.root = h.root
  <2>1. CASE h \in accepted[t]
    BY <1>4, <1>5, <2>1, KindsOfSession
  <2>2. CASE h \notin accepted[t]
    <3>1. t = s /\ h = sth
      BY <1>1, <1>5, <2>2, KindsOfSession
    <3> QED
      BY <1>4, <1>5, <3>1
  <2> QED
    BY <2>1, <2>2
<1> QED
  BY <1>2, <1>3, <1>5 DEF Inv, TrustIsGrounded

LEMMA StepInv == Inv /\ [Next]_vars => Inv'
<1> SUFFICES ASSUME Inv, [Next]_vars PROVE Inv'
  OBVIOUS
<1>1. CASE FederationStep \/ UNCHANGED vars
  BY <1>1, NothingAccepted DEF FederationStep, vars
<1>2. ASSUME NEW policy \in Policies, SubmitWitnessSet(policy) PROVE Inv'
  BY <1>2, NothingAccepted DEF SubmitWitnessSet
<1>3. ASSUME NEW sth, NEW s \in Pinned, VerifyPinned(s, sth) PROVE Inv'
  <2>1. published \in Policies /\ MayConvince(s, Signers(sth))
    BY <1>3, PinnedNeedsPublishedQuorum DEF VerifyPinned, MayConvince, PolicyOf, EnforcedPolicy
  <2> QED
    BY <1>3, <2>1, OneAccepted, KindsOfSession, ClientSessionsAssumption DEF VerifyPinned
<1>4. ASSUME NEW sth, NEW s \in Scripted, VerifyScripted(s, sth) PROVE Inv'
  <2>1. MayConvince(s, Signers(sth))
    BY <1>4, ScriptedNeedsOwnQuorum, KindsOfSession
       DEF VerifyScripted, MayConvince, PolicyOf, EnforcedPolicy
  <2> QED
    BY <1>4, <2>1, OneAccepted, KindsOfSession DEF VerifyScripted
<1>5. ASSUME NEW sth, NEW s \in Gossiping, NEW heard \in UNION {accepted[t] : t \in Sessions},
             VerifyGossiped(s, heard, sth)
      PROVE  Inv'
  <2>1. \E t \in Sessions : heard \in accepted[t]
    OBVIOUS
  <2>2. heard.root = sth.root /\ Trust(s, sth)
    BY <1>5 DEF VerifyGossiped, VerifyJson
  <2> QED
    BY <1>5, <2>1, <2>2, OneAccepted, KindsOfSession
<1> QED
  BY <1>1, <1>2, <1>3, <1>4, <1>5 DEF Next

LEMMA AlwaysInv == Spec => []Inv
  BY InitInv, StepInv, PTL DEF Spec

\* Nobody is convinced by less than a quorum of witnesses somebody chose, with
\* the threshold he wrote if his list can meet it and the low 32 bits of it in
\* any case, for all policies, witnesses, sizes and calls (new_checked,
\* verify_receipt_full, verify_receipt_json).
THEOREM TrustIsAlwaysGrounded == Spec => []TrustIsGrounded
<1>1. Inv => TrustIsGrounded
  BY DEF Inv
<1> QED
  BY <1>1, AlwaysInv, PTL

-----------------------------------------------------------------------------
(* The logs and witnesses of the sessions are those of Witnessing.         *)

FederationProofs ==
    INSTANCE WitnessingProofs WITH
        Witnesses <- Keys, Clients <- {}, Trusted <- <<>>, Threshold <- <<>>,
        by_size <- <<>>, accepted <- <<>>

LEMMA FederationAssumptions ==
    /\ FederationProofs!MaxSizeAssumption /\ FederationProofs!FalseSizesAssumption
    /\ FederationProofs!NoneAssumption /\ FederationProofs!WitnessingAssumption
<1>1. FederationProofs!MaxSizeAssumption /\ FederationProofs!FalseSizesAssumption
  BY MaxSizeAssumption, FalseSizesAssumption
     DEF FederationProofs!MaxSizeAssumption, FederationProofs!FalseSizesAssumption,
         FederationProofs!Sizes, Sizes
<1>2. FederationProofs!NoneAssumption
  BY NoneAssumption
     DEF FederationProofs!NoneAssumption, FederationProofs!Sizes, FederationProofs!Heads,
         FederationProofs!Roots, Sizes, Heads, Roots
<1>3. FederationProofs!WitnessingAssumption
  BY ClientSessionsAssumption DEF FederationProofs!WitnessingAssumption
<1> QED
  BY <1>1, <1>2, <1>3

\* The two instances of Witnessing, of its definitions and of the theorems about
\* them, are the same.
LEMMA SameFederation ==
    /\ Federation!OfferedHeads = FederationProofs!OfferedHeads
    /\ \A size : Federation!ProofsTo(size) = FederationProofs!ProofsTo(size)
    /\ Federation!Honest = FederationProofs!Honest
<1>1. Federation!OfferedHeads = FederationProofs!OfferedHeads
  BY DEF Federation!OfferedHeads, FederationProofs!OfferedHeads,
         Federation!SignableHeads, FederationProofs!SignableHeads
<1>2. Federation!OfferedProofs = FederationProofs!OfferedProofs
  BY DEF Federation!OfferedProofs, FederationProofs!OfferedProofs,
         Federation!ClaimableProofs, FederationProofs!ClaimableProofs
<1>3. \A size : Federation!ProofsTo(size) = FederationProofs!ProofsTo(size)
  BY <1>2 DEF Federation!ProofsTo, FederationProofs!ProofsTo
<1> QED
  BY <1>1, <1>3 DEF Federation!Honest, FederationProofs!Honest

LEMMA SameHandlers ==
    /\ \A l, m : Federation!AppendLeaf(l, m) => FederationProofs!AppendLeaf(l, m)
    /\ \A w, sth, proof :
           Federation!Cosign(w, sth, proof) => FederationProofs!Cosign(w, sth, proof)
  BY DEF Federation!AppendLeaf, FederationProofs!AppendLeaf,
         Federation!Cosign, FederationProofs!Cosign,
         Federation!JoinsTo, FederationProofs!JoinsTo,
         Federation!VerifyConsistency, FederationProofs!VerifyConsistency

\* To the witnesses the sessions are one more courier: every behaviour of the
\* sessions is one of the federation, without clients of its own.
LEMMA SessionsFollowFederation == Spec => FederationProofs!Spec
<1>1. Init => FederationProofs!Init
  BY DEF Init, FederationProofs!Init
<1>2. [Next]_vars => [FederationProofs!Next]_(FederationProofs!vars)
  <2> SUFFICES ASSUME [Next]_vars
               PROVE  FederationProofs!Next \/ UNCHANGED FederationProofs!vars
    OBVIOUS
  <2>1. CASE \E l \in Logs, m \in Measurements : Federation!AppendLeaf(l, m)
    BY <2>1, SameHandlers DEF FederationProofs!Next
  <2>2. CASE \E sth \in Federation!OfferedHeads :
                 \E w \in Federation!Honest, proof \in Federation!ProofsTo(sth.tree_size) :
                     Federation!Cosign(w, sth, proof)
    BY <2>2, SameFederation, SameHandlers DEF FederationProofs!Next
  <2>3. CASE UNCHANGED <<leaves, last, cosigs>>
    BY <2>3 DEF FederationProofs!vars
  <2> QED
    BY <2>1, <2>2, <2>3
       DEF Next, vars, FederationStep, SubmitWitnessSet, VerifyPinned, VerifyScripted,
           VerifyGossiped, Trust
<1> QED
  BY <1>1, <1>2, PTL DEF Spec, FederationProofs!Spec

LEMMA FederationTypes == Spec => []FederationProofs!TypeOK
  BY SessionsFollowFederation, FederationAssumptions, FederationProofs!TypeCorrect, PTL

LEMMA FederationHistory == Spec => []FederationProofs!HonestCosignsOneHistory
  BY SessionsFollowFederation, FederationAssumptions, FederationProofs!HonestHistory, PTL

-----------------------------------------------------------------------------
(* Types.                                                                  *)

AcceptHeads == accepted \in [Sessions -> SUBSET Heads]

LEMMA OfferedToSessions ==
    ASSUME FederationProofs!TypeOK
    PROVE  Federation!OfferedHeads \subseteq Heads
<1>1. FederationProofs!OfferedHeads \subseteq FederationProofs!Heads
  BY FederationProofs!OfferedAreHeads, FederationAssumptions
<1>2. FederationProofs!Heads = Heads
  BY DEF FederationProofs!Heads, FederationProofs!Sizes, FederationProofs!Roots,
         Heads, Sizes, Roots
<1> QED
  BY <1>1, <1>2, SameFederation

LEMMA AcceptHeadsStep == FederationProofs!TypeOK /\ AcceptHeads /\ [Next]_vars => AcceptHeads'
<1> SUFFICES ASSUME FederationProofs!TypeOK, AcceptHeads, [Next]_vars PROVE AcceptHeads'
  OBVIOUS
<1>1. ASSUME NEW sth \in Federation!OfferedHeads, NEW s, Trust(s, sth) PROVE AcceptHeads'
  BY <1>1, OfferedToSessions DEF Trust, AcceptHeads
<1>2. CASE UNCHANGED accepted
  BY <1>2 DEF AcceptHeads
<1> QED
  BY <1>1, <1>2
     DEF Next, vars, FederationStep, SubmitWitnessSet, VerifyPinned, VerifyScripted,
         VerifyGossiped

\* Sessions take nothing for a head that is not one, and the policy on the
\* ledger is one that was published.
THEOREM SessionTypesCorrect == Spec => []TypeOK
<1>1. Init => AcceptHeads
  BY DEF Init, AcceptHeads
<1>2. FederationProofs!TypeOK /\ AcceptHeads /\ Inv => TypeOK
  BY DEF FederationProofs!TypeOK, FederationProofs!Heads, FederationProofs!Sizes,
         FederationProofs!Roots, Federation!TypeOK, Federation!Heads, Federation!Sizes,
         Federation!Roots, AcceptHeads, Inv, Shape, TypeOK
<1> QED
  BY <1>1, <1>2, AcceptHeadsStep, FederationTypes, AlwaysInv, PTL DEF Spec

-----------------------------------------------------------------------------
(* One history.                                                            *)

\* Two heads with a quorum each, by policies in force, have an honest witness in
\* common.
LEMMA GroundedAreConsistent ==
    ASSUME Inv, FederationProofs!HonestCosignsOneHistory, PoliciesOverlap,
           NEW s \in Grounded, NEW t \in Grounded,
           NEW g \in accepted[s], NEW h \in accepted[t]
    PROVE  Consistent(g, h)
<1>1. EnforcedPolicy(s) \in PoliciesInForce /\ EnforcedPolicy(t) \in PoliciesInForce
  BY DEF Inv, Shape, PoliciesInForce, Grounded
<1>2. /\ IsQuorum(EnforcedPolicy(s), Signers(g)) /\ IsQuorum(EnforcedPolicy(t), Signers(h))
      /\ Signers(g) \in SUBSET Keys /\ Signers(h) \in SUBSET Keys
  BY DEF Inv, TrustIsGrounded, MayConvince, Signers, Federation!Cosigners
<1>3. PICK w \in Federation!Honest : w \in Signers(g) /\ w \in Signers(h)
  BY <1>1, <1>2 DEF PoliciesOverlap
<1>4. g \in cosigs[w] /\ h \in cosigs[w]
  BY <1>3 DEF Signers, Federation!Cosigners, Federation!Honest
<1> QED
  BY <1>3, <1>4, SameFederation
     DEF FederationProofs!HonestCosignsOneHistory, FederationProofs!Consistent, Consistent,
         FederationProofs!IsPrefix, IsPrefix

LEMMA HistoryIsShared ==
    TypeOK /\ Inv /\ FederationProofs!HonestCosignsOneHistory => SessionsShareOneHistory
<1> SUFFICES ASSUME TypeOK, Inv, FederationProofs!HonestCosignsOneHistory, PoliciesOverlap,
                    NEW s \in Sessions, NEW t \in Sessions,
                    NEW g \in accepted[s], NEW h \in accepted[t]
             PROVE  /\ IsPrefix(g.root, h.root) \/ IsPrefix(h.root, g.root)
                    /\ s \in Grounded /\ t \in Grounded => Consistent(g, h)
  BY DEF SessionsShareOneHistory
<1>1. ASSUME NEW r \in Sessions, NEW k \in accepted[r]
      PROVE  \E u \in Grounded : \E b \in accepted[u] : b.root = k.root
  BY <1>1, KindsOfSession DEF Inv, TrustIsGrounded
<1>2. PICK u \in Grounded : \E b \in accepted[u] : b.root = g.root
  BY <1>1
<1>3. PICK b \in accepted[u] : b.root = g.root
  BY <1>2
<1>4. PICK v \in Grounded : \E c \in accepted[v] : c.root = h.root
  BY <1>1
<1>5. PICK c \in accepted[v] : c.root = h.root
  BY <1>4
<1>6. b \in Heads /\ c \in Heads
  BY KindsOfSession DEF TypeOK
<1>7. IsPrefix(b.root, c.root) \/ IsPrefix(c.root, b.root)
  BY <1>6, GroundedAreConsistent, ConsistentRoots
<1> QED
  BY <1>3, <1>5, <1>7, GroundedAreConsistent

\* One history although no call remembers the one before, for any number of
\* sessions, of any policies that overlap in honest witnesses
\* (verify_receipt_full, verify_receipt_json, new_checked).
THEOREM SessionsAlwaysShareOneHistory == Spec => []SessionsShareOneHistory
  BY HistoryIsShared, SessionTypesCorrect, AlwaysInv, FederationHistory, PTL

-----------------------------------------------------------------------------
(* What a quorum is good for.                                              *)

LEMMA InForceArePolicies ==
    ASSUME Inv, NEW policy \in PoliciesInForce
    PROVE  \E ids \in SUBSET Nat : policy \in PoliciesOver(ids)
<1>1. PICK s \in Grounded : policy = EnforcedPolicy(s) /\ (s \in Pinned => published # None)
  BY KindsOfSession DEF PoliciesInForce
<1>2. CASE s \in Pinned
  <2>1. policy \in PoliciesOver(Ids)
    BY <1>1, <1>2, PoliciesArePolicies DEF Inv, Shape, EnforcedPolicy
  <2>2. Ids \in SUBSET Nat
    BY WitnessSetAssumption DEF Ids
  <2> QED
    BY <2>1, <2>2
<1>3. CASE s \notin Pinned
  <2>1. policy \in PoliciesOver(Nat)
    BY <1>1, <1>3, PoliciesArePolicies, KindsOfSession DEF EnforcedPolicy
  <2> QED
    BY <2>1
<1> QED
  BY <1>2, <1>3

\* A bundle with all the signatures of a quorum is enough for an anchor that was
\* just made.
LEMMA BundleConvinces ==
    ASSUME NEW ids \in SUBSET Nat, NEW policy \in PoliciesOver(ids), policy.threshold # 0,
           DistinctIds(Truncated(policy.list)),
           NEW signers, IsQuorum(policy, signers),
           NEW bundle, IsFiniteSet(DOMAIN bundle),
           \A i \in Signing(Truncated(policy.list), signers) : \E k \in DOMAIN bundle :
               /\ bundle[k].witness_id = Truncated(policy.list)[i].id
               /\ bundle[k].key = Truncated(policy.list)[i].key
    PROVE  FreshIngest(Truncated(policy.list), policy.threshold, bundle, signers)
<1> DEFINE list == Truncated(policy.list)
<1>1. policy.list \in ListsOver(ids) /\ policy.threshold \in Nat
  BY PolicyParts
<1>2. list \in ListsOver(Ids) /\ Signing(list, signers) = Signing(policy.list, signers)
  BY <1>1, TruncatedIsList
<1>3. Tally(list, bundle, signers) = Cardinality(Signing(policy.list, signers))
  BY <1>2, QuorumIsCounted
<1>4. policy.threshold <= Cardinality(Signing(policy.list, signers))
  BY DEF IsQuorum
<1>5. Tally(list, bundle, signers) \in Nat
  BY <1>2, TallyIsBounded
<1> QED
  BY <1>1, <1>3, <1>4, <1>5 DEF FreshIngest

LEMMA QuorumIsEnough == Inv => QuorumConvinces
<1> SUFFICES ASSUME Inv, NEW policy \in PoliciesInForce, NEW sth \in Federation!OfferedHeads,
                    WellFormed(Truncated(policy.list)), policy.threshold # 0,
                    IsQuorum(policy, Signers(sth)),
                    NEW bundle \in Bundles,
                    {[witness_id |-> Truncated(policy.list)[i].id,
                      key |-> Truncated(policy.list)[i].key] :
                         i \in {j \in DOMAIN Truncated(policy.list) :
                                    Truncated(policy.list)[j].key \in Signers(sth)}}
                        \subseteq Range(bundle)
             PROVE  FreshIngest(Truncated(policy.list), policy.threshold, bundle, Signers(sth))
  BY DEF QuorumConvinces
<1> DEFINE list == Truncated(policy.list)
<1>1. PICK ids \in SUBSET Nat : policy \in PoliciesOver(ids)
  BY InForceArePolicies
<1>2. IsFiniteSet(DOMAIN bundle)
  <2>1. PICK n \in 0..MaxBundle : bundle \in [1..n -> [witness_id : Ids, key : Keys]]
    BY DEF Bundles
  <2>2. n \in Int /\ DOMAIN bundle = 1..n
    BY <2>1, ClientSessionsAssumption
  <2> QED
    BY <2>2, FS_Interval
<1>3. ASSUME NEW i \in Signing(list, Signers(sth))
      PROVE  \E k \in DOMAIN bundle :
                 bundle[k].witness_id = list[i].id /\ bundle[k].key = list[i].key
  <2>1. [witness_id |-> list[i].id, key |-> list[i].key] \in Range(bundle)
    BY DEF Signing
  <2>2. PICK k \in DOMAIN bundle : bundle[k] = [witness_id |-> list[i].id, key |-> list[i].key]
    BY <2>1 DEF Range
  <2> QED
    BY <2>2
<1> QED
  BY <1>1, <1>2, <1>3, BundleConvinces DEF WellFormed

\* A quorum convinces, whatever is mixed into the bundle: for lists and bundles
\* of any length (the counting loop of ingest).
THEOREM QuorumAlwaysConvinces == Spec => []QuorumConvinces
  BY QuorumIsEnough, AlwaysInv, PTL

LEMMA PublishedIsUsable == Inv => UsableInAnyOrder
<1> SUFFICES ASSUME Inv, published # None PROVE UsableInAnyOrder
  BY DEF UsableInAnyOrder
<1> DEFINE Handed(l) == [list |-> l, threshold |-> published.threshold]
<1>1. /\ published \in PoliciesOver(Ids) /\ published.list \in ListsOver(Ids)
      /\ published.threshold \in Thresholds /\ published.threshold \in Nat
  BY PolicyParts, ClientSessionsAssumption DEF Inv, Shape
<1>2. ASSUME WellFormed(published.list), NEW list \in Lists,
             Len(list) = Len(published.list), Range(list) = Range(published.list)
      PROVE  Handed(list) \in Passing(published)
  <2>1. list \in ListsOver(Ids)
    BY ListsAreLists
  <2>2. {list[i] : i \in DOMAIN list} = {published.list[i] : i \in DOMAIN published.list}
    BY <1>2 DEF Range
  <2>3. NewChecked(list, published.threshold, Commitment(published.list, published.threshold))
    BY <1>1, <1>2, <2>1, <2>2, AnyOrderIsChecked DEF WellFormed
  <2> QED
    BY <1>1, <2>3 DEF Passing
<1>3. ASSUME ~WellFormed(published.list), NEW handed \in Passing(published)
      PROVE  FALSE
  <2>1. /\ handed.list \in ListsOver(Ids) /\ handed.threshold \in Nat
        /\ NewChecked(handed.list, handed.threshold,
                      Commitment(published.list, published.threshold))
    BY ListsAreLists, WitnessSetAssumption DEF Passing, Thresholds
  <2>2. DistinctIds(published.list) /\ KeysParse(published.list)
    BY <1>1, <2>1, CheckedIsPublished
  <2> QED
    BY <1>3, <2>2 DEF WellFormed
<1> QED
  BY <1>2, <1>3 DEF UsableInAnyOrder

\* A published list without duplicates and malformed keys can be handed over in
\* any order, and one with them makes no anchor, whatever is handed over, for
\* lists of any length (witness_set_commitment, new_checked).
THEOREM PublishedAlwaysUsable == Spec => []UsableInAnyOrder
  BY PublishedIsUsable, AlwaysInv, PTL

\* The witness list and the cosignatures of a sample.
LEMMA SampleQuorum ==
    ASSUME NEW l \in Logs,
           Cardinality({i \in DOMAIN SampleWitnesses :
               SampleWitnesses[i] \in Signers(Emitted(l).sth)}) >= 2
    PROVE  VerifyFull(Emitted(l).policy, Emitted(l).cosignatures, Signers(Emitted(l).sth))
<1> DEFINE list == [i \in DOMAIN SampleWitnesses |-> [id |-> i - 1, key |-> SampleWitnesses[i]]]
           bundle == [i \in DOMAIN SampleWitnesses |->
                          [witness_id |-> i - 1, key |-> SampleWitnesses[i]]]
           signers == Signers(Emitted(l).sth)
<1>1. /\ DOMAIN SampleWitnesses = 1..Len(SampleWitnesses)
      /\ Len(SampleWitnesses) \in Nat /\ Len(SampleWitnesses) <= U32
      /\ \A i \in DOMAIN SampleWitnesses :
             SampleWitnesses[i] \in Keys /\ i \in Nat /\ i - 1 \in Ids
  BY ClientSessionsAssumption, WitnessSetAssumption DEF Ids
<1>2. /\ Emitted(l).policy.list = list /\ Emitted(l).policy.threshold = 2
      /\ Emitted(l).cosignatures = bundle
  BY DEF Emitted
<1>3. /\ DOMAIN list = DOMAIN SampleWitnesses /\ DOMAIN bundle = DOMAIN SampleWitnesses
      /\ \A i \in DOMAIN SampleWitnesses :
             /\ list[i] = [id |-> i - 1, key |-> SampleWitnesses[i]]
             /\ list[i].id = i - 1 /\ list[i].key = SampleWitnesses[i]
             /\ bundle[i].witness_id = i - 1 /\ bundle[i].key = SampleWitnesses[i]
  OBVIOUS
<1> HIDE DEF list, bundle, signers
<1>4. DistinctIds(list) /\ KeysParse(list)
  BY <1>1, <1>3, WitnessSetAssumption DEF KeysParse, DistinctIds
<1>5. list \in ListsOver(Ids)
  <2>1. \A i \in 1..Len(SampleWitnesses) :
            [id |-> i - 1, key |-> SampleWitnesses[i]] \in [id : Ids, key : Keys \cup {MalformedKey}]
    BY <1>1
  <2> QED
    BY <1>1, <2>1 DEF ListsOver, list
<1>6. Truncated(list) = list
  <2>1. \A i \in DOMAIN SampleWitnesses : (i - 1) % U32 = i - 1
    BY <1>1, SmallIsNotCut
  <2>2. \A i \in DOMAIN list : [list[i] EXCEPT !.id = @ % U32] = list[i]
    BY <1>3, <2>1
  <2>3. list = [i \in DOMAIN list |-> list[i]]
    BY DEF list
  <2> QED
    BY <2>2, <2>3 DEF Truncated
<1>7. Tally(list, bundle, signers) = Cardinality(Signing(list, signers))
  <2>1. IsFiniteSet(DOMAIN bundle)
    BY <1>1, <1>3, FS_Interval
  <2>2. \A i \in Signing(list, signers) : \E k \in DOMAIN bundle :
            bundle[k].witness_id = list[i].id /\ bundle[k].key = list[i].key
    BY <1>3 DEF Signing
  <2> QED
    BY <1>4, <1>5, <2>1, <2>2, QuorumIsCounted
<1>8. Signing(list, signers) = {i \in DOMAIN SampleWitnesses : SampleWitnesses[i] \in signers}
  BY <1>3 DEF Signing
<1>9. ParseWitnesses(list)
  BY <1>4, <1>6 DEF ParseWitnesses
<1> QED
  BY <1>2, <1>6, <1>7, <1>8, <1>9 DEF VerifyFull, FreshIngest, signers

\* The head and the root of a sample, once there is a leaf.
LEMMA SampleHead ==
    ASSUME TypeOK, NEW l \in Logs, leaves[l] # <<>>
    PROVE  /\ ReceiptExists(Emitted(l).sth)
           /\ VerifyJson(Emitted(l).trusted_root, Emitted(l).sth)
<1>1. leaves[l] \in Federation!Roots
  BY DEF TypeOK, Federation!TypeOK
<1>2. leaves[l] \in Seq(Measurements)
  BY <1>1, RootsAreSequences DEF Federation!Roots, Federation!Sizes, Roots, Sizes
<1>3. Emitted(l).sth.root = SubSeq(leaves[l], 1, Len(leaves[l]))
  BY DEF Emitted, Federation!Current, Federation!HeadOf
<1>4. Emitted(l).sth.root = leaves[l]
  BY <1>2, <1>3
<1>5. Emitted(l).trusted_root = Emitted(l).sth.root
  BY DEF Emitted
<1> QED
  BY <1>4, <1>5 DEF ReceiptExists, VerifyJson

\* The sample that pqtl-emit writes verifies, with its root and with its witness
\* list, for any number of witnesses whose ids fit 32 bits and whatever was
\* appended before.
THEOREM SamplesAlwaysVerify == Spec => []SamplesVerify
<1>1. TypeOK => SamplesVerify
  BY SampleQuorum, SampleHead DEF SamplesVerify
<1> QED
  BY <1>1, SessionTypesCorrect, PTL
=============================================================================
