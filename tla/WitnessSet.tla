----------------------------- MODULE WitnessSet -----------------------------
(***************************************************************************)
(* Lists of witnesses and the bundles of cosignatures counted against      *)
(* them: witness_set_commitment, new_checked, the counting loop of ingest, *)
(* and how verify_receipt_full reads its list.                             *)
(*                                                                         *)
(* A policy is a list of (id, key) and a threshold.  Ids are u32, and so   *)
(* is the threshold in a commitment, while it is a usize in an anchor and  *)
(* the ids of a JSON list are u64.  U32 stands for 2^32, and Usize for     *)
(* that or 2^64.                                                           *)
(***************************************************************************)
EXTENDS Naturals, Sequences, FiniteSets

CONSTANTS U32,          \* the number of values of a u32
          Usize,        \* the number of values of a usize
          Keys,         \* SLH-DSA public keys
          MalformedKey  \* bytes that are not such a key

ASSUME WitnessSetAssumption ==
    /\ U32 \in Nat \ {0} /\ Usize \in Nat /\ U32 <= Usize
    /\ MalformedKey \notin Keys

Ids == 0..(U32 - 1)
Thresholds == 0..(Usize - 1)

\* Policies as they are written (ids of this set), and lists to hand over.
ListsOver(ids) == Seq([id : ids, key : Keys \cup {MalformedKey}])
PoliciesOver(ids) == [list : ListsOver(ids), threshold : Thresholds]

DistinctIds(list) == \A i, j \in DOMAIN list : list[i].id = list[j].id => i = j

\* SlhVerifier::from_bytes takes every key of the list.
KeysParse(list) == \A i \in DOMAIN list : list[i].key # MalformedKey

\* Duplicates of an id keep their order in a stable sort: rank 0 is the first.
Rank(list, i) == Cardinality({j \in 1..(i - 1) : list[j].id = list[i].id})

\* Fault: the hash is over the list as it comes.
CommitmentUnsorted(list, threshold) ==
    [threshold |-> threshold % U32, entries |-> list]

\* witness_set_commitment: a hash over the threshold, as a u32, and the list
\* sorted by id.
Commitment(list, threshold) ==
    [threshold |-> threshold % U32,
     entries |-> {<<list[i].id, Rank(list, i), list[i].key>> : i \in DOMAIN list}]

\* WitnessAnchor::new_checked makes an anchor of this policy.
NewChecked(list, threshold, expected) ==
    /\ DistinctIds(list)
    /\ Commitment(list, threshold) = expected
    /\ KeysParse(list)

\* verify_receipt_full takes this JSON list; Truncated is what it makes of it.
Truncated(json) == [i \in DOMAIN json |-> [json[i] EXCEPT !.id = @ % U32]]

ParseWitnesses(json) == KeysParse(json) /\ DistinctIds(Truncated(json))

\* A cosignature names a witness and was made with some key; under any other
\* key, or if that key never signed the head, SlhVerifier::verify refuses it.
Verifies(key, cosignature, signers) == cosignature.key = key /\ key \in signers

\* It is valid if it verifies under the first entry with this id.
IsValid(list, cosignature, signers) ==
    \E i \in DOMAIN list :
        /\ list[i].id = cosignature.witness_id
        /\ Rank(list, i) = 0
        /\ Verifies(list[i].key, cosignature, signers)

\* Faults: counts every valid cosignature; marks an id as seen although its
\* signature was no good.
TallyOfSignatures(list, bundle, signers) ==
    Cardinality({k \in DOMAIN bundle : IsValid(list, bundle[k], signers)})
TallyOfFirsts(list, bundle, signers) ==
    Cardinality({k \in DOMAIN bundle :
        /\ IsValid(list, bundle[k], signers)
        /\ \A j \in 1..(k - 1) : bundle[j].witness_id # bundle[k].witness_id})

\* seen.len() after the loop of ingest over a bundle of cosignatures.
Tally(list, bundle, signers) ==
    Cardinality({bundle[k].witness_id :
        k \in {j \in DOMAIN bundle : IsValid(list, bundle[j], signers)}})

\* The entries of a list whose keys signed.
Signing(list, signers) == {i \in DOMAIN list : list[i].key \in signers}

\* What the author of a policy means by a quorum: of the keys in his list, this
\* many signed, each counted as often as he listed it, and at least one.
IsQuorum(policy, signers) ==
    /\ Signing(policy.list, signers) # {}
    /\ policy.threshold <= Cardinality(Signing(policy.list, signers))
=============================================================================
