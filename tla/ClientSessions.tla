--------------------------- MODULE ClientSessions ---------------------------
(***************************************************************************)
(* Client sessions that keep no anchor from one receipt to the next, the   *)
(* way the browser verifier and the demo are called, over the witness      *)
(* federation.  Three kinds of session verify receipts:                    *)
(*   - a pinned one is handed a witness list and threshold by the provider *)
(*     and checks them against the commitment on the ledger (new_checked); *)
(*   - a scripted one passes its own list to verify_receipt_full;          *)
(*   - a gossiping one passes to verify_receipt_json a root that another   *)
(*     session trusts.                                                     *)
(*                                                                         *)
(* Of a receipt only the head matters here: all other parts, and that they *)
(* must fit, are in Receipts.  A head has a receipt that fits as soon as   *)
(* there is a measurement under it.                                        *)
(***************************************************************************)
EXTENDS TreeHeads, WitnessSet

CONSTANTS Logs,        \* the operator's TransparencyLog objects
          Colluding,   \* keys of witnesses that sign whatever they are shown
          Pinned, Scripted, Gossiping,   \* sessions, by kind
          Own,         \* Own[s]: the policy scripted session s passes
          Policies,    \* policies an operator may publish
          MaxList,     \* bound on the length of a list that is handed over
          MaxBundle,   \* bound on the number of cosignatures handed over
          SampleWitnesses   \* keys of the witnesses pqtl-emit makes, in order

ASSUME ClientSessionsAssumption ==
    /\ Colluding \subseteq Keys
    /\ Pinned \cap Scripted = {} /\ (Pinned \cup Scripted) \cap Gossiping = {}
    /\ Own \in [Scripted -> PoliciesOver(Nat)]
    /\ Policies \subseteq PoliciesOver(Ids)
    /\ None \notin Policies
    /\ MaxList \in Nat /\ MaxBundle \in Nat
    /\ SampleWitnesses \in Seq(Keys) /\ Len(SampleWitnesses) <= U32

Sessions == Pinned \cup Scripted \cup Gossiping

VARIABLES leaves, last, cosigs,   \* logs and witnesses, as in Witnessing
          published,   \* the policy whose commitment is on the ledger, or None
          accepted     \* accepted[s]: the heads of the receipts s verified

vars == <<leaves, last, cosigs, published, accepted>>

Federation ==
    INSTANCE Witnessing WITH
        Witnesses <- Keys, Clients <- {}, Trusted <- <<>>, Threshold <- <<>>,
        by_size <- <<>>, accepted <- <<>>

Init ==
    /\ leaves = [l \in Logs |-> <<>>]
    /\ last = [w \in Keys |-> None]
    /\ cosigs = [w \in Keys |-> {}]
    /\ published = None
    /\ accepted = [s \in Sessions |-> {}]

-----------------------------------------------------------------------------
(* What the provider can hand over.                                        *)

Lists == UNION {[1..n -> [id : Ids, key : Keys \cup {MalformedKey}]] : n \in 0..MaxList}

Bundles == UNION {[1..n -> [witness_id : Ids, key : Keys]] : n \in 0..MaxBundle}

\* The keys with a cosignature on this head.
Signers(sth) == Federation!Cosigners(sth)

\* Fault: in the list, not in the cosignatures, ids count from 1.
EmittedFromOne(l) ==
    [sth |-> Federation!Current(l),
     cosignatures |-> [i \in DOMAIN SampleWitnesses |->
                          [witness_id |-> i - 1, key |-> SampleWitnesses[i]]],
     policy |-> [list |-> [i \in DOMAIN SampleWitnesses |->
                              [id |-> i, key |-> SampleWitnesses[i]]],
                 threshold |-> 2],
     trusted_root |-> Federation!Current(l).root]

\* The sample that pqtl-emit writes for log l; the witnesses were offered its
\* current head, and one that refused has no valid cosignature.
Emitted(l) ==
    [sth |-> Federation!Current(l),
     cosignatures |-> [i \in DOMAIN SampleWitnesses |->
                          [witness_id |-> i - 1, key |-> SampleWitnesses[i]]],
     policy |-> [list |-> [i \in DOMAIN SampleWitnesses |->
                              [id |-> i - 1, key |-> SampleWitnesses[i]]],
                 threshold |-> 2],
     trusted_root |-> Federation!Current(l).root]

-----------------------------------------------------------------------------
(* The checks.                                                             *)

\* The lists and thresholds of which new_checked makes an anchor, against the
\* commitment to this policy.
Passing(policy) ==
    {handed \in [list : Lists, threshold : Thresholds] :
        NewChecked(handed.list, handed.threshold,
                   Commitment(policy.list, policy.threshold))}

\* WitnessAnchor::ingest of a head these keys signed, on an anchor that was
\* just made: nothing is trusted yet that checks (b) and (c) could look at.
FreshIngest(list, threshold, bundle, signers) ==
    threshold # 0 /\ Tally(list, bundle, signers) >= threshold

\* What a pinned session can be made to accept: the policies published and the
\* keys that signed, for which there is something to hand over.  Like the next
\* set a constant, so that TLC evaluates it once.
ConvincedPinned ==
    {<<call[1], call[2]>> : call \in
        {c \in Policies \X SUBSET Keys :
            \E handed \in Passing(c[1]), bundle \in Bundles :
                FreshIngest(handed.list, handed.threshold, bundle, c[2])}}

\* verify_receipt, as far as the head goes.
ReceiptExists(sth) == sth.root # <<>>

\* verify_receipt_full, up to the receipt.  Cosignatures are of the head in the
\* receipt: those of another are refused, and would not anchor it.
VerifyFull(policy, bundle, signers) ==
    /\ ParseWitnesses(policy.list)
    /\ FreshIngest(Truncated(policy.list), policy.threshold, bundle, signers)

\* The same for the scripted sessions.
ConvincedScripted ==
    {<<call[1], call[2]>> : call \in
        {c \in Scripted \X SUBSET Keys :
            \E bundle \in Bundles : VerifyFull(Own[c[1]], bundle, c[2])}}

\* verify_receipt_json, up to the receipt: the LocalAnchor holds this root
\* alone, and no size.
VerifyJson(trusted_root, sth) == sth.root = trusted_root

-----------------------------------------------------------------------------
(* Actions.                                                                *)

\* Fault: the threshold is published as it is committed.
SubmitTruncated(policy) ==
    /\ published = None
    /\ published' = [policy EXCEPT !.threshold = @ % U32]
    /\ UNCHANGED <<leaves, last, cosigs, accepted>>

\* Ledger::submit_witness_set: the first commitment stays.
SubmitWitnessSet(policy) ==
    /\ published = None
    /\ published' = policy
    /\ UNCHANGED <<leaves, last, cosigs, accepted>>

Trust(s, sth) ==
    /\ ReceiptExists(sth)
    /\ accepted' = [accepted EXCEPT ![s] = @ \cup {sth}]
    /\ UNCHANGED <<leaves, last, cosigs, published>>

VerifyPinned(s, sth) ==
    /\ <<published, Signers(sth)>> \in ConvincedPinned
    /\ Trust(s, sth)

VerifyScripted(s, sth) ==
    /\ <<s, Signers(sth)>> \in ConvincedScripted
    /\ Trust(s, sth)

VerifyGossiped(s, heard, sth) ==
    /\ VerifyJson(heard.root, sth)
    /\ Trust(s, sth)

FederationStep ==
    /\ \/ \E l \in Logs, m \in Measurements : Federation!AppendLeaf(l, m)
       \/ \E sth \in Federation!OfferedHeads :
             \E w \in Federation!Honest, proof \in Federation!ProofsTo(sth.tree_size) :
                 Federation!Cosign(w, sth, proof)
    /\ UNCHANGED <<published, accepted>>

Next ==
    \/ FederationStep
    \/ \E policy \in Policies : SubmitWitnessSet(policy)
    \/ \E sth \in Federation!OfferedHeads :
           \/ \E s \in Pinned : VerifyPinned(s, sth)
           \/ \E s \in Scripted : VerifyScripted(s, sth)
           \/ \E s \in Gossiping, heard \in UNION {accepted[t] : t \in Sessions} :
                  VerifyGossiped(s, heard, sth)

Spec == Init /\ [][Next]_vars

-----------------------------------------------------------------------------
(* Properties.                                                             *)

TypeOK ==
    /\ Federation!TypeOK
    /\ published \in Policies \cup {None}
    /\ accepted \in [Sessions -> SUBSET Heads]

Grounded == Pinned \cup Scripted

\* The policy a session goes by, as its author wrote it, on a ledger or in a
\* script.
PolicyOf(s) == IF s \in Pinned THEN published ELSE Own[s]

\* What is sure to be enforced of it: a commitment holds 32 bits of the threshold.
EnforcedPolicy(s) ==
    IF s \in Pinned THEN [published EXCEPT !.threshold = @ % U32] ELSE Own[s]

\* The list is long enough for the threshold.
CanBeMet(policy) == policy.threshold <= Len(policy.list)

\* Signers who may convince session s: a quorum of what is enforced, and of the
\* policy as it was written unless all its witnesses together are too few.
MayConvince(s, signers) ==
    /\ IsQuorum(EnforcedPolicy(s), signers)
    /\ CanBeMet(PolicyOf(s)) => IsQuorum(PolicyOf(s), signers)

\* Nobody is convinced by less than a quorum of witnesses somebody chose:
\* whatever list, threshold, order, ids or cosignatures the provider hands
\* over, the threshold that the author of the policy wrote, of the keys in his
\* list, signed the head.  Only of a threshold that his list cannot meet no more
\* than the low 32 bits are sure (WeakenedThresholdsAreDetected).  And behind a
\* root heard of, through however many sessions, stands such a head
\* (new_checked, verify_receipt_full, verify_receipt_json).
TrustIsGrounded ==
    /\ \A s \in Grounded : \A h \in accepted[s] : MayConvince(s, Signers(h))
    /\ \A s \in Gossiping : \A h \in accepted[s] :
           \E t \in Grounded : \E g \in accepted[t] : g.root = h.root

\* The policies sessions go by, and that any two sets of keys that convince
\* by them share an honest witness.
PoliciesInForce ==
    {EnforcedPolicy(s) : s \in IF published = None THEN Scripted ELSE Grounded}

PoliciesOverlap ==
    \A P, R \in PoliciesInForce : \A Q, S \in SUBSET Keys :
        IsQuorum(P, Q) /\ IsQuorum(R, S) => Q \cap S \cap Federation!Honest # {}

\* One history although no call remembers the one before: if the policies
\* overlap in honest witnesses, the roots all sessions ever accepted are
\* prefixes of each other, sizes included unless the root came by gossip,
\* which verify_receipt_json takes without a size.
SessionsShareOneHistory ==
    PoliciesOverlap =>
        \A s, t \in Sessions : \A g \in accepted[s], h \in accepted[t] :
            /\ IsPrefix(g.root, h.root) \/ IsPrefix(h.root, g.root)
            /\ s \in Grounded /\ t \in Grounded => Consistent(g, h)

WellFormed(list) == DistinctIds(list) /\ KeysParse(list)

\* A quorum convinces, whatever is mixed into the bundle: if the threshold of a
\* usable list signed a head, every bundle that has all their cosignatures, in
\* any order and among any that are not valid, is enough (the counting loop of
\* ingest).
QuorumConvinces ==
    \A policy \in PoliciesInForce, sth \in Federation!OfferedHeads :
        LET list == Truncated(policy.list)
            valid == {[witness_id |-> list[i].id, key |-> list[i].key] :
                          i \in {j \in DOMAIN list : list[j].key \in Signers(sth)}}
        IN  WellFormed(list) /\ policy.threshold # 0 /\ IsQuorum(policy, Signers(sth)) =>
                \A bundle \in Bundles : valid \subseteq Range(bundle) =>
                    FreshIngest(list, policy.threshold, bundle, Signers(sth))

\* The order of a published list does not matter: one without duplicates and
\* malformed keys can be handed over in any order, and one with them makes no
\* anchor for anybody, whatever is handed over (witness_set_commitment,
\* new_checked).
UsableInAnyOrder ==
    published # None =>
        IF WellFormed(published.list)
        THEN {[list |-> list, threshold |-> published.threshold] :
                  list \in {l \in Lists : /\ Len(l) = Len(published.list)
                                         /\ Range(l) = Range(published.list)}}
                 \subseteq Passing(published)
        ELSE Passing(published) = {}

\* The sample that pqtl-emit writes verifies: after the append there is a receipt
\* under its head, which verify_receipt_json accepts with the root of the sample,
\* and verify_receipt_full with its witness list and cosignatures, once two of
\* its witnesses have cosigned.
SamplesVerify ==
    \A l \in Logs :
        LET sample == Emitted(l)
        IN  leaves[l] # <<>> =>
                /\ ReceiptExists(sample.sth)
                /\ VerifyJson(sample.trusted_root, sample.sth)
                /\ Cardinality({i \in DOMAIN SampleWitnesses :
                                    SampleWitnesses[i] \in Signers(sample.sth)}) >= 2
                       => VerifyFull(sample.policy, sample.cosignatures,
                                     Signers(sample.sth))

\* What the comment on witness_set_commitment says: binding the threshold means
\* that a provider cannot weaken the quorum, so behind what a pinned session
\* accepts stands the threshold that was published.
WeakenedThresholdsAreDetected ==
    \A s \in Pinned : \A h \in accepted[s] : IsQuorum(published, Signers(h))
=============================================================================
