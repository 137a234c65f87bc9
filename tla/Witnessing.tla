------------------------------ MODULE Witnessing ------------------------------
(***************************************************************************)
(* The witness federation (`mod witness`): an operator with one or more    *)
(* log objects offers tree heads; witnesses cosign them; clients trust a   *)
(* head once a quorum of the witnesses they know has cosigned it.          *)
(*                                                                         *)
(* The processes share nothing but messages, and every message is in the   *)
(* hands of the operator, who may show any head he ever signed, with any   *)
(* proof and any cosignatures that exist, to anyone, in any order, again   *)
(* and again or never.  So heads, proofs and cosignatures in circulation   *)
(* are sets that only grow, and each handler picks its input from them.    *)
(* A rejected call changes nothing and is not a step.                      *)
(***************************************************************************)
EXTENDS TreeHeads

CONSTANTS Logs,        \* the operator's TransparencyLog objects
          Witnesses,   \* witness ids, one key each
          Colluding,   \* witnesses that sign whatever they are shown
          Clients,     \* WitnessAnchor objects, one per client session
          Trusted,     \* Trusted[c]: the witness ids client c was built with
          Threshold    \* Threshold[c]: the quorum client c was built with

ASSUME WitnessingAssumption ==
    /\ Colluding \subseteq Witnesses
    /\ Trusted \in [Clients -> SUBSET Witnesses]
    /\ Threshold \in [Clients -> Nat]
    /\ \A c \in Clients : IsFiniteSet(Trusted[c])

Honest == Witnesses \ Colluding

VARIABLES leaves,      \* leaves[l]: the measurements of log l
          last,        \* last[w]: the head witness w last cosigned, or None
          cosigs,      \* cosigs[w]: the heads honest witness w has cosigned
          by_size,     \* by_size[c][n]: the root client c trusts at size n
          accepted     \* accepted[c]: the heads client c trusts

vars == <<leaves, last, cosigs, by_size, accepted>>

Init ==
    /\ leaves = [l \in Logs |-> <<>>]
    /\ last = [w \in Witnesses |-> None]
    /\ cosigs = [w \in Witnesses |-> {}]
    /\ by_size = [c \in Clients |-> [n \in Sizes |-> None]]
    /\ accepted = [c \in Clients |-> {}]

-----------------------------------------------------------------------------
(* What the operator can hand out.                                         *)

\* Every head of a log as it is or was, also under a false size.
OfferedHeads ==
    UNION {UNION {SignableHeads(leaves[l], k) : k \in 0..Len(leaves[l])} : l \in Logs}

\* Every proof between two trees of one log.  The log itself never issues the
\* ones from size 0, which verify_consistency would accept.
OfferedProofs ==
    UNION {UNION {UNION {ClaimableProofs(leaves[l], k, n) : k \in 0..n} :
                      n \in 0..Len(leaves[l])} : l \in Logs}

\* What is worth showing along with a head of this size.  A proof to another
\* size is to both handlers as good as none.
ProofsTo(size) == {p \in OfferedProofs : p.second_size = size} \cup {None}

\* Fault: issues no proof when nothing was appended since.
ConsistencyProofOnlyIfGrown(l, first_size) ==
    IF first_size = 0 \/ first_size >= Len(leaves[l]) THEN None
    ELSE ProofBetween(leaves[l], first_size, Len(leaves[l]))

\* consistency_proof(first_size) of log l at its current size.
ConsistencyProof(l, first_size) ==
    IF first_size = 0 \/ first_size > Len(leaves[l]) THEN None
    ELSE ProofBetween(leaves[l], first_size, Len(leaves[l]))

\* The witnesses whose valid cosignature of head h exists or can be had.
Cosigners(h) == {w \in Witnesses : w \in Colluding \/ h \in cosigs[w]}

-----------------------------------------------------------------------------
(* The handlers.  An operator marked Fault is a plausible mistake in the    *)
(* one that follows it; the checks show that some property notices.        *)

\* TransparencyLog::append
AppendLeaf(l, m) ==
    /\ Len(leaves[l]) < MaxSize
    /\ leaves' = [leaves EXCEPT ![l] = Append(@, m)]
    /\ UNCHANGED <<last, cosigs, by_size, accepted>>

\* Fault: compares the sizes but does not replay the path.
JoinsSizesOnly(proof, size, root, sth) ==
    /\ proof # None
    /\ proof.first_size = size
    /\ proof.second_size = sth.tree_size

\* The proof joins the head remembered as (size, root) to the head sth.
JoinsTo(proof, size, root, sth) ==
    /\ proof # None
    /\ proof.first_size = size
    /\ proof.second_size = sth.tree_size
    /\ VerifyConsistency(proof, root, sth.root)

\* Fault: remembers only the root of what it signed.
CosignKeepsRootOnly(w, sth, proof) ==
    /\ last[w] # None => JoinsTo(proof, last[w].tree_size, last[w].root, sth)
    /\ last' = [last EXCEPT ![w] = sth.root]
    /\ cosigs' = [cosigs EXCEPT ![w] = @ \cup {sth}]
    /\ UNCHANGED <<leaves, by_size, accepted>>

\* Fault: remembers the first head it ever signed.
CosignKeepsFirst(w, sth, proof) ==
    /\ last[w] # None => JoinsTo(proof, last[w].tree_size, last[w].root, sth)
    /\ last' = [last EXCEPT ![w] = IF @ = None THEN sth ELSE @]
    /\ cosigs' = [cosigs EXCEPT ![w] = @ \cup {sth}]
    /\ UNCHANGED <<leaves, by_size, accepted>>

\* Witness::cosign: the first head is taken on trust, each later one only
\* with a proof that it extends the last.
Cosign(w, sth, proof) ==
    /\ last[w] # None => JoinsTo(proof, last[w].tree_size, last[w].root, sth)
    /\ last' = [last EXCEPT ![w] = sth]
    /\ cosigs' = [cosigs EXCEPT ![w] = @ \cup {sth}]
    /\ UNCHANGED <<leaves, by_size, accepted>>

\* Faults: counts witnesses the client does not know; is one short; wants one
\* too many; takes a quorum of zero.
CountsStrangers(c, cosigners) ==
    Threshold[c] # 0 /\ Cardinality(cosigners) >= Threshold[c]
OneShort(c, cosigners) ==
    Threshold[c] # 0 /\ Cardinality(cosigners \cap Trusted[c]) + 1 >= Threshold[c]
OneTooMany(c, cosigners) ==
    Threshold[c] # 0 /\ Cardinality(cosigners \cap Trusted[c]) > Threshold[c]
ZeroIsEnough(c, cosigners) ==
    Cardinality(cosigners \cap Trusted[c]) >= Threshold[c]

\* (a) A quorum of distinct trusted witnesses, and a quorum is never empty.
HasQuorum(c, cosigners) ==
    /\ Threshold[c] # 0
    /\ Cardinality(cosigners \cap Trusted[c]) >= Threshold[c]

\* Fault: forgets to look.
IgnoresEquivocation(c, sth) == TRUE

\* (b) No other root is trusted at this size.
DoesNotEquivocate(c, sth) == by_size[c][sth.tree_size] \in {None, sth.root}

IsHighest(c, size) ==
    /\ by_size[c][size] # None
    /\ \A n \in Sizes : by_size[c][n] # None => n <= size

\* (c) Past the highest trusted size, a proof must join the two heads.
ExtendsHighest(c, sth, proof) ==
    \A max_size \in Sizes :
        IsHighest(c, max_size) /\ sth.tree_size > max_size
            => JoinsTo(proof, max_size, by_size[c][max_size], sth)

\* WitnessAnchor::ingest of a CosignedSth that carries head sth and valid
\* cosignatures of the witnesses in cosigners.
Ingest(c, sth, cosigners, proof) ==
    /\ HasQuorum(c, cosigners)
    /\ DoesNotEquivocate(c, sth)
    /\ ExtendsHighest(c, sth, proof)
    /\ by_size' = [by_size EXCEPT ![c] = [@ EXCEPT ![sth.tree_size] = sth.root]]
    /\ accepted' = [accepted EXCEPT ![c] = @ \cup {sth}]
    /\ UNCHANGED <<leaves, last, cosigs>>

Next ==
    \/ \E l \in Logs, m \in Measurements : AppendLeaf(l, m)
    \/ \E sth \in OfferedHeads : \E proof \in ProofsTo(sth.tree_size) :
           \/ \E w \in Honest : Cosign(w, sth, proof)
           \/ \E c \in Clients, cosigners \in SUBSET Cosigners(sth) :
                  Ingest(c, sth, cosigners, proof)

Spec == Init /\ [][Next]_vars

-----------------------------------------------------------------------------
(* The courier of an honest operator.  Whatever else is offered to whom, he *)
(* goes through all witnesses with the head his log has now, and through    *)
(* all clients that trust nothing yet with what they cosigned, as pqtl-cli  *)
(* does, where a client is a fresh anchor and no ingest gets a proof.  Its  *)
(* witnesses are fresh too; that one who has seen a head before gets the    *)
(* proof the log issues is what the test of cosign does, and no program.    *)

Current(l) == HeadOf(leaves[l], Len(leaves[l]))

OfferCurrent(w, l) ==
    /\ leaves[l] # <<>>
    /\ Cosign(w, Current(l), IF last[w] = None THEN None
                             ELSE ConsistencyProof(l, last[w].tree_size))

DeliverFirst(c, l) ==
    /\ leaves[l] # <<>>
    /\ accepted[c] = {}
    /\ Ingest(c, Current(l), Cosigners(Current(l)), None)

Fairness ==
    /\ \A w \in Honest, l \in Logs : WF_vars(OfferCurrent(w, l))
    /\ \A c \in Clients, l \in Logs : WF_vars(DeliverFirst(c, l))

FairSpec == Spec /\ Fairness

-----------------------------------------------------------------------------
(* Properties.                                                             *)

TypeOK ==
    /\ leaves \in [Logs -> Roots]
    /\ last \in [Witnesses -> Heads \cup {None}]
    /\ cosigs \in [Witnesses -> SUBSET Heads]
    /\ by_size \in [Clients -> [Sizes -> Roots \cup {None}]]
    /\ accepted \in [Clients -> SUBSET Heads]

\* What makes a quorum worth anything: the sets of witnesses that can convince
\* client c, and that any two of them, of any two clients, share a witness
\* that does not collude.
Quorums(c) ==
    {Q \in SUBSET Trusted[c] : Threshold[c] # 0 /\ Cardinality(Q) >= Threshold[c]}

QuorumOverlap ==
    \A c, d \in Clients : \A Q \in Quorums(c), R \in Quorums(d) :
        Q \cap R \cap Honest # {}

\* An honest witness vouches for one append-only history: of any two heads it
\* ever cosigned, at whatever times and from whichever logs they came, the
\* smaller is a prefix of the larger, although the witness remembers only the
\* last (Witness::cosign).
HonestCosignsOneHistory ==
    \A w \in Honest : \A g, h \in cosigs[w] : Consistent(g, h)

\* No split view: no two clients, and no client at two times, trust heads of
\* different histories, although each one checks only its own quorum, and its
\* own highest head (WitnessAnchor::ingest).
NoSplitView ==
    \A c, d \in Clients : \A g \in accepted[c], h \in accepted[d] :
        Consistent(g, h)

\* The two tables of a WitnessAnchor agree: is_anchored, which reads accepted,
\* answers yes for a head exactly when by_size holds its root at its size.
TablesAgree ==
    \A c \in Clients : accepted[c] = {h \in Heads : by_size[c][h.tree_size] = h.root}

\* What a witness remembers dominates all it has forgotten: every head it ever
\* cosigned is a prefix of the last one, and the very same if it states the
\* same size, whatever sizes the operator stated (Witness::cosign overwrites
\* last).
LastDominates ==
    \A w \in Witnesses : \A h \in cosigs[w] :
        /\ last[w] # None
        /\ h.tree_size <= last[w].tree_size
        /\ IsPrefix(h.root, last[w].root)
        /\ h.tree_size = last[w].tree_size => h.root = last[w].root

\* A client trusts nothing on anybody's word: behind every head of accepted
\* stand cosignatures of a quorum of its own witnesses, whether the head came
\* first, in order, late or again (WitnessAnchor::ingest).
TrustNeedsQuorum ==
    \A c \in Clients : \A h \in accepted[c] :
        Cosigners(h) \cap Trusted[c] \in Quorums(c)

OneTrustedHistory ==
    INSTANCE OneHistory WITH trusted <- UNION {accepted[c] : c \in Clients}

\* The federation implements its abstract specification: what all clients
\* together trust grows by one head at a time, each consistent with all the
\* heads trusted before it, by whoever.
ImplementsOneHistory == OneTrustedHistory!Spec

\* What THREAT-MODEL.md assumes is enough for one history: that fewer than
\* threshold of the genuine witnesses collude.
FewerThanThresholdCollude ==
    \A c \in Clients : Cardinality(Trusted[c] \cap Colluding) < Threshold[c]

\* With that assumption alone no two clients trust heads of two histories.
MinorityCannotSplit == FewerThanThresholdCollude => NoSplitView

\* What the comment on WitnessAnchor says: a head is trusted only if it is
\* consistent with what the client already trusts, so all the heads that one
\* client trusts belong to one history.
TrustsConsistentHeads ==
    \A c \in Clients : \A g, h \in accepted[c] : Consistent(g, h)

\* Whoever colludes, a WitnessAnchor never replaces or forgets a root, and the
\* highest head it trusts only ever moves to an extension of itself (checks
\* (b) and (c) of ingest).
AnchorOnlyExtends ==
    \A c \in Clients, n \in Sizes :
        by_size[c][n] # None =>
            /\ by_size'[c][n] = by_size[c][n]
            /\ \A m \in Sizes :
                   IsHighest(c, n) /\ IsHighest(c, m)' =>
                       n <= m /\ IsPrefix(by_size[c][n], by_size'[c][m])

AnchorsOnlyExtend == [][AnchorOnlyExtends]_vars

\* A witness whose last head is that of the first k leaves of log l cosigns
\* the current head of l, given the proof l issues from k.
WitnessCatchesUp(l, k) ==
    \A w \in Honest : last[w] = HeadOf(leaves[l], k) =>
        ENABLED Cosign(w, Current(l), ConsistencyProof(l, k))

\* A client whose highest head is that of the first k leaves of log l trusts
\* the current head of l, given that proof and a quorum.
ClientCatchesUp(l, k) ==
    LET cosigners == Cosigners(Current(l))
    IN  \A c \in Clients :
            /\ IsHighest(c, k)
            /\ by_size[c][k] = HeadOf(leaves[l], k).root
            /\ cosigners \cap Trusted[c] \in Quorums(c)
            => ENABLED Ingest(c, Current(l), cosigners, ConsistencyProof(l, k))

\* Whoever follows a log from one of its non-empty heads can follow it on: the
\* proof the log issues makes an honest witness cosign the current head, and a
\* client whose quorum has cosigned it accept it, also when nothing was
\* appended since (consistency_proof against cosign and ingest).  The empty
\* head is the exception, and a lasting one: no proof is issued from size 0,
\* so who holds it never gets further by what the log issues.
FollowersCanCatchUp ==
    \A l \in Logs :
        /\ \A k \in 1..Len(leaves[l]) : WitnessCatchesUp(l, k) /\ ClientCatchesUp(l, k)
        /\ \A w \in Honest : last[w] = HeadOf(leaves[l], 0) =>
               ~ENABLED OfferCurrent(w, l)

\* A head some log has had, and not the empty one.
IsFollowed(h) ==
    h # None /\ \E l \in Logs : \E k \in 1..Len(leaves[l]) : h = HeadOf(leaves[l], k)

IsCurrent(h) == \E l \in Logs : h = Current(l)

\* Nobody is left behind once the logs stop growing: a witness that stands on a
\* genuine, non-empty head comes to stand on the current head of a log, even if
\* he was moved between forks, and heads were shown to him out of order.
WitnessesCatchUp == \A w \in Honest : <>[](IsFollowed(last[w]) => IsCurrent(last[w]))

\* Only log l is in use, and nobody stands on a head it has not had, or on the
\* empty one.
OnlyLog(l) ==
    /\ \A k \in Logs \ {l} : leaves[k] = <<>>
    /\ \A w \in Honest : last[w] # None => IsFollowed(last[w])
    /\ \A c \in Clients : \A h \in accepted[c] : IsFollowed(h)

\* A head that only some witnesses cosigned, or that was overtaken before it had
\* its quorum, may never convince anybody, but the history does: if there is only
\* one log, every client whose witnesses can make a quorum comes to trust a head
\* of it, and from some time on that quorum stands behind the current head, for
\* whoever asks next, whichever heads each witness skipped.
OneLogConvinces ==
    \A l \in Logs :
        []OnlyLog(l) /\ <>(leaves[l] # <<>>) =>
            \A c \in Clients : Trusted[c] \in Quorums(c) =>
                /\ <>(accepted[c] # {})
                /\ <>[](Cosigners(Current(l)) \cap Trusted[c] \in Quorums(c))
=============================================================================
