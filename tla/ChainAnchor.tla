----------------------------- MODULE ChainAnchor -----------------------------
(***************************************************************************)
(* Anchoring on a public ledger (`mod chain`): MockLedger, and the         *)
(* ChainAnchor over it that operators publish to and clients read.         *)
(*                                                                         *)
(* Several operators share the ledger, and each has a log of his own; one  *)
(* person with two logs is two of them.  A call is atomic: it has the      *)
(* ledger for itself (&mut self).  What the calls have answered is kept in *)
(* acks and relied, which no handler reads.                                *)
(***************************************************************************)
EXTENDS TreeHeads

CONSTANTS Logs,          \* the TransparencyLog objects that get published
          Commitments    \* witness-set commitments (witness_set_commitment)

ASSUME CommitmentsAssumption == None \notin Commitments

VARIABLES leaves,        \* leaves[l]: the measurements of log l
          entries,       \* entries[n]: the root committed at epoch n, or None
          witness_set,   \* the committed witness-set commitment, or None
          acks,          \* [sth, ok]: what submit has answered
          set_acks,      \* [commitment, ok]: what submit_witness_set answered
          relied         \* heads for which is_anchored has answered true

vars == <<leaves, entries, witness_set, acks, set_acks, relied>>

Init ==
    /\ leaves = [l \in Logs |-> <<>>]
    /\ entries = [n \in Sizes |-> None]
    /\ witness_set = None
    /\ acks = {}
    /\ set_acks = {}
    /\ relied = {}

AppendLeaf(l, m) ==
    /\ Len(leaves[l]) < MaxSize
    /\ leaves' = [leaves EXCEPT ![l] = Append(@, m)]
    /\ UNCHANGED <<entries, witness_set, acks, set_acks, relied>>

\* Every head of a log as it is or was, also under a false size.
OfferedHeads ==
    UNION {UNION {SignableHeads(leaves[l], k) : k \in 0..Len(leaves[l])} : l \in Logs}

\* Faults: submit writes over what it finds; stores the epoch with the root;
\* reports success without looking.
CommitOverwrites(epoch, root) == entries' = [entries EXCEPT ![epoch] = root]
CommitKeepsPair(epoch, root) ==
    entries' = IF entries[epoch] = None
               THEN [entries EXCEPT ![epoch] = <<epoch, root>>]
               ELSE entries
AlwaysTold(epoch, root) == TRUE

\* MockLedger::submit: the first root at an epoch stays.
Commit(epoch, root) ==
    entries' = IF entries[epoch] = None
               THEN [entries EXCEPT ![epoch] = root]
               ELSE entries

\* What it answers: committed, now or already.
Told(epoch, root) == entries[epoch] \in {None, root}

\* ChainAnchor::submit, whose answer the operator sees.
Submit(sth) ==
    /\ Commit(sth.tree_size, sth.root)
    /\ acks' = acks \cup {[sth |-> sth, ok |-> Told(sth.tree_size, sth.root)]}
    /\ UNCHANGED <<leaves, witness_set, set_acks, relied>>

\* Anchor::anchor of a ChainAnchor: the same, but the answer is dropped.
AnchorSth(sth) ==
    /\ Commit(sth.tree_size, sth.root)
    /\ UNCHANGED <<leaves, witness_set, acks, set_acks, relied>>

\* submit_witness_set
SubmitWitnessSet(commitment) ==
    /\ witness_set' = IF witness_set = None THEN commitment ELSE witness_set
    /\ set_acks' = set_acks \cup {[commitment |-> commitment,
                                   ok |-> witness_set \in {None, commitment}]}
    /\ UNCHANGED <<leaves, entries, acks, relied>>

IsAnchored(sth) == entries[sth.tree_size] = sth.root

\* A client checks a head (the last step of verify_receipt) and relies on it.
Check(sth) ==
    /\ IsAnchored(sth)
    /\ relied' = relied \cup {sth}
    /\ UNCHANGED <<leaves, entries, witness_set, acks, set_acks>>

Next ==
    \/ \E l \in Logs, m \in Measurements : AppendLeaf(l, m)
    \/ \E sth \in OfferedHeads : Submit(sth)
    \/ \E sth \in OfferedHeads : AnchorSth(sth)
    \/ \E sth \in OfferedHeads : Check(sth)
    \/ \E commitment \in Commitments : SubmitWitnessSet(commitment)

Spec == Init /\ [][Next]_vars

-----------------------------------------------------------------------------
(* Properties.                                                             *)

TypeOK ==
    /\ leaves \in [Logs -> Roots]
    /\ entries \in [Sizes -> Roots \cup {None}]
    /\ witness_set \in Commitments \cup {None}
    /\ acks \in SUBSET [sth : Heads, ok : BOOLEAN]
    /\ set_acks \in SUBSET [commitment : Commitments, ok : BOOLEAN]
    /\ relied \in SUBSET Heads

EpochTable == INSTANCE WriteOnce WITH table <- entries, Keys <- Sizes, Values <- Roots

\* The epochs of a MockLedger are a write-once table: whatever sequence of
\* submit and anchor calls, by whichever operators, no epoch ever changes.
EpochsAreWriteOnce == EpochTable!Spec

\* What clients were told stays true: of all the heads they ever relied on,
\* at whatever times, each is still the committed one, so no two have the
\* same size and different roots (is_anchored against submit).
ReliedHeadsStand ==
    /\ \A h \in relied : entries[h.tree_size] = h.root
    /\ \A g, h \in relied : g.tree_size = h.tree_size => g = h

\* What operators were told stays true: submit answered yes for exactly the
\* root that is now and always committed, and no for every other, however
\* often and in whatever order the same heads were submitted; and once a
\* witness set is published, the same holds of submit_witness_set.
AnswersStand ==
    /\ \A a \in acks : a.ok <=> entries[a.sth.tree_size] = a.sth.root
    /\ \A a \in set_acks : a.ok <=> witness_set = a.commitment

\* One public history, as THREAT-MODEL.md promises of an anchored log: of any
\* two heads clients rely on, the smaller is a prefix of the larger.
ReliedOneHistory == \A g, h \in relied : Consistent(g, h)
=============================================================================
