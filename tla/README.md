# A verification of PQ-Attest-Transparency

TLA+ models of the attestation-transparency library (`crates/pqtl-core`), its
keyserver and demo programs (`crates/pqtl-cli`), its browser verifier
(`crates/pqtl-wasm`) and its Solana program (`onchain/programs/sth-anchor`), the TLC
configurations that check them, and TLAPS proofs about all of them: the log and its
proofs down to the bits, federation, pinning, sessions, both ledgers, receipts, and
receipts on top of the federation. Line numbers below are of
`crates/pqtl-core/src/lib.rs` unless another file is named.

## What the system promises

A provider runs builds on attested hardware. The hash of a build (its *measurement*)
is appended to a transparency log; the operator signs tree heads (size, Merkle root).
A session is given a receipt: a hardware quote that binds the measurement to the
session's nonce and KEM key, a proof that the measurement is in a signed tree, and the
signed head. The client verifies it alone. The provider is *not* trusted; the point is
non-equivocation, that nobody can be shown a private history. A head counts only when
it is anchored: by a quorum of witnesses, or on a public ledger.

## Inventory

| component | state | operations | made correct by |
|---|---|---|---|
| log (`mod log`, 833-1095) | a vector of leaf hashes | `append`; queries `root`, `find`, `inclusion_proof`, `consistency_proof`; pure `verify_inclusion`, `verify_consistency` | proofs accepted exactly when true, for every shape of tree and every claimed size |
| `Witness` (541-591) | the last (size, root) it cosigned | `cosign` | it never vouches for two histories, though it remembers one head |
| `WitnessAnchor` (596-714) | trusted witnesses, threshold, two tables of trusted heads | `new`, `ingest`, `is_anchored` (`anchor` does nothing) | a quorum behind every head; no split view; nothing forgotten |
| witness-set pinning (524-536, 620-640) | none | `witness_set_commitment`, `new_checked` | the provider cannot weaken the policy that was published |
| `MockLedger`, `ChainAnchor` (750-827) | root per epoch, one witness-set commitment | `submit`, `anchor`, `submit_witness_set`, reads | write-once; answers stay true |
| Solana program (`onchain/`) | one account per (authority, epoch), one per authority | `anchor_root`, `anchor_witness_set` | write-once under lost, reordered and repeated transactions |
| receipts (`verify_receipt` 1125-1164; `keyserver_issue`, `crates/pqtl-cli/src/main.rs` 30-50) | none | issue, verify | parts of different sessions, trees and operators cannot be combined |
| quotes, KEM (217-271, 402-497) | key pairs | `quote`, `encapsulate`, `decapsulate`, `derive_session_key` | only the attested session gets the key |
| wasm verifier (`crates/pqtl-wasm/src/lib.rs`) | none between calls | `verify_receipt_full`, `verify_receipt_json` | no call accepts without a quorum, though none remembers another |
| `LocalAnchor` (297-309) | a set of roots | `anchor`, `is_anchored` | its one root vouches for one history |
| CLI demo, sample emitter (`main.rs`, `emit.rs`) | the objects above | courier loops, sample bundle | what they produce is accepted |
| signatures (`mod slh`), `PlaceholderSigner` | keys | sign, verify | third-party code or a test stand-in |
| benchmarks, web page, smoke script | none | | compose the library |

How they interact: no component calls another over a wire in this repository. Every
message (head, proof, cosignature, list of witnesses, receipt) is carried by the
operator or provider, who may show anything he has to anyone, in any order, repeatedly
or never. There is no thread, no scheduler and no persistence in `src/`; what is
concurrent is the *parties*: each handler runs alone on its own object (`&mut self`),
and the hard behaviour lies in the order in which an untrusted courier visits them. The
Solana program is the exception: there, transactions are delayed, reordered, dropped
and sent again.

`PROJECT.json` lists the hazards at their lines. The ones that shaped the properties:
witnesses that take their first head on trust and remember only the last; heads that
reach a client late, or state the size of another tree; proofs issued for a size the
log has outgrown; two tables that must agree; a quorum counted over untrusted input,
against a list that arrives in any order and with ids and thresholds cut to 32 bits;
anchors that are made anew for every call; epochs decided by whoever comes first;
retries after lost answers; index arithmetic over incomplete trees, up to shift counts
that reach the width of the type; and receipts assembled from parts that each check
only pairwise.

## Modules

    Merkle ── TransparencyLog ── MCTransparencyLog        bit-level log and proofs
                      ┊ (justifies)
    TreeHeads ─┬─ Witnessing ─┬─ MCWitnessing, MCMixedClients, MCCatchingUp
               │              └─ WitnessedReceipts        receipts over the federation
               ├─ OneHistory    abstract: what the federation promises
               ├─ ChainAnchor ── MCChainAnchor
               ├─ Receipts ── MCReceipts                  (in WitnessedReceipts by INSTANCE)
               └─ ClientSessions ── MCClientSessions      (with Witnessing by INSTANCE)
    WitnessSet ───────┘
    WriteOnce                   abstract: what a ledger promises
    SthAnchorProgram ── MCSthAnchorProgram

Next to each of TransparencyLog, TreeHeads, Witnessing, ClientSessions, ChainAnchor,
SthAnchorProgram, Receipts and WitnessedReceipts stands a module `...Proofs` with its
theorems; those about WitnessSet are in ClientSessionsProofs, which uses them, and those
about Merkle in TransparencyLogProofs. TreeHeadsProofs holds the facts about roots,
prefixes and heads that the others share.

**Merkle** is `mod log`'s pure part. A hash is the term it was computed from, so
equality of hashes is equality of what was hashed. Everything else is the code:
`Split`, `Mth`, `Path`, `ConsSubproof`, and the replay with its bit arithmetic over
`Width`-bit words. A shift by the full width wraps (`Shr`), as it does in a build
without overflow checks. The code recurs on slices of the leaves; the model does so on
the length of a slice and the number of leaves before it (`Tree`, `PathIn`,
`ConsSubproofIn`), which makes them recursive functions, about which theorems can be
proved. An `Option` is the set of its values. **TransparencyLog** adds the state (`leaves`) for several log
objects and the queries. The log only grows, so whatever it issued earlier is a query
on a prefix of its leaves; a reader may hold any such answers at once.

**TreeHeads** is the interface the other modules use. A root is the sequence of
measurements under it, a consistency proof carries the two roots its path rebuilds.
A head and a proof also carry the sizes the operator *states*: nothing in the code ties
the size that is signed (`sth_signing_bytes`, 149) to the tree, so heads and proofs
come under the true sizes and under any of `FalseSizes`. What allows the abstraction is
checked on the bit-level trees, and proved for trees of every size:
`ProofsAreExtension` (between genuine heads some issued proof is accepted exactly if the
old tree is a non-empty prefix of the new), `ConsistencySound` (an issued path proves
nothing else under any sizes) and `ForgedPathsExtend` (nor does a path put together from
any hashes the operator knows).

**Witnessing** is the core. `last[w]` is `Witness::last`, `by_size[c]` and
`accepted[c]` are the tables of `WitnessAnchor`; `cosigs` are the signatures that
exist. `Cosign` is `cosign` with its guard `JoinsTo`; `Ingest` is `ingest`, with the
checks in the code's order as `HasQuorum`, `DoesNotEquivocate`, `ExtendsHighest`. The
operator has several logs (that is how he forks) and delivers any head he ever had,
any proof between two heads of one log, also those `consistency_proof` no longer
issues because the log grew, and any subset of the existing cosignatures. Colluding
witnesses sign anything at any time. A rejected call changes nothing and is no step.
`OfferCurrent` and `DeliverFirst` are the same handlers as an honest courier calls
them. **OneHistory** is the abstract specification: a set of trusted heads that grows
by heads consistent with all the others.

**WitnessSet** is the pure part of pinning: a policy is a list of (id, key) and a
threshold; `Commitment` is `witness_set_commitment` with its stable sort and its
threshold cut to 32 bits, `NewChecked` and `ParseWitnesses` are the checks of
`new_checked` and of `verify_receipt_full`, `Tally` is the counting loop of `ingest`
over a bundle of cosignatures that may repeat, lie about ids or not verify.

**ClientSessions** puts the two together for clients that keep no anchor between
calls. A *pinned* session reads the commitment from the ledger and is handed list and
threshold by the provider; a *scripted* one passes its own list to
`verify_receipt_full`; a *gossiping* one passes a root some session trusts to
`verify_receipt_json`. Logs and witnesses are those of Witnessing (`Federation`, an
instance without its clients). Which calls convince a session depends only on the
policy and on the keys that signed, so `ConvincedPinned` and `ConvincedScripted` say
for which of these the provider can find a list, a threshold and a bundle. `PolicyOf` is
a policy as its author wrote it, `EnforcedPolicy` what is left of it in a commitment.
`Emitted` is the sample of `emit.rs`: head, cosignatures, witness list, threshold, root.

**ChainAnchor** is `MockLedger` under a `ChainAnchor`, with one or more logs
publishing on it. `acks`, `set_acks` and `relied` record what callers were told.
**SthAnchorProgram** is the Solana program: `AnchorRoot` and `AnchorWitnessSet` are
the instructions, `CanInit` the `init` constraint, `EntryAddress` the seeds, `Entries`
and `WitnessSets` the accounts; `Send`, `Expire` and `Hear` are the chain around it and
external. **WriteOnce** is the abstract table both implement.

**Receipts** has the keyserver's log, the quotes the hardware has signed, for any build and
any bytes as a key (`KemPublicKeys`, `Malformed` among them), and sessions that verify. `KeyserverIssue` is `keyserver_issue`; `VerifyReceipt` is
`verify_receipt`, one operator per check. `Accept` lets the provider choose every part
of the receipt freely: any quote, key, ciphertext, audit path and head, of any log.
`ClientKey` is what the client derives afterwards. The build is one it names itself
(`&honest`, `main.rs` 100), not the one in the receipt: `verify_receipt` accepts any build
that is attested and logged, and compares it with nothing.
The anchor is any one whose heads form one history, which is what OneHistory says of
the federation.

**WitnessedReceipts** composes the two, as scenario 5 of the demo does: every session has
a `WitnessAnchor` of its own and verifies with that one (`Verify`), while the operator
appends, signs and courts the witnesses (`Federate`). It extends Witnessing, where a
client is a session, and instantiates Receipts, where the anchor is what all sessions
trust together (`Trusting`); each step is one step of either or of both. It has no run:
within bounds TLC gets through, the product has only one leaf per log. Its handlers are
those the runs of the parts check, and its theorems have no bound.

Operators marked *Fault* are plausible mistakes in the operator that follows them.
No specification uses them; each property is shown to notice one.

## What the runs check

Passing runs:

| run | instance | shows |
|---|---|---|
| `log` | two logs to 5 leaves, two measurements, 4-bit words | `ConsistencyComplete`, `InclusionComplete`: what a log issues is accepted. `ConsistencySound`, `InclusionSound`: a path it issued proves nothing false, for *all* claimed indices and sizes. `ProofsAreExtension`, `ForgedPathsExtend`: the two facts TreeHeads rests on. `EveryShapeVerifies`: completeness after three leaves more, to size 8 |
| `mixed_clients` | two logs to 2 leaves, 4 witnesses, 1 colluding, clients 3-of-4, 2-of-2, and threshold 0 | `HonestCosignsOneHistory`, `LastDominates`, `TrustNeedsQuorum`, `NoSplitView`, and `ImplementsOneHistory` |
| `catching_up` | two logs to 2 leaves, 2 honest witnesses, clients 1-of-2 and 2-of-2, fair courier | with no overlap at all: `TablesAgree`, `AnchorsOnlyExtend`, `FollowersCanCatchUp`; and live: `WitnessesCatchUp`, `OneLogConvinces` |
| `chain_epochs` | two logs to 2 leaves with false sizes, two commitments | `EpochsAreWriteOnce` (refinement), `ReliedHeadsStand`, `AnswersStand` |
| `solana` | 2 authorities, 2 epochs, 3 transactions | `EntriesAreWriteOnce` (refinement), `EntriesHaveOneAuthor`, `WitnessSetsHaveOneAuthor` |
| `receipts` | two sessions, two logs of the operator and a stranger's, to 2 leaves with false sizes, one release | `SessionsShareOneRecord`, `OperatorIsAccountable`, `QuotesAreNotReused`, `KeysAreNotRetargeted`, `IssuedReceiptsWork`; and in `TypeOK`, that no malformed KEM field is accepted, though one is quoted |
| `sessions` | one session of each kind, 2 honest keys and a colluder, four policies to publish, logs to 2 leaves with false sizes | `TrustIsGrounded`: no list, threshold, id or bundle convinces without a quorum of somebody's own policy. `SessionsShareOneHistory`: overlap of the policies in force is enough, although no call remembers another. `QuorumConvinces`, `UsableInAnyOrder`, `SamplesVerify`: and a quorum does convince |

Runs that end in a violation, each of a statement the repository makes:

| run | statement | what happens |
|---|---|---|
| `minority_colluder` | fewer than `threshold` colluding witnesses are harmless (`THREAT-MODEL.md` 322-324) | three witnesses, threshold 2, one colluder: the two honest ones are started on two histories, and each history gets its quorum. What is needed is overlap in an *honest* witness, `2 * threshold > witnesses + colluders` |
| `late_old_head` | a trusted head is "consistent with what the client already trusts" (593-594) | a smaller head at a fresh size is accepted without proof (688) |
| `chain_forks` | "one public history" (`THREAT-MODEL.md` 135), "no witness federation" (`docs/CHAIN-ANCHOR.md` 6) | epochs are compared only with themselves (764): heads of two histories at two sizes are both anchored |
| `solana_retry` | the program "mirrors `Ledger` exactly" (`sth-anchor/src/lib.rs` 10) | `submit` is idempotent, `init` is not: a retry after a lost answer is refused |
| `weakened_threshold` | "a substituted set OR a weakened threshold is detected" (521-523) | the commitment holds `threshold as u32` (529): 2^32 + 1 is published, 1 is handed over and passes (in the instance, 4 and 1 with `U32` = 3). Only a threshold no list can meet is that large; one its list can meet stands as written (`TrustIsGrounded`) |

A witness that starts from the head of the *empty* log is stuck for good, since no
proof is issued from size 0 (1003) although `verify_consistency` would accept one
(1063). `FollowersCanCatchUp` states this as the exception it is.

Two more remarks of the repository say more than the code does, and have no run of their
own. `verify_receipt_full` verifies "that the quorum does not equivocate"
(`crates/pqtl-wasm/src/lib.rs` 95-96) only within one call, since the anchor is new in every
call (181): a colluding quorum gets two roots of one size accepted in two. And the session
key is bound "to the attested measurement" (`THREAT-MODEL.md` 178) only if the client
derives it for the build in the receipt it accepted: a receipt that attests another logged
build, with the ciphertext released for the build the client names, gives the keyserver's
key. `KeysAreNotRetargeted` therefore speaks of the build the client names.

### Bounds

Two measurements and two logs are enough to fork; two leaves let heads differ in size
and in content, and arrive below, at and above the highest trusted one. The proofs
remove these bounds. For the log, five leaves is the first size
with an incomplete tree over a complete one of two levels; with 4-bit words claimed
sizes go to 15, beyond half the range, where shifts wrap; `EveryShapeVerifies` adds the
incomplete subtrees at every level to size 8. `ForgedPathsExtend` takes paths of up to
three hashes, as long as any between trees of four leaves, and sizes up to ten. No log
reaches half the range of its integers (`LogAssumption`): with 64 bits that is 2^63
leaves.

`FalseSizes` is one wrong size (2, or 1 in `sessions`), which can be too large for one
tree and too small for another. It is empty in the runs of Witnessing, whose theorems
hold for every `FalseSizes`. `U32` stands for 2^32 and is 3 in `sessions`, so that ids
and thresholds of the instance overflow it: the policies there contain a threshold and
an id that are something else in 32 bits, an id listed twice and a malformed key.
`MaxList` and `MaxBundle` let the provider hand over every list and every bundle of up
to two entries: with two witnesses one can be repeated, mislabelled or put in front.
`Usize`, the values of a threshold in an anchor, is 6 there, twice `U32`. `MaxLeaves`
bounds the leaves of all logs of `receipts` together: three let one log fork from
another and a third party have its own. `MaxQuotes`, `MaxIssued`, `Txs` count what the
environment does: quotes to swap, one release to retarget, two transactions that race
and a third that repeats. Bounds are guards on `append`, `quote`, `issue` and `send`, or
the ranges of what is handed over. Symmetry is used over logs, measurements and parties
that play the same role, in runs without liveness.

A model that reaches its bounds stops, and so may the system: nobody is obliged to
append or publish. So runs do not check deadlock.

### Fairness

The safety properties assume none, and nothing in the library schedules anything; the
code that calls it does. The demo and the emitter append, offer the current head to
*every* witness, and hand what was cosigned to a new anchor (`main.rs` 173-183 and
214-227, `emit.rs` 38-46; the wasm verifier, 181-182, does the last part). Each does so
once, for witnesses and anchors that have seen nothing, and passes no proof. `Fairness`
takes from them that nobody is skipped, and asks for more: that an honest operator *goes
on* doing it when his log has grown. It is weak fairness of `OfferCurrent` for each honest
witness and log, and of `DeliverFirst` for each client and log. A witness who has signed
before is offered the head with the proof `consistency_proof` issues; that is done only in
the test of `cosign` (1476-1486), by no program. A client is delivered to only while it
trusts nothing, without a proof, as in the programs: no caller here takes an anchor from
one head to the next, so of a client that keeps its anchor while the log grows nothing is
claimed. Weak fairness is enough because the bounded logs stop growing; it says nothing of
a courier who is outrun for ever, of colluding witnesses, or of heads that are not
current. Two properties use it: `WitnessesCatchUp`, and `OneLogConvinces`, which says that
the heads some witnesses skipped cost nothing in the end, if there is only one log: every
client comes to trust a head, and the quorum of every client comes to stand behind the
current one, for the sessions still to come. `FollowersCanCatchUp` states what the
code owes a follower without fairness, as enabledness.

## What is proved

Eight modules, checked by TLAPS with no obligation left out, for any sets of logs,
witnesses, keys, clients, sessions, nonces, authorities, transactions and measurements,
any `MaxSize`, `Width` and `FalseSizes`, and any witness lists and thresholds:

| module | theorem | states |
|---|---|---|
| `TransparencyLogProofs` | `TypeCorrect` | `Spec => []TypeOK` |
| | `MthInjective` | equal roots have equal leaves, for trees of any sizes |
| | `ConsistencyMeansPrefix` | whatever path and sizes `verify_consistency` accepts between two roots, the old leaves are a prefix of the new |
| | `ConsistencyIsSound`, `ForgedPathsProveNoMore` | `[]ConsistencySound`, `[]ForgedPathsExtend` |
| | `InclusionMeansMembership` | whatever path, index and size `verify_inclusion` accepts, the leaf is in the tree, and at that index if the size is true |
| | `InclusionIsSound` | `Spec => []InclusionSound` |
| | `InclusionWorks`, `ConsistencyWorks` | audit paths of all leaves, and consistency proofs from all sizes, are accepted, whatever the shape of the tree |
| | `InclusionIsComplete`, `ConsistencyIsComplete` | `[]InclusionComplete`, `[]ConsistencyComplete` |
| | `ProofsMeanExtension` | `Spec => []ProofsAreExtension`, which TreeHeads rests on |
| | `EveryShapeIsVerified` | `Spec => []EveryShapeVerifies`, if three more leaves fit the integers |
| `WitnessingProofs` | `TypeCorrect` | `Spec => []TypeOK` |
| | `LastAlwaysDominates` | `Spec => []LastDominates` |
| | `HonestHistory` | `Spec => []HonestCosignsOneHistory` |
| | `QuorumBehindTrust` | `Spec => []TrustNeedsQuorum` |
| | `TablesAlwaysAgree` | `Spec => []TablesAgree` |
| | `AnchorsAlwaysExtend` | `Spec => AnchorsOnlyExtend`, whoever colludes |
| | `OverlapPreventsSplitView` | `QuorumOverlap` and `Spec` imply `[]NoSplitView` |
| | `MajorityOverlap` | `2 * threshold > witnesses + colluders` implies the overlap of two quorums of one set |
| | `FederationIsOneHistory` | `QuorumOverlap` and `Spec` imply `OneHistory!Spec` |
| | `FollowersPassTheChecks` | what `FollowersCanCatchUp` claims, as checks passed instead of steps enabled |
| `ClientSessionsProofs` | `CheckedIsPublished` | what `new_checked` accepts is the published list but for its order, and well formed; the threshold agrees modulo `U32` |
| | `AnyOrderIsChecked` | and it accepts a well-formed published list in any order |
| | `TallyIsBounded` | no bundle counts for more than the entries whose keys signed |
| | `QuorumIsCounted` | and one that has all their cosignatures, among anything else, counts for exactly those |
| | `SessionTypesCorrect` | `Spec => []TypeOK` |
| | `PinnedNeedsPublishedQuorum` | the keys that convince a pinned session are a quorum of the policy as published, if its list can meet its threshold, and of its low 32 bits in any case |
| | `ScriptedNeedsOwnQuorum` | cutting ids to 32 bits weakens no policy of a script |
| | `TrustIsAlwaysGrounded` | `Spec => []TrustIsGrounded` |
| | `SessionsAlwaysShareOneHistory` | `Spec => []SessionsShareOneHistory` |
| | `QuorumAlwaysConvinces`, `PublishedAlwaysUsable`, `SamplesAlwaysVerify` | `[]QuorumConvinces`, `[]UsableInAnyOrder`, `[]SamplesVerify` |
| `ChainAnchorProofs` | `ChainTypesCorrect` | `Spec => []TypeOK` |
| | `EpochsNeverChange` | `Spec => EpochsAreWriteOnce`, the refinement of WriteOnce |
| | `ReliedHeadsAlwaysStand`, `AnswersAlwaysStand` | `[]ReliedHeadsStand`, `[]AnswersStand` |
| | `AgreeingLogsShareOneHistory` | with true sizes, `[](LogsAgree => ReliedOneHistory)`: what `chain_forks` is missing |
| `SthAnchorProgramProofs` | `ProgramTypesCorrect` | `Spec => []TypeOK` |
| | `EntriesNeverChange` | `Spec => EntriesAreWriteOnce`, the refinement of WriteOnce |
| | `EntriesAlwaysHaveOneAuthor`, `WitnessSetsAlwaysHaveOneAuthor` | `[]EntriesHaveOneAuthor`, `[]WitnessSetsHaveOneAuthor` |
| `ReceiptsProofs` | `ReceiptTypesCorrect` | `Spec => []TypeOK` |
| | `SessionsAlwaysShareOneRecord`, `OperatorAlwaysAccountable`, `KeysNeverRetargeted`, `IssuedReceiptsAlwaysWork` | `[]` of `SessionsShareOneRecord`, `OperatorIsAccountable`, `KeysAreNotRetargeted`, `IssuedReceiptsWork` |
| | `QuotesNeverReused` | `[]QuotesAreNotReused`, if no two sessions have one nonce |
| `WitnessedReceiptsProofs` | `FederationServesReceipts` | `QuorumOverlap` and `WitnessedSpec` imply `ImplementsReceipts` |
| | `ReceiptsAlwaysWitnessed` | `WitnessedSpec => []ReceiptsAreWitnessed`, whoever colludes |
| | `NoBuildInSecret` | `FewerThanThresholdCollude` and `WitnessedSpec` imply `[]NoSecretBuild` |
| | `WitnessedSessionsShareOneRecord` | `QuorumOverlap` and `WitnessedSpec` imply `[]` of `SessionsShareOneRecord`, `OperatorIsAccountable`, `KeysAreNotRetargeted` |

The argument for the log. Trees, paths and replays are recursive functions, and the
theorems about them are inductions over sizes. The induction and recursion theorems of
the library take operators as parameters, which the provers here cannot instantiate; so
each induction looks at the *least* size at which its claim fails (`LeastNumber`), and
that a recursive function exists at all is proved once, for bodies that are named by
tuples (`Step`, `LooksBack`, `RecursionWorks`). A node, a leaf and the empty root are
different terms, so equal roots of equal shape have equal halves (`MthInjective`).

*Soundness* is about any path. `Joins` relates two roots if, whatever leaf sequences they
are roots of, the first sequence is a prefix of the second. The replay of
`verify_consistency` begins with one hash for both roots and adds to both, or to the new
one only on the right: each step keeps the relation (`ReplayJoins`), and the step in which
the new root gets a node that the old one does not makes the prefix a proper one. There is
such a step because the highest inner bit of `m - 1` is 0 when `m < n`. For
`verify_inclusion`, a replay that ends in the root of a tree has gone down that tree and
ended in one of its leaves, whatever the index; that the index is the right one when the
size is true needs that the bits of `index` and `size - 1` say where a tree of that size
splits (`Height`, `Side`).

*Completeness* goes along the same splits. `Height` and `Side` are what the verifier's
bits say of a leaf of a tree; at each split they are those of the leaf in its part, and
one sibling more (`FirstHalf`, `SecondHalf`), which is the recursion of `path`
(`InclusionWorks`). In a consistency proof the trailing zeros of the old size say how
high the complete subtree is that ends the old tree; there `cons_subproof` stops and the
replay starts. Above it the replay climbs the path of the old tree's last leaf, with all
siblings for the new root and the left ones alone for the old (`Lifts`, `Proves`,
`ConsistencyWorks`). All this holds for trees up to half the range of the integers:
beyond it the shift count can reach `Width` and wrap. `LogAssumption` says that no log
grows so far, and `EveryShapeIsVerified`, whose logs grow by three more, has it as a
hypothesis that the instance of `log` meets with equality. `ProofsMeanExtension` is
soundness one way and completeness the other.

The argument for the federation. *HonestCosignsOneHistory* is not inductive: `cosign`
looks at `last` only, so one must know that `last` stands for everything forgotten. The
strengthening is `LastIsHighest`, the property itself and `LastDominates`: every head a
witness ever cosigned is a prefix of its last, states no larger size, and is equal to
it if it states the same. A step keeps it because an accepted proof makes the old last a
prefix of the new one, whatever sizes it claims (`JoinedExtends`), and prefixes compose
(`PrefixTransitive`). False sizes are why `LastDominates` alone is not enough: of two
prefixes of one tree the one with the smaller size need not be the shorter. *TrustNeedsQuorum* is inductive since cosignatures are never withdrawn
(`CosignersGrow`) and the counted ones are a quorum (`CountedIsQuorum`). Given overlap,
the quorums behind two trusted heads share an honest witness, who cosigned both, so
they are consistent: *NoSplitView* needs neither check (b) nor (c) of `ingest`. Those
two protect a client whose quorum colludes: *AnchorsOnlyExtend* is proved from them and
the type invariant alone. The refinement follows from NoSplitView in the next state.

The argument for pinning. Equal commitments have equal entries (id, rank among equal
ids, key). `new_checked` rejects duplicates in the list it is *handed*; so every rank
there is 0, so every rank in the *published* list is 0, so that list has no duplicates
either, and the two are permutations of each other (`CheckedIsPublished`). Every id
that is counted names an entry whose key signed, so the tally is at most the number of
those (`TallyIsBounded`), which does not depend on the order (`SigningUpToOrder`). That
the threshold handed over is at least the published one cut to 32 bits is arithmetic
(`CutIsSmaller`). A list of distinct ids has at most `U32` entries (`DistinctListIsShort`),
so a threshold it can meet is at most `U32`, and then no other positive threshold with the
same low bits is smaller (`LowBitsAreEnough`; zero would be one, and `ingest` refuses it). `TrustIsGrounded` then is inductive together with the kinds of
sessions and the type of `published`, because signatures and quorums grow
(`SignersGrow`, `QuorumsStand`) and a published policy stays.

The argument for the sessions. To the witnesses the sessions are one more courier, so a
behaviour of ClientSessions is one of Witnessing without clients
(`SessionsFollowFederation`), and `HonestHistory` holds of it by instance. Behind two
accepted heads stand two quorums (`TrustIsGrounded`), which overlap in an honest key by
hypothesis, and that key cosigned both: the argument of the federation, although nobody
has an anchor to remember anything in. That a quorum also *convinces* is the other
direction of the counting: ids that are distinct name distinct entries, so the tally is
exactly the number of entries whose keys signed (`QuorumIsCounted`).

The argument for the ledgers. Both refine WriteOnce because every write is guarded by the
entry being empty. What callers were told stays true because of that and because every
answer, when given, agreed with the entry (`AnswersInv`). For the Solana program the
invariant (`AuthorInv`) ties each account to the executed transactions: an account exists
exactly if one ran, and it holds what that one said. No second one runs, because `init`
finds the account.

The argument for receipts. What `verify_receipt` checks is stable: quotes, anchored heads
and signable heads only grow (`WhatGrows`, `SignedStays`), so an accepted receipt passes
every check in every later state (`Verified`), and an issued one has in every later state
all that `verify_receipt` asks for but the anchoring (`Composed`). With the heads of the
anchor on one history (`AnchoredAgree`) this is inductive (`ReceiptsInv`), and the
properties follow inside one state. `KeysAreNotRetargeted` is injectivity of
`derive_session_key` plus implicit rejection, for whatever build the client names.

The argument for the composition. A verifying session does nothing to the federation, so
`WitnessedSpec` implies `Spec` and all theorems of WitnessingProofs hold of the sessions'
anchors. A step of the federation adds at most one head to what they trust together, and
by `NoSplitView` in the next state it is consistent with the rest: an `Anchor` step of
Receipts (`FederateAnchors`). So every theorem of ReceiptsProofs holds by instance. What
neither module can say alone is `Relied`: the receipt a session verified carries a head
that its *own* anchor trusts, of a tree that lists the build. With `TrustNeedsQuorum` it
gives `ReceiptsAreWitnessed`; with `LastDominates`, and an honest member in every quorum,
`NoSecretBuild`. That last theorem needs no overlap: that fewer than `threshold` collude,
too little against a split view (`minority_colluder`), is enough to leave a record.

The assumptions are the named ones of the modules: constants have their types, trusted
sets are finite, `None` is no head, root or proof (`NoneAssumption`), a malformed KEM field
is neither a key nor a ciphertext, and the sample has no more witnesses than there are
ids (`ClientSessionsAssumption`). TLC evaluates each on its instances.
`QuorumOverlap` is a hypothesis where stated, and `mixed_clients` evaluates it on its
instance; `WitnessedSessionsShareOneRecord` has the assumption of Receipts as one, too.

Only model-checked: liveness (`WitnessesCatchUp`, `OneLogConvinces`) and the ENABLED in
`FollowersCanCatchUp`, both out of the prover's reach. What the latter says of the checks
is proved as `FollowersPassTheChecks`.

## Assumptions and what is left out

* Hashes are injective and signatures ideal; the bytes that are hashed and signed are
  records, since all encodings in the code have fixed width or a length prefix.
* In TreeHeads the operator has a path for every pair of sizes he claims; the verifier
  may want a path of another shape. The models allow more than the code.
* A bad signature, an unknown id and a cosignature of another head are one thing in
  WitnessSet, a cosignature that does not verify. An integer that does not parse, and
  the syntax of hex and JSON, are not modelled: such a call answers no and keeps nothing.
* A receipt in ClientSessions is its head, and one that fits exists as soon as the tree
  is not empty; the other parts are in Receipts.
* A threshold that does not fit 32 bits is committed to modulo 2^32. `TrustIsGrounded`
  promises a pinned session the published threshold wherever the list is long enough for
  it; `PoliciesOverlap`, the premise of `SessionsShareOneHistory`, is about what is enforced.
* The timestamp and bump fields and the event of the Solana program are not read by
  anything and are left out; the chain does not reorganise.

Not modelled: the algorithms behind `mod slh` and X-Wing (third-party crates) and
`PlaceholderSigner` (tests); what the demo and the emitter print and write; benchmarks,
which measure; the web page and the smoke script, which pass one bundle to
`verify_receipt_full`. The page takes the list of witnesses from that very bundle
(`web/index.html` 87), so it shows the mechanism and promises nothing.

## Plan

Done: the log, the witness federation, both ledgers, receipts, pinning, sessions without
memory, heads under false sizes, receipts over the federation, liveness under a fair
courier; proofs of every safety property the runs check. Next, in this order:

1. Proofs about sessions that publish: from `PublishedAlwaysUsable` and
   `QuorumAlwaysConvinces`, that a pinned session is convinced by every published quorum,
   the converse of `PinnedNeedsPublishedQuorum`.
2. `QuorumOverlap` of the sessions from thresholds alone, as `MajorityOverlap` does it for
   one set of witnesses, for policies that share some of their keys.
3. Sessions on a ledger: Receipts with ChainAnchor as the anchor, under `LogsAgree`.
