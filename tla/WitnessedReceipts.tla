--------------------------- MODULE WitnessedReceipts ---------------------------
(***************************************************************************)
(* Receipts and the witness federation together: every session keeps a     *)
(* WitnessAnchor of its own and gives it to verify_receipt, as the second  *)
(* part of the demo does.  The logs are the same ones: what the keyserver  *)
(* appends is offered to the witnesses, and what it signs it puts in       *)
(* receipts, whether or not anybody has cosigned it yet.                   *)
(*                                                                         *)
(* The federation is Witnessing, with a client per session; its accepted   *)
(* is what the session's anchor trusts.  The receipts are Receipts, where  *)
(* the anchor is all that these trust together.                            *)
(***************************************************************************)
EXTENDS Witnessing

CONSTANTS Operated, Nonces, NonceOf, Malformed,    \* as in Receipts
          MaxLeaves, MaxQuotes, MaxIssued          \* its bounds

VARIABLES quotes, issued,   \* as in Receipts
          verified          \* verified[s]: the receipt session s verified last

federation == <<last, cosigs, by_size, accepted>>
service == <<quotes, issued, verified>>

\* What the anchors of all sessions trust together.
Trusting == UNION {accepted[s] : s \in Clients}

Service == INSTANCE Receipts WITH
    Sessions <- Clients, anchored <- Trusting, accepted <- verified

WitnessedInit == Init /\ Service!Init

\* TransparencyLog::append
AppendMeasurement(l, m) ==
    /\ AppendLeaf(l, m)
    /\ Service!AppendLeaf(l, m)

\* Witness::cosign and WitnessAnchor::ingest of what is offered.
Federate ==
    /\ \E sth \in OfferedHeads : \E proof \in ProofsTo(sth.tree_size) :
           \/ \E w \in Honest : Cosign(w, sth, proof)
           \/ \E s \in Clients, cosigners \in SUBSET Cosigners(sth) :
                  Ingest(s, sth, cosigners, proof)
    /\ UNCHANGED service

\* WitnessAnchor::is_anchored of the session's own anchor.
IsAnchored(s, sth) == sth \in accepted[s]

\* verify_receipt with that anchor.
Verify(s, quote, nonce, kem) ==
    /\ UNCHANGED federation
    /\ Service!Accept(s, quote, nonce, kem)
    /\ IsAnchored(s, verified'[s].sth)

WitnessedNext ==
    \/ \E l \in Logs, m \in Measurements : AppendMeasurement(l, m)
    \/ Federate
    \/ \E nonce \in Nonces, kem \in Service!KemPublicKeys, m \in Measurements :
           /\ UNCHANGED federation
           /\ \/ Service!Quote(nonce, kem, m)
              \/ \E l \in Operated : Service!KeyserverIssue(l, nonce, kem, m)
    \/ \E s \in Clients, quote \in Service!AnyQuote, nonce \in Nonces,
          kem \in Service!KemPublicKeys : Verify(s, quote, nonce, kem)

WitnessedSpec == WitnessedInit /\ [][WitnessedNext]_<<leaves, federation, service>>

-----------------------------------------------------------------------------
(* Properties.                                                             *)

\* The federation is an anchor as Receipts wants one: whatever sessions are
\* shown, by whomever and in whatever order, the heads their anchors trust
\* never leave one history, and all the rest of verify_receipt is unaffected.
ImplementsReceipts == Service!Spec

\* The parts add up: behind the receipt a session verified stands a quorum of
\* the session's own witnesses, whatever other sessions trust, and however the
\* calls of cosign, ingest and verify_receipt interleave.
ReceiptsAreWitnessed ==
    \A s \in Service!Accepting :
        Cosigners(verified[s].sth) \cap Trusted[s] \in Quorums(s)

\* No build is served in secret, which is what the demo calls the real gain
\* (main.rs, scenario 5): the build in the receipt a session verified is on
\* record with some honest witness, in the one head he remembers, however much
\* was appended, signed and shown to him since.
NoSecretBuild ==
    \A s \in Service!Accepting :
        \E w \in Honest :
            last[w] # None /\ Service!InLog(verified[s].quote.measurement, last[w].root)
=============================================================================
