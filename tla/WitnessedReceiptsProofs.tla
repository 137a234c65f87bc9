----------------------- MODULE WitnessedReceiptsProofs -----------------------
(***************************************************************************)
(* Receipts and federation together, for any sessions, witnesses, logs,    *)
(* operators and bounds.                                                   *)
(*                                                                         *)
(* The argument: to the federation a verifying session does nothing, so    *)
(* what WitnessingProofs shows of clients holds of the sessions' anchors.  *)
(* To the receipts the federation is an anchor, so what ReceiptsProofs     *)
(* shows of any anchor holds of them.  What neither module can say is said *)
(* of both: a verified receipt rests on the session's own anchor (Relied). *)
(***************************************************************************)
EXTENDS WitnessedReceipts, WitnessingProofs

witnessed == <<leaves, federation, service>>

-----------------------------------------------------------------------------
(* The sessions are clients of the federation.                             *)

LEMMA SessionsFollowFederation == WitnessedSpec => Spec
<1>1. [WitnessedNext]_witnessed => [Next]_vars
  <2> SUFFICES ASSUME [WitnessedNext]_witnessed
               PROVE  Next \/ UNCHANGED vars
    OBVIOUS
  <2>1. CASE \E l \in Logs, m \in Measurements : AppendMeasurement(l, m)
    BY <2>1 DEF AppendMeasurement, Next
  <2>2. CASE Federate
    BY <2>2 DEF Federate, Next
  <2>3. CASE UNCHANGED <<leaves, federation>>
    BY <2>3 DEF federation, vars
  <2>4. QED
    BY <2>1, <2>2, <2>3
       DEF WitnessedNext, witnessed, Verify, Service!Quote, Service!KeyserverIssue,
           Service!Accept
<1>2. QED
  BY <1>1, PTL DEF WitnessedSpec, WitnessedInit, Spec, witnessed

-----------------------------------------------------------------------------
(* The federation is an anchor of the receipts.                            *)

LEMMA OfferedAreHeadsOf == Service!HeadsOf(Logs) = OfferedHeads
BY DEF OfferedHeads, SignableHeads, Service!HeadsOf, Service!SignableHeads

\* A step of the federation is a head more for the anchor, or nothing.
LEMMA FederateAnchors ==
    ASSUME TypeOK, NoSplitView', Federate
    PROVE  \/ \E sth \in Service!HeadsOf(Logs) : Service!Anchor(sth)
           \/ UNCHANGED Service!vars
<1>1. ASSUME NEW s \in Clients, NEW sth \in OfferedHeads, NEW cosigners, NEW proof,
             Ingest(s, sth, cosigners, proof)
      PROVE  Service!Anchor(sth)
  <2>1. /\ accepted'[s] = accepted[s] \cup {sth}
        /\ \A t \in Clients : t # s => accepted'[t] = accepted[t]
        /\ UNCHANGED leaves
    BY <1>1 DEF Ingest, TypeOK
  <2>2. Trusting' = Trusting \cup {sth}
    BY <2>1 DEF Trusting
  <2>3. ASSUME NEW g \in Trusting
        PROVE  Service!Consistent(g, sth)
    <3>1. PICK t \in Clients : g \in accepted[t]
      BY DEF Trusting
    <3>2. g \in accepted'[t] /\ sth \in accepted'[s]
      BY <2>1, <3>1
    <3>3. Consistent(g, sth)
      BY <3>2 DEF NoSplitView
    <3>4. QED
      BY <3>3 DEF Consistent, Service!Consistent, IsPrefix, Service!IsPrefix
  <2>4. UNCHANGED service
    BY DEF Federate
  <2>5. QED
    BY <2>1, <2>2, <2>3, <2>4 DEF Service!Anchor, service
<1>2. ASSUME NEW w, NEW sth, NEW proof, Cosign(w, sth, proof)
      PROVE  UNCHANGED Service!vars
  BY <1>2 DEF Cosign, Federate, service, Service!vars, Trusting
<1>3. QED
  BY <1>1, <1>2, OfferedAreHeadsOf DEF Federate

LEMMA ServiceStep ==
    TypeOK /\ NoSplitView' /\ [WitnessedNext]_witnessed => [Service!Next]_(Service!vars)
<1> SUFFICES ASSUME TypeOK, NoSplitView', [WitnessedNext]_witnessed
             PROVE  Service!Next \/ UNCHANGED Service!vars
  OBVIOUS
<1>1. CASE \E l \in Logs, m \in Measurements : AppendMeasurement(l, m)
  BY <1>1 DEF AppendMeasurement, Service!Next
<1>2. CASE Federate
  BY <1>2, FederateAnchors DEF Service!Next
<1>3. CASE \E nonce \in Nonces, kem \in Service!KemPublicKeys, m \in Measurements :
               Service!Quote(nonce, kem, m)
  BY <1>3 DEF Service!Next
<1>4. CASE \E nonce \in Nonces, kem \in Service!KemPublicKeys, m \in Measurements,
              l \in Operated : Service!KeyserverIssue(l, nonce, kem, m)
  BY <1>4 DEF Service!Next
<1>5. CASE \E s \in Clients, quote \in Service!AnyQuote, nonce \in Nonces,
              kem \in Service!KemPublicKeys : Verify(s, quote, nonce, kem)
  BY <1>5 DEF Verify, Service!Next
<1>6. CASE UNCHANGED witnessed
  BY <1>6 DEF witnessed, federation, service, Service!vars, Trusting
<1>7. QED
  BY <1>1, <1>2, <1>3, <1>4, <1>5, <1>6 DEF WitnessedNext

\* Under quorum overlap the federation is the anchor the receipts ask for: the
\* sessions, each with an anchor of its own, behave as if all of them shared
\* one, whose heads never leave one history.
THEOREM FederationServesReceipts ==
    ASSUME QuorumOverlap
    PROVE  WitnessedSpec => ImplementsReceipts
<1>1. WitnessedInit => Service!Init
  BY DEF WitnessedInit
<1>2. QED
  BY <1>1, ServiceStep, SessionsFollowFederation, TypeCorrect, OverlapPreventsSplitView, PTL
     DEF WitnessedSpec, ImplementsReceipts, Service!Spec, witnessed

-----------------------------------------------------------------------------
(* A verified receipt rests on the session's own anchor.                   *)

\* What a session checked and still holds: its own anchor trusts the head, and
\* the tree under it lists the build.
Relied ==
    /\ DOMAIN verified = Clients
    /\ \A s \in Service!Accepting :
           /\ verified[s].sth \in accepted[s]
           /\ Service!InLog(verified[s].quote.measurement, verified[s].sth.root)

\* What verify_receipt adds to it.
LEMMA VerifyRelies ==
    ASSUME TypeOK, DOMAIN verified = Clients,
           NEW s \in Clients, NEW quote, NEW nonce, NEW kem, Verify(s, quote, nonce, kem)
    PROVE  \E r : /\ verified' = [verified EXCEPT ![s] = r]
                  /\ r.sth \in accepted[s]
                  /\ Service!InLog(r.quote.measurement, r.sth.root)
<1>1. PICK ct \in Service!Ciphertexts \cup {Malformed}, inclusion \in Service!InclusionProofs,
           sth \in Service!HeadsOf(Logs) :
          LET r == [quote |-> quote, nonce |-> nonce, kem_pubkey |-> kem,
                    kem_ciphertext |-> ct, inclusion |-> inclusion, sth |-> sth]
          IN  Service!VerifyReceipt(s, r) /\ verified' = [verified EXCEPT ![s] = r]
  BY DEF Verify, Service!Accept
<1> DEFINE r == [quote |-> quote, nonce |-> nonce, kem_pubkey |-> kem,
                 kem_ciphertext |-> ct, inclusion |-> inclusion, sth |-> sth]
<1>2. verified'[s] = r
  BY <1>1
<1>3. sth \in accepted[s]
  BY <1>2 DEF Verify, IsAnchored
<1>4. Service!InLog(quote.measurement, sth.root)
  <2>1. PICK h \in Service!HeadsOf(Logs) : \E i \in 0..(Len(h.root) - 1) :
            inclusion = Service!InclusionProof(h.root, i)
    BY DEF Service!InclusionProofs
  <2>2. PICK i \in 0..(Len(h.root) - 1) : inclusion = Service!InclusionProof(h.root, i)
    BY <2>1
  <2>3. h.root \in Seq(Measurements)
    BY OfferedAreHeadsOf, OfferedAreHeads, HeadParts, RootsAreSequences
  <2>4. Service!VerifyInclusion(quote.measurement, inclusion, sth.root)
    BY <1>1 DEF Service!VerifyReceipt, Service!Included
  <2>5. sth.root = h.root /\ sth.root[i + 1] = quote.measurement
    BY <2>2, <2>4 DEF Service!VerifyInclusion, Service!InclusionProof
  <2>6. i + 1 \in DOMAIN sth.root
    BY <2>3, <2>5
  <2>7. QED
    BY <2>5, <2>6 DEF Service!InLog
<1>5. r.sth = sth /\ r.quote = quote
  OBVIOUS
<1>6. verified' = [verified EXCEPT ![s] = r]
  BY <1>1
<1> HIDE DEF r
<1>7. QED
  BY <1>3, <1>4, <1>5, <1>6

LEMMA ReliedStep == TypeOK /\ Relied /\ [WitnessedNext]_witnessed => Relied'
<1> SUFFICES ASSUME TypeOK, Relied, [WitnessedNext]_witnessed PROVE Relied'
  OBVIOUS
<1>1. \A s \in Clients : accepted[s] \subseteq accepted'[s]
  <2>1. CASE Federate
    BY <2>1 DEF Federate, Cosign, Ingest, TypeOK
  <2>2. CASE UNCHANGED accepted
    BY <2>2
  <2>3. QED
    BY <2>1, <2>2 DEF WitnessedNext, witnessed, federation, AppendMeasurement, AppendLeaf, Verify
<1>2. CASE UNCHANGED verified
  BY <1>1, <1>2 DEF Relied, Service!Accepting, Service!InLog
<1>3. ASSUME NEW s \in Clients, NEW quote, NEW nonce, NEW kem, Verify(s, quote, nonce, kem)
      PROVE  Relied'
  <2>1. PICK r : /\ verified' = [verified EXCEPT ![s] = r]
                 /\ r.sth \in accepted[s]
                 /\ Service!InLog(r.quote.measurement, r.sth.root)
    BY <1>3, VerifyRelies DEF Relied
  <2>2. /\ DOMAIN verified' = Clients /\ verified'[s] = r
        /\ \A t \in Clients : t # s => verified'[t] = verified[t]
    BY <2>1 DEF Relied
  <2>3. QED
    BY <1>1, <2>1, <2>2 DEF Relied, Service!Accepting, Service!InLog
<1>4. QED
  BY <1>2, <1>3
     DEF WitnessedNext, witnessed, service, AppendMeasurement, Federate,
         Service!AppendLeaf, Service!Quote, Service!KeyserverIssue

LEMMA AlwaysRelied == WitnessedSpec => []Relied
<1>1. WitnessedInit => Relied
  BY DEF WitnessedInit, Service!Init, Relied, Service!Accepting
<1>2. QED
  BY <1>1, ReliedStep, SessionsFollowFederation, TypeCorrect, PTL DEF WitnessedSpec, witnessed

\* No assumption on who colludes: a session verifies no receipt unless a quorum
\* of its own witnesses has cosigned the head in it (ingest, then
\* verify_receipt with that anchor).
THEOREM ReceiptsAlwaysWitnessed == WitnessedSpec => []ReceiptsAreWitnessed
<1>1. Relied /\ TrustNeedsQuorum => ReceiptsAreWitnessed
  BY DEF Relied, TrustNeedsQuorum, ReceiptsAreWitnessed, Service!Accepting
<1>2. QED
  BY <1>1, AlwaysRelied, SessionsFollowFederation, QuorumBehindTrust, PTL

\* A quorum has an honest member where fewer than threshold collude.
LEMMA QuorumHasHonest ==
    ASSUME FewerThanThresholdCollude, NEW s \in Clients, NEW Q \in Quorums(s)
    PROVE  Q \cap Honest # {}
<1>1. SUFFICES ASSUME Q \subseteq Trusted[s] \cap Colluding PROVE FALSE
  BY WitnessingAssumption DEF Quorums, Honest
<1>2. IsFiniteSet(Trusted[s] \cap Colluding)
  BY WitnessingAssumption, FS_Subset
<1>3. /\ Cardinality(Q) <= Cardinality(Trusted[s] \cap Colluding)
      /\ Cardinality(Q) \in Nat /\ Cardinality(Trusted[s] \cap Colluding) \in Nat
  BY <1>1, <1>2, FS_Subset, FS_CardinalityType
<1>4. QED
  BY <1>3, WitnessingAssumption DEF FewerThanThresholdCollude, Quorums

\* What THREAT-MODEL.md assumes, that fewer than threshold collude, is too
\* little against a split view but enough for this: some honest witness
\* remembers a tree that lists the build of the receipt a session verified, for
\* every session.
THEOREM NoBuildInSecret ==
    ASSUME FewerThanThresholdCollude
    PROVE  WitnessedSpec => []NoSecretBuild
<1>1. TypeOK /\ LastDominates /\ Relied /\ ReceiptsAreWitnessed => NoSecretBuild
  <2> SUFFICES ASSUME TypeOK, LastDominates, Relied, ReceiptsAreWitnessed,
                      NEW s \in Service!Accepting
               PROVE  \E w \in Honest :
                          /\ last[w] # None
                          /\ Service!InLog(verified[s].quote.measurement, last[w].root)
    BY DEF NoSecretBuild
  <2> DEFINE sth == verified[s].sth
             m == verified[s].quote.measurement
  <2>1. s \in Clients /\ sth \in accepted[s] /\ Service!InLog(m, sth.root)
    BY DEF Relied, Service!Accepting
  <2>2. PICK w \in Honest : w \in Cosigners(sth)
    BY <2>1, QuorumHasHonest DEF ReceiptsAreWitnessed
  <2>3. w \in Witnesses /\ sth \in cosigs[w]
    BY <2>2 DEF Cosigners, Honest
  <2>4. last[w] # None /\ IsPrefix(sth.root, last[w].root)
    BY <2>3 DEF LastDominates
  <2>5. sth.root \in Roots /\ last[w].root \in Roots
    BY <2>1, <2>3, <2>4, HeadParts DEF TypeOK
  <2>6. Service!InLog(m, last[w].root)
    BY <2>1, <2>4, <2>5, PrefixLists DEF Service!InLog
  <2>7. QED
    BY <2>2, <2>4, <2>6
<1>2. QED
  BY <1>1, AlwaysRelied, ReceiptsAlwaysWitnessed, SessionsFollowFederation, TypeCorrect,
     LastAlwaysDominates, PTL

-----------------------------------------------------------------------------
(* What any anchor would give the receipts, the federation gives them.     *)

ServiceProofs == INSTANCE ReceiptsProofs WITH
    Sessions <- Clients, anchored <- Trusting, accepted <- verified

LEMMA ServiceAssumptions ==
    ASSUME Service!ReceiptsAssumption
    PROVE  /\ ServiceProofs!MaxSizeAssumption /\ ServiceProofs!FalseSizesAssumption
           /\ ServiceProofs!NoneAssumption /\ ServiceProofs!ReceiptsAssumption
<1>1. ServiceProofs!MaxSizeAssumption /\ ServiceProofs!FalseSizesAssumption
  BY MaxSizeAssumption, FalseSizesAssumption
     DEF ServiceProofs!MaxSizeAssumption, ServiceProofs!FalseSizesAssumption,
         ServiceProofs!Sizes, Sizes
<1>2. ServiceProofs!NoneAssumption
  BY NoneAssumption
     DEF ServiceProofs!NoneAssumption, ServiceProofs!Sizes, ServiceProofs!Heads,
         ServiceProofs!Roots, Sizes, Heads, Roots
<1>3. ServiceProofs!ReceiptsAssumption
  BY DEF Service!ReceiptsAssumption, ServiceProofs!ReceiptsAssumption
<1>4. QED
  BY <1>1, <1>2, <1>3

\* The two instances of Receipts, of its definitions and of the theorems about
\* them, are the same.
LEMMA SameParts ==
    /\ \A logs : Service!HeadsOf(logs) = ServiceProofs!HeadsOf(logs)
    /\ Service!KemPublicKeys = ServiceProofs!KemPublicKeys
    /\ Service!AnyQuote = ServiceProofs!AnyQuote
    /\ Service!Ciphertexts = ServiceProofs!Ciphertexts
    /\ Service!InclusionProofs = ServiceProofs!InclusionProofs
BY DEF Service!HeadsOf, ServiceProofs!HeadsOf,
       Service!SignableHeads, ServiceProofs!SignableHeads,
       Service!KemPublicKeys, ServiceProofs!KemPublicKeys,
       Service!AnyQuote, ServiceProofs!AnyQuote, Service!QuoteOf, ServiceProofs!QuoteOf,
       Service!ReportData, ServiceProofs!ReportData,
       Service!Ciphertexts, ServiceProofs!Ciphertexts,
       Service!Encapsulation, ServiceProofs!Encapsulation,
       Service!InclusionProofs, ServiceProofs!InclusionProofs,
       Service!InclusionProof, ServiceProofs!InclusionProof,
       Service!Cardinality, ServiceProofs!Cardinality

LEMMA SameAppend ==
    \A l, m : Service!AppendLeaf(l, m) => ServiceProofs!AppendLeaf(l, m)
BY DEF Service!AppendLeaf, ServiceProofs!AppendLeaf,
       Service!MapThenSumSet, ServiceProofs!MapThenSumSet,
       Service!MapThenFoldSet, ServiceProofs!MapThenFoldSet

LEMMA SameHandlers ==
    /\ \A sth : Service!Anchor(sth) => ServiceProofs!Anchor(sth)
    /\ \A nonce, kem, m : Service!Quote(nonce, kem, m) => ServiceProofs!Quote(nonce, kem, m)
    /\ \A l, nonce, kem, m :
           Service!KeyserverIssue(l, nonce, kem, m)
               => ServiceProofs!KeyserverIssue(l, nonce, kem, m)
    /\ \A s, quote, nonce, kem :
           Service!Accept(s, quote, nonce, kem) => ServiceProofs!Accept(s, quote, nonce, kem)
<1>1. \A sth : Service!Anchor(sth) => ServiceProofs!Anchor(sth)
  BY DEF Service!Anchor, ServiceProofs!Anchor,
         Service!Consistent, ServiceProofs!Consistent, Service!IsPrefix, ServiceProofs!IsPrefix
<1>2. ASSUME NEW nonce, NEW kem, NEW m
      PROVE  /\ Service!QuoteOf(nonce, kem, m) = ServiceProofs!QuoteOf(nonce, kem, m)
             /\ Service!Quote(nonce, kem, m) => ServiceProofs!Quote(nonce, kem, m)
  BY DEF Service!Quote, ServiceProofs!Quote,
         Service!QuoteOf, ServiceProofs!QuoteOf, Service!ReportData, ServiceProofs!ReportData,
         Service!Cardinality, ServiceProofs!Cardinality
<1>3. ASSUME NEW l, NEW nonce, NEW kem, NEW m, Service!KeyserverIssue(l, nonce, kem, m)
      PROVE  ServiceProofs!KeyserverIssue(l, nonce, kem, m)
  BY <1>3, Zenon
     DEF Service!KeyserverIssue, ServiceProofs!KeyserverIssue,
         Service!HeadOf, ServiceProofs!HeadOf,
         Service!SessionKey, ServiceProofs!SessionKey,
         Service!QuoteOf, ServiceProofs!QuoteOf, Service!ReportData, ServiceProofs!ReportData,
         Service!Encapsulation, ServiceProofs!Encapsulation,
         Service!InclusionProof, ServiceProofs!InclusionProof,
         Service!Cardinality, ServiceProofs!Cardinality
<1>4. ASSUME NEW s, NEW r, Service!VerifyReceipt(s, r)
      PROVE  ServiceProofs!VerifyReceipt(s, r)
  BY <1>4, SameParts, Zenon
     DEF Service!VerifyReceipt, ServiceProofs!VerifyReceipt,
         Service!VerifyQuote, ServiceProofs!VerifyQuote, Service!Binds, ServiceProofs!Binds,
         Service!ReportData, ServiceProofs!ReportData,
         Service!WellFormed, ServiceProofs!WellFormed, Service!SthSigned, ServiceProofs!SthSigned,
         Service!Included, ServiceProofs!Included,
         Service!VerifyInclusion, ServiceProofs!VerifyInclusion,
         Service!IsAnchored, ServiceProofs!IsAnchored
<1>5. ASSUME NEW s, NEW quote, NEW nonce, NEW kem, Service!Accept(s, quote, nonce, kem)
      PROVE  ServiceProofs!Accept(s, quote, nonce, kem)
  <2> DEFINE Receipt(ct, inclusion, sth) ==
                 [quote |-> quote, nonce |-> nonce, kem_pubkey |-> kem,
                  kem_ciphertext |-> ct, inclusion |-> inclusion, sth |-> sth]
  <2>1. PICK ct \in Service!Ciphertexts \cup {Malformed},
             inclusion \in Service!InclusionProofs, sth \in Service!HeadsOf(Logs) :
            /\ Service!VerifyReceipt(s, Receipt(ct, inclusion, sth))
            /\ verified' = [verified EXCEPT ![s] = Receipt(ct, inclusion, sth)]
    BY <1>5 DEF Service!Accept
  <2>2. /\ ct \in ServiceProofs!Ciphertexts \cup {Malformed}
        /\ inclusion \in ServiceProofs!InclusionProofs /\ sth \in ServiceProofs!HeadsOf(Logs)
    BY SameParts
  <2>3. /\ ServiceProofs!VerifyQuote(quote) /\ ServiceProofs!Binds(s, quote, nonce, kem)
        /\ UNCHANGED <<leaves, Trusting, quotes, issued>>
    BY <1>5
       DEF Service!Accept, Service!VerifyQuote, ServiceProofs!VerifyQuote,
           Service!Binds, ServiceProofs!Binds, Service!ReportData, ServiceProofs!ReportData
  <2>4. ServiceProofs!VerifyReceipt(s, Receipt(ct, inclusion, sth))
    BY <1>4, <2>1, Zenon
  <2>5. QED
    BY <2>1, <2>2, <2>3, <2>4 DEF ServiceProofs!Accept
<1>6. QED
  BY <1>1, <1>2, <1>3, <1>5

\* Under quorum overlap the service is what ReceiptsProofs speaks of.
LEMMA ServiceFollowsReceipts ==
    ASSUME QuorumOverlap
    PROVE  WitnessedSpec => ServiceProofs!Spec
<1>1. Service!Init => ServiceProofs!Init
  BY DEF Service!Init, ServiceProofs!Init
<1>2. [Service!Next]_(Service!vars) => [ServiceProofs!Next]_(ServiceProofs!vars)
  <2>1. ASSUME NEW nonce \in Nonces, NEW kem \in Service!KemPublicKeys, NEW m \in Measurements,
               \/ Service!Quote(nonce, kem, m)
               \/ \E l \in Operated : Service!KeyserverIssue(l, nonce, kem, m)
        PROVE  ServiceProofs!Next
    <3>1. kem \in ServiceProofs!KemPublicKeys
      BY SameParts
    <3>2. QED
      BY <2>1, <3>1, SameHandlers, Zenon DEF ServiceProofs!Next
  <2>2. ASSUME NEW s \in Clients, NEW quote \in Service!AnyQuote, NEW nonce \in Nonces,
               NEW kem \in Service!KemPublicKeys, Service!Accept(s, quote, nonce, kem)
        PROVE  ServiceProofs!Next
    BY <2>2, SameParts, SameHandlers, Zenon DEF ServiceProofs!Next
  <2>3. QED
    BY <2>1, <2>2, SameParts, SameAppend, SameHandlers, Zenon
       DEF Service!Next, ServiceProofs!Next, Service!vars, ServiceProofs!vars
<1>3. QED
  BY <1>1, <1>2, FederationServesReceipts, PTL
     DEF ImplementsReceipts, Service!Spec, ServiceProofs!Spec

\* The promises of verify_receipt hold of sessions that share no anchor: under
\* quorum overlap the builds of any two sessions are on one public record, the
\* operator cannot disown one of them, and no key release is retargeted to a
\* session, a nonce or a build other than the one it was made for and asked for,
\* however the calls of the witnesses, the anchors and verify_receipt interleave.
THEOREM WitnessedSessionsShareOneRecord ==
    ASSUME QuorumOverlap, Service!ReceiptsAssumption
    PROVE  WitnessedSpec => [](/\ Service!SessionsShareOneRecord
                               /\ Service!OperatorIsAccountable
                               /\ Service!KeysAreNotRetargeted)
<1>1. ServiceProofs!SessionsShareOneRecord => Service!SessionsShareOneRecord
  BY DEF Service!SessionsShareOneRecord, ServiceProofs!SessionsShareOneRecord,
         Service!Accepting, ServiceProofs!Accepting, Service!InLog, ServiceProofs!InLog,
         Service!Consistent, ServiceProofs!Consistent, Service!IsPrefix, ServiceProofs!IsPrefix
<1>2. ServiceProofs!OperatorIsAccountable => Service!OperatorIsAccountable
  BY DEF Service!OperatorIsAccountable, ServiceProofs!OperatorIsAccountable,
         Service!Accepting, ServiceProofs!Accepting, Service!InLog, ServiceProofs!InLog,
         Service!IsPrefix, ServiceProofs!IsPrefix
<1>3. ServiceProofs!KeysAreNotRetargeted => Service!KeysAreNotRetargeted
  BY DEF Service!KeysAreNotRetargeted, ServiceProofs!KeysAreNotRetargeted,
         Service!Accepting, ServiceProofs!Accepting, Service!ClientKey, ServiceProofs!ClientKey,
         Service!SessionKey, ServiceProofs!SessionKey,
         Service!Decapsulate, ServiceProofs!Decapsulate
<1>4. WitnessedSpec => /\ []ServiceProofs!SessionsShareOneRecord
                       /\ []ServiceProofs!OperatorIsAccountable
                       /\ []ServiceProofs!KeysAreNotRetargeted
  BY ServiceFollowsReceipts, ServiceAssumptions, ServiceProofs!SessionsAlwaysShareOneRecord,
     ServiceProofs!OperatorAlwaysAccountable, ServiceProofs!KeysNeverRetargeted
<1>5. QED
  BY <1>1, <1>2, <1>3, <1>4, PTL
=============================================================================
