------------------------------ MODULE Receipts ------------------------------
(***************************************************************************)
(* Session receipts: how keyserver_issue (crates/pqtl-cli) puts one        *)
(* together, and how a client's verify_receipt takes it apart.             *)
(*                                                                         *)
(* The provider carries everything.  He may ask the hardware to quote any  *)
(* build for any nonce and key, keep what he saw, and compose a receipt of *)
(* parts that belong to different sessions, builds, trees and operators,   *)
(* or that nobody signed.  Hashes and signatures are what they are over.   *)
(*                                                                         *)
(* The anchor is any Anchor whose trusted heads form one history, which    *)
(* the witness federation implements (Witnessing!ImplementsOneHistory).    *)
(***************************************************************************)
EXTENDS TreeHeads

CONSTANTS Logs,         \* TransparencyLog objects
          Operated,     \* those whose heads the operator's key has signed
          Sessions,     \* client sessions; also the X-Wing key pair of each
          Nonces,
          NonceOf,      \* NonceOf[s]: the nonce session s expects
          Malformed,    \* a KEM field of the wrong length
          MaxLeaves,    \* bound on the leaves of all logs together
          MaxQuotes, MaxIssued   \* bounds on what hardware and keyserver do

ASSUME ReceiptsAssumption ==
    /\ Operated \subseteq Logs
    /\ NonceOf \in [Sessions -> Nonces]
    /\ Malformed \notin Sessions \cup [to : Sessions, n : Nat]
    /\ MaxIssued \in Nat

VARIABLES leaves,     \* leaves[l]: the measurements of log l
          anchored,   \* heads the clients' anchor trusts
          quotes,     \* quotes the hardware root has signed
          issued,     \* receipts of keyserver_issue, with its session keys
          accepted    \* accepted[s]: the receipt session s verified last

vars == <<leaves, anchored, quotes, issued, accepted>>

Init ==
    /\ leaves = [l \in Logs |-> <<>>]
    /\ anchored = {}
    /\ quotes = {}
    /\ issued = {}
    /\ accepted = [s \in Sessions |-> None]

-----------------------------------------------------------------------------
(* The parts.                                                              *)

\* A KemPublicKey holds any bytes: the key of a session, or no key at all.
KemPublicKeys == Sessions \cup {Malformed}

ReportData(nonce, kem, m) == <<nonce, kem, m>>

QuoteOf(nonce, kem, m) ==
    [measurement |-> m, report_data |-> ReportData(nonce, kem, m)]

\* Whatever a quote may say, signed or not: a software provider can bind any
\* measurement, and hardware the bytes of any key.
AnyQuote ==
    {QuoteOf(nonce, kem, m) :
        nonce \in Nonces, kem \in KemPublicKeys, m \in Measurements}

\* kem::encapsulate: the n-th release to a key; 0 stands for encapsulations by
\* anybody but the keyserver.
Encapsulation(kem, n) == [to |-> kem, n |-> n]

\* The shared secret a session recovers (implicit rejection: from a
\* ciphertext to another key, one that nobody else has).
Decapsulate(s, ct) == IF ct.to = s THEN <<ct>> ELSE <<ct, s>>

\* Fault: a key derived from the secret and the nonce alone.
KeyOfSecretAndNonce(secret, nonce, ct, m) == <<secret, nonce>>

\* kem::derive_session_key
SessionKey(secret, nonce, ct, m) == <<secret, nonce, ct, m>>

\* The session key the client derives from a receipt for build m.  Which build
\* that is, it says itself: the caller passes it, not the receipt.
ClientKey(s, r, m) ==
    SessionKey(Decapsulate(s, r.kem_ciphertext), NonceOf[s], r.kem_ciphertext, m)

\* Fault: indices count from 1.
InclusionProofFromOne(tree, index) ==
    [leaf_index |-> index + 1, tree_size |-> Len(tree), rebuilds |-> tree]

\* An audit path, as the index and size it claims and the root it rebuilds
\* from the leaf at that index (TransparencyLog: InclusionSound, -Complete).
InclusionProof(tree, index) ==
    [leaf_index |-> index, tree_size |-> Len(tree), rebuilds |-> tree]

VerifyInclusion(m, proof, root) ==
    /\ proof.leaf_index < proof.tree_size
    /\ proof.rebuilds = root
    /\ root[proof.leaf_index + 1] = m

\* The heads signed over what these logs hold or held, also under false sizes.
HeadsOf(logs) ==
    UNION {UNION {SignableHeads(leaves[l], k) : k \in 0..Len(leaves[l])} : l \in logs}

InclusionProofs ==
    UNION {{InclusionProof(h.root, i) : i \in 0..(Len(h.root) - 1)} : h \in HeadsOf(Logs)}

Ciphertexts ==
    {Encapsulation(s, n) : s \in Sessions, n \in 0..Cardinality(issued)}

-----------------------------------------------------------------------------
(* verify_receipt, check by check, in the order of the code.               *)

\* 0. The hardware root signed this quote.
VerifyQuote(quote) == quote \in quotes

\* Fault: the expected report data is computed from what the receipt says, and
\* the nonce of the session is not looked at.
BindsReceiptNonce(s, quote, nonce, kem) ==
    quote.report_data = ReportData(nonce, kem, quote.measurement)

\* 1. The quote commits to the nonce of this session, to the KEM key of the
\* receipt and to the measurement.
Binds(s, quote, nonce, kem) ==
    /\ nonce = NonceOf[s]
    /\ quote.report_data = ReportData(NonceOf[s], kem, quote.measurement)

\* Faults: the length of the ciphertext is not checked, or that of the key.
WellFormedKeyOnly(r) == r.kem_pubkey # Malformed
WellFormedCiphertextOnly(r) == r.kem_ciphertext # Malformed

\* 1b. The KEM fields have the right length.
WellFormed(r) == r.kem_pubkey # Malformed /\ r.kem_ciphertext # Malformed

\* Fault: the signature of the head is not checked.
AnyoneSigned(sth) == sth \in HeadsOf(Logs)

\* 2. The operator signed this head.
SthSigned(sth) == sth \in HeadsOf(Operated)

\* Fault: the anchor is not asked.
AnchorUnasked(sth) == TRUE

\* 3. The measurement is included in the signed root.
Included(r) == VerifyInclusion(r.quote.measurement, r.inclusion, r.sth.root)

\* 4. The anchor trusts the head.
IsAnchored(sth) == sth \in anchored

VerifyReceipt(s, r) ==
    /\ VerifyQuote(r.quote)
    /\ Binds(s, r.quote, r.nonce, r.kem_pubkey)
    /\ WellFormed(r)
    /\ SthSigned(r.sth)
    /\ Included(r)
    /\ IsAnchored(r.sth)

-----------------------------------------------------------------------------
(* Actions.                                                                *)

AppendLeaf(l, m) ==
    /\ Len(leaves[l]) < MaxSize
    /\ MapThenSumSet(LAMBDA k : Len(leaves[k]), Logs) < MaxLeaves
    /\ leaves' = [leaves EXCEPT ![l] = Append(@, m)]
    /\ UNCHANGED <<anchored, quotes, issued, accepted>>

\* The anchor comes to trust one more head of some log, its own way.
Anchor(sth) ==
    /\ \A g \in anchored : Consistent(g, sth)
    /\ anchored' = anchored \cup {sth}
    /\ UNCHANGED <<leaves, quotes, issued, accepted>>

\* QuoteProvider::quote for a build that is running, logged or not.  The key is
\* hashed and signed as it is.
Quote(nonce, kem, m) ==
    /\ Cardinality(quotes) < MaxQuotes
    /\ quotes' = quotes \cup {QuoteOf(nonce, kem, m)}
    /\ UNCHANGED <<leaves, anchored, issued, accepted>>

\* keyserver_issue: refuses a measurement it does not find in its log and a
\* malformed key; otherwise releases a fresh secret and composes the receipt
\* from the log as it is now.
KeyserverIssue(l, nonce, kem, m) ==
    LET at == {i \in 1..Len(leaves[l]) : leaves[l][i] = m}
        ct == Encapsulation(kem, Cardinality(issued) + 1)
        secret == <<ct>>
        quote == QuoteOf(nonce, kem, m)
    IN  /\ Cardinality(issued) < MaxIssued
        /\ at # {} /\ kem # Malformed
        /\ \E first \in at :
               /\ \A i \in at : first <= i
               /\ issued' = issued \cup
                      {[receipt |-> [quote |-> quote, nonce |-> nonce,
                                     kem_pubkey |-> kem, kem_ciphertext |-> ct,
                                     inclusion |-> InclusionProof(leaves[l], first - 1),
                                     sth |-> HeadOf(leaves[l], Len(leaves[l]))],
                        session_key |-> SessionKey(secret, nonce, ct, m)]}
        /\ quotes' = quotes \cup {quote}
        /\ UNCHANGED <<leaves, anchored, accepted>>

\* A session verifies a receipt with this quote, nonce and key, and any other
\* parts, and takes it.
Accept(s, quote, nonce, kem) ==
    /\ VerifyQuote(quote)
    /\ Binds(s, quote, nonce, kem)
    /\ \E ct \in Ciphertexts \cup {Malformed}, inclusion \in InclusionProofs,
          sth \in HeadsOf(Logs) :
          LET r == [quote |-> quote, nonce |-> nonce, kem_pubkey |-> kem,
                    kem_ciphertext |-> ct, inclusion |-> inclusion, sth |-> sth]
          IN  /\ VerifyReceipt(s, r)
              /\ accepted' = [accepted EXCEPT ![s] = r]
    /\ UNCHANGED <<leaves, anchored, quotes, issued>>

Next ==
    \/ \E l \in Logs, m \in Measurements : AppendLeaf(l, m)
    \/ \E sth \in HeadsOf(Logs) : Anchor(sth)
    \/ \E nonce \in Nonces, kem \in KemPublicKeys, m \in Measurements :
           \/ Quote(nonce, kem, m)
           \/ \E l \in Operated : KeyserverIssue(l, nonce, kem, m)
    \/ \E s \in Sessions, quote \in AnyQuote, nonce \in Nonces,
          kem \in KemPublicKeys : Accept(s, quote, nonce, kem)

Spec == Init /\ [][Next]_vars

-----------------------------------------------------------------------------
(* Properties.                                                             *)

Receipt ==
    [quote : AnyQuote, nonce : Nonces, kem_pubkey : Sessions,
     kem_ciphertext : [to : Sessions, n : 0..MaxIssued],
     inclusion : [leaf_index : Sizes, tree_size : Sizes, rebuilds : Roots],
     sth : Heads]

\* An accepted receipt is well formed to the last part, KEM fields included,
\* although the hardware signs quotes for keys that are not (verify_receipt, 1b).
TypeOK ==
    /\ leaves \in [Logs -> Roots]
    /\ anchored \subseteq Heads
    /\ quotes \subseteq AnyQuote
    /\ \A i \in issued : i.receipt \in Receipt
    /\ \A s \in Sessions : accepted[s] # None => accepted[s] \in Receipt

Accepting == {s \in Sessions : accepted[s] # None}

InLog(m, root) == \E i \in DOMAIN root : root[i] = m

\* The builds of any two sessions are on one public record: whatever mixture
\* of parts each was shown, their heads belong to one history and the larger
\* of the two trees lists both measurements (non-equivocation, end to end).
SessionsShareOneRecord ==
    \A s, t \in Accepting :
        LET g == accepted[s].sth
            h == accepted[t].sth
        IN  /\ Consistent(g, h)
            /\ g.tree_size <= h.tree_size =>
                   /\ InLog(accepted[s].quote.measurement, h.root)
                   /\ InLog(accepted[t].quote.measurement, h.root)

\* The operator cannot disown a build a session accepted: one of the logs he
\* signs for still lists it, under the very head in the receipt, however much
\* was appended since (tamper-evident accountability).
OperatorIsAccountable ==
    \A s \in Accepting :
        LET r == accepted[s] IN
        \E l \in Operated :
            /\ IsPrefix(r.sth.root, leaves[l])
            /\ InLog(r.quote.measurement, leaves[l])

\* A quote serves one session: with a nonce of its own for every session, no
\* two sessions accept the same quote, and none accepts one the hardware did
\* not sign for its nonce (anti-replay, by verify_receipt's binding step).
QuotesAreNotReused ==
    \A s \in Accepting :
        /\ accepted[s].quote \in quotes
        /\ \A t \in Accepting : s # t => accepted[s].quote # accepted[t].quote

\* A key release cannot be retargeted: if the key a session derives from the
\* receipt it accepted, for whatever build it asks for, is one the keyserver
\* derived, then the keyserver meant this session's key and nonce and exactly
\* that build (derive_session_key).  It is the build the session asks for and not
\* always the one its receipt attests, which verify_receipt does not compare.
KeysAreNotRetargeted ==
    \A s \in Accepting, m \in Measurements, i \in issued :
        ClientKey(s, accepted[s], m) = i.session_key =>
            /\ i.receipt.kem_pubkey = s
            /\ i.receipt.nonce = NonceOf[s]
            /\ i.receipt.quote.measurement = m

\* An honest keyserver's receipt works, now and later: as soon as the head in
\* it is anchored the session it was issued for accepts it, although the log
\* has grown since, and asking for the build in it derives the keyserver's key.
IssuedReceiptsWork ==
    \A i \in issued : \A s \in Sessions :
        LET r == i.receipt IN
        (r.nonce = NonceOf[s] /\ r.kem_pubkey = s) =>
            /\ r.sth \in anchored => VerifyReceipt(s, r)
            /\ i.session_key = ClientKey(s, r, r.quote.measurement)
=============================================================================
