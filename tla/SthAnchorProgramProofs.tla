------------------------ MODULE SthAnchorProgramProofs ------------------------
(***************************************************************************)
(* The program sth-anchor for any authorities, epochs, roots, commitments  *)
(* and any set of transactions, finite or not.                             *)
(*                                                                         *)
(* The argument: a transaction that ran found its account free and left it *)
(* taken (Kept), and an account that is taken is so because of one that    *)
(* ran (Authored); so a second one to the same account finds it taken.     *)
(***************************************************************************)
EXTENDS SthAnchorProgram, FiniteSetTheorems, TLAPS

\* A call is one or the other.
LEMMA CallsDiffer == RootCalls \cap SetCalls = {}
<1>1. ASSUME NEW c \in RootCalls PROVE DOMAIN c = {"authority", "epoch", "root"}
  BY DEF RootCalls
<1>2. ASSUME NEW c \in SetCalls PROVE DOMAIN c = {"authority", "commitment"}
  BY DEF SetCalls
<1>3. "epoch" \notin {"authority", "commitment"}
  OBVIOUS
<1>4. QED
  BY <1>1, <1>2, <1>3

\* What the program writes is an account of the caller.
LEMMA RecordedIsEntry ==
    ASSUME NEW c \in RootCalls
    PROVE  /\ c.authority \in Authorities /\ c.epoch \in Epochs
           /\ EntryAddress(c.authority, c.epoch) \in Authorities \X Epochs
           /\ Recorded(c) \in Entries /\ Recorded(c) # None
BY NoneIsNothing DEF RootCalls, EntryAddress, Recorded, Entries

LEMMA SetIsRecorded ==
    ASSUME NEW c \in SetCalls
    PROVE  /\ c.authority \in Authorities
           /\ [log_id |-> c.authority, commitment |-> c.commitment] \in WitnessSets
           /\ [log_id |-> c.authority, commitment |-> c.commitment] # None
BY NoneIsNothing DEF SetCalls, WitnessSets

LEMMA TypeInit == Init => TypeOK
BY DEF Init, TypeOK

LEMMA TypeStep == TypeOK /\ [Next]_vars => TypeOK'
<1> SUFFICES ASSUME TypeOK, [Next]_vars PROVE TypeOK'
  OBVIOUS
<1>1. ASSUME NEW t \in Txs, NEW c \in RootCalls \cup SetCalls, Send(t, c) PROVE TypeOK'
  BY <1>1 DEF Send, TypeOK
<1>2. ASSUME NEW t \in Txs, Expire(t) PROVE TypeOK'
  BY <1>2 DEF Expire, TypeOK
<1>3. ASSUME NEW t \in Txs, AnchorRoot(t) PROVE TypeOK'
  <2>1. sth' \in [Authorities \X Epochs -> Entries \cup {None}]
    BY <1>3, RecordedIsEntry DEF AnchorRoot, TypeOK
  <2>2. status' \in [Txs -> {"unsent", "sent", "ok", "aborted", "expired"}]
    BY <1>3 DEF AnchorRoot, TypeOK
  <2>3. QED
    BY <1>3, <2>1, <2>2 DEF AnchorRoot, TypeOK
<1>4. ASSUME NEW t \in Txs, AnchorWitnessSet(t) PROVE TypeOK'
  <2>1. witness_set' \in [Authorities -> WitnessSets \cup {None}]
    BY <1>4, SetIsRecorded DEF AnchorWitnessSet, TypeOK
  <2>2. status' \in [Txs -> {"unsent", "sent", "ok", "aborted", "expired"}]
    BY <1>4 DEF AnchorWitnessSet, TypeOK
  <2>3. QED
    BY <1>4, <2>1, <2>2 DEF AnchorWitnessSet, TypeOK
<1>5. ASSUME NEW t \in Txs, Hear(t) PROVE TypeOK'
  BY <1>5 DEF Hear, TypeOK
<1>6. CASE UNCHANGED vars
  BY <1>6 DEF TypeOK, vars
<1>7. QED
  BY <1>1, <1>2, <1>3, <1>4, <1>5, <1>6 DEF Next

\* Every account at its address is an account of the program or missing.
THEOREM ProgramTypesCorrect == Spec => []TypeOK
BY TypeInit, TypeStep, PTL DEF Spec

-----------------------------------------------------------------------------
(* A write-once table.                                                     *)

\* The entries implement a write-once table, whatever the chain does with the
\* transactions (init of AnchorRoot).
THEOREM EntriesNeverChange == Spec => EntriesAreWriteOnce
<1>1. Init => EntryTable!Init
  BY DEF Init, EntryTable!Init
<1>2. TypeOK /\ [Next]_vars => [EntryTable!Next]_sth
  <2> SUFFICES ASSUME TypeOK, [Next]_vars PROVE [EntryTable!Next]_sth
    OBVIOUS
  <2>1. ASSUME NEW t \in Txs, AnchorRoot(t) PROVE [EntryTable!Next]_sth
    <3> DEFINE c == call[t]
               entry == EntryAddress(c.authority, c.epoch)
    <3>1. entry \in Authorities \X Epochs /\ Recorded(c) \in Entries
      BY <2>1, RecordedIsEntry DEF AnchorRoot
    <3>2. \/ UNCHANGED sth
          \/ sth[entry] = None /\ sth' = [sth EXCEPT ![entry] = Recorded(c)]
      BY <2>1 DEF AnchorRoot, CanInit
    <3>3. QED
      BY <3>1, <3>2 DEF EntryTable!Next, EntryTable!Write
  <2>2. QED
    BY <2>1 DEF Next, vars, Send, Expire, AnchorWitnessSet, Hear
<1>3. QED
  BY <1>1, <1>2, ProgramTypesCorrect, PTL DEF Spec, EntriesAreWriteOnce, EntryTable!Spec

-----------------------------------------------------------------------------
(* One author.                                                             *)

\* The transactions that anchored a root for this authority and epoch, and
\* those that published a witness set for it.
Ran(a, n) == {t \in Txs : /\ status[t] = "ok"
                          /\ call[t] \in RootCalls
                          /\ call[t].authority = a /\ call[t].epoch = n}
RanSet(a) == {t \in Txs : /\ status[t] = "ok"
                          /\ call[t] \in SetCalls
                          /\ call[t].authority = a}

\* What ran is what stands.
Kept ==
    /\ \A t \in Txs : status[t] = "ok" /\ call[t] \in RootCalls =>
           sth[EntryAddress(call[t].authority, call[t].epoch)] = Recorded(call[t])
    /\ \A t \in Txs : status[t] = "ok" /\ call[t] \in SetCalls =>
           witness_set[call[t].authority] =
               [log_id |-> call[t].authority, commitment |-> call[t].commitment]

\* What stands is what one transaction did, and no other.
Authored ==
    /\ \A a \in Authorities, n \in Epochs :
           /\ sth[<<a, n>>] # None => Ran(a, n) # {}
           /\ \A t, u \in Ran(a, n) : t = u
    /\ \A a \in Authorities :
           /\ witness_set[a] # None => RanSet(a) # {}
           /\ \A t, u \in RanSet(a) : t = u

AuthorInv == Kept /\ Authored

LEMMA AuthorInit == Init => AuthorInv
BY DEF Init, AuthorInv, Kept, Authored, Ran, RanSet

\* A step that executes nothing leaves what ran as it was.
LEMMA IdleStep ==
    ASSUME TypeOK, AuthorInv, UNCHANGED <<sth, witness_set>>,
           \A t \in Txs : (status'[t] = "ok") <=> (status[t] = "ok"),
           \A t \in Txs : status[t] = "ok" => call'[t] = call[t]
    PROVE  AuthorInv'
<1>1. ASSUME NEW a, NEW n
      PROVE  Ran(a, n)' = Ran(a, n) /\ RanSet(a)' = RanSet(a)
  BY DEF Ran, RanSet
<1>2. Kept'
  BY DEF AuthorInv, Kept
<1>3. Authored'
  BY <1>1 DEF AuthorInv, Authored
<1>4. QED
  BY <1>2, <1>3 DEF AuthorInv

\* anchor_root, when it runs.
LEMMA RootStep ==
    ASSUME TypeOK, AuthorInv, NEW t \in Txs, AnchorRoot(t),
           CanInit(sth[EntryAddress(call[t].authority, call[t].epoch)])
    PROVE  AuthorInv'
<1> DEFINE c == call[t]
           entry == EntryAddress(c.authority, c.epoch)
<1>1. /\ c \in RootCalls /\ c \notin SetCalls
      /\ status[t] = "sent" /\ status' = [status EXCEPT ![t] = "ok"]
      /\ sth[entry] = None /\ sth' = [sth EXCEPT ![entry] = Recorded(c)]
      /\ UNCHANGED <<witness_set, call, heard>>
  BY CallsDiffer DEF AnchorRoot, CanInit
<1>2. c.authority \in Authorities /\ c.epoch \in Epochs /\ entry \in Authorities \X Epochs
  BY <1>1, RecordedIsEntry
<1>3. Ran(c.authority, c.epoch) = {}
  <2>1. ASSUME NEW u \in Ran(c.authority, c.epoch) PROVE FALSE
    <3>1. sth[entry] = Recorded(call[u]) /\ call[u] \in RootCalls
      BY DEF Ran, AuthorInv, Kept
    <3>2. QED
      BY <1>1, <3>1, RecordedIsEntry
  <2>2. QED
    BY <2>1
<1>4. Kept'
  <2>1. ASSUME NEW u \in Txs, status'[u] = "ok", call'[u] \in RootCalls
        PROVE  sth'[EntryAddress(call[u].authority, call[u].epoch)] = Recorded(call[u])
    <3>1. CASE u = t
      BY <1>1, <1>2, <3>1 DEF TypeOK
    <3>2. CASE u # t
      <4>1. status[u] = "ok" /\ call[u] \in RootCalls
        BY <1>1, <2>1, <3>2 DEF TypeOK
      <4>2. sth[EntryAddress(call[u].authority, call[u].epoch)] = Recorded(call[u])
        BY <4>1 DEF AuthorInv, Kept
      <4>3. EntryAddress(call[u].authority, call[u].epoch) # entry
        BY <1>1, <4>1, <4>2, RecordedIsEntry
      <4>4. QED
        BY <1>1, <4>1, <4>2, <4>3, RecordedIsEntry DEF TypeOK
    <3>3. QED
      BY <3>1, <3>2
  <2>2. ASSUME NEW u \in Txs, status'[u] = "ok", call'[u] \in SetCalls
        PROVE  status[u] = "ok" /\ call[u] \in SetCalls
    BY <1>1, <2>2 DEF TypeOK
  <2>3. QED
    BY <1>1, <2>1, <2>2 DEF AuthorInv, Kept
<1>5. ASSUME NEW a \in Authorities, NEW n \in Epochs
      PROVE  /\ sth'[<<a, n>>] # None => Ran(a, n)' # {}
             /\ \A u, v \in Ran(a, n)' : u = v
  <2>1. CASE a = c.authority /\ n = c.epoch
    <3>1. Ran(a, n)' = {t}
      BY <1>1, <1>3, <2>1 DEF Ran, TypeOK
    <3>2. QED
      BY <3>1
  <2>2. CASE ~ (a = c.authority /\ n = c.epoch)
    <3>1. Ran(a, n)' = Ran(a, n)
      BY <1>1, <2>2 DEF Ran, TypeOK
    <3>2. sth'[<<a, n>>] = sth[<<a, n>>]
      BY <1>1, <1>2, <2>2 DEF TypeOK, EntryAddress
    <3>3. QED
      BY <3>1, <3>2 DEF AuthorInv, Authored
  <2>3. QED
    BY <2>1, <2>2
<1>6. ASSUME NEW a \in Authorities
      PROVE  RanSet(a)' = RanSet(a)
  BY <1>1 DEF RanSet, TypeOK
<1>7. Authored'
  BY <1>1, <1>5, <1>6 DEF AuthorInv, Authored
<1>8. QED
  BY <1>4, <1>7 DEF AuthorInv

\* anchor_witness_set, when it runs.
LEMMA SetStep ==
    ASSUME TypeOK, AuthorInv, NEW t \in Txs, AnchorWitnessSet(t),
           CanInit(witness_set[call[t].authority])
    PROVE  AuthorInv'
<1> DEFINE c == call[t]
           new == [log_id |-> c.authority, commitment |-> c.commitment]
<1>1. /\ c \in SetCalls /\ c \notin RootCalls
      /\ status[t] = "sent" /\ status' = [status EXCEPT ![t] = "ok"]
      /\ witness_set[c.authority] = None
      /\ witness_set' = [witness_set EXCEPT ![c.authority] = new]
      /\ UNCHANGED <<sth, call, heard>>
  BY CallsDiffer DEF AnchorWitnessSet, CanInit
<1>2. c.authority \in Authorities
  BY <1>1, SetIsRecorded
<1>3. RanSet(c.authority) = {}
  <2>1. ASSUME NEW u \in RanSet(c.authority) PROVE FALSE
    <3>1. /\ witness_set[c.authority] =
                 [log_id |-> call[u].authority, commitment |-> call[u].commitment]
          /\ call[u] \in SetCalls
      BY DEF RanSet, AuthorInv, Kept
    <3>2. QED
      BY <1>1, <3>1, SetIsRecorded
  <2>2. QED
    BY <2>1
<1>4. Kept'
  <2>1. ASSUME NEW u \in Txs, status'[u] = "ok", call'[u] \in SetCalls
        PROVE  witness_set'[call[u].authority] =
                   [log_id |-> call[u].authority, commitment |-> call[u].commitment]
    <3>1. CASE u = t
      BY <1>1, <1>2, <3>1 DEF TypeOK
    <3>2. CASE u # t
      <4>1. status[u] = "ok" /\ call[u] \in SetCalls
        BY <1>1, <2>1, <3>2 DEF TypeOK
      <4>2. witness_set[call[u].authority] =
                [log_id |-> call[u].authority, commitment |-> call[u].commitment]
        BY <4>1 DEF AuthorInv, Kept
      <4>3. call[u].authority # c.authority
        BY <1>1, <4>1, <4>2, SetIsRecorded
      <4>4. QED
        BY <1>1, <4>1, <4>2, <4>3, SetIsRecorded DEF TypeOK
    <3>3. QED
      BY <3>1, <3>2
  <2>2. ASSUME NEW u \in Txs, status'[u] = "ok", call'[u] \in RootCalls
        PROVE  status[u] = "ok" /\ call[u] \in RootCalls
    BY <1>1, <2>2 DEF TypeOK
  <2>3. QED
    BY <1>1, <2>1, <2>2 DEF AuthorInv, Kept
<1>5. ASSUME NEW a \in Authorities
      PROVE  /\ witness_set'[a] # None => RanSet(a)' # {}
             /\ \A u, v \in RanSet(a)' : u = v
  <2>1. CASE a = c.authority
    <3>1. RanSet(a)' = {t}
      BY <1>1, <1>3, <2>1 DEF RanSet, TypeOK
    <3>2. QED
      BY <3>1
  <2>2. CASE a # c.authority
    <3>1. RanSet(a)' = RanSet(a)
      BY <1>1, <2>2 DEF RanSet, TypeOK
    <3>2. witness_set'[a] = witness_set[a]
      BY <1>1, <1>2, <2>2 DEF TypeOK
    <3>3. QED
      BY <3>1, <3>2 DEF AuthorInv, Authored
  <2>3. QED
    BY <2>1, <2>2
<1>6. ASSUME NEW a \in Authorities, NEW n \in Epochs
      PROVE  Ran(a, n)' = Ran(a, n)
  BY <1>1 DEF Ran, TypeOK
<1>7. Authored'
  BY <1>1, <1>5, <1>6 DEF AuthorInv, Authored
<1>8. QED
  BY <1>4, <1>7 DEF AuthorInv

LEMMA AuthorStep == TypeOK /\ AuthorInv /\ [Next]_vars => AuthorInv'
<1> SUFFICES ASSUME TypeOK, AuthorInv, [Next]_vars PROVE AuthorInv'
  OBVIOUS
<1>1. ASSUME NEW t \in Txs, NEW c \in RootCalls \cup SetCalls, Send(t, c) PROVE AuthorInv'
  BY <1>1, IdleStep DEF Send, TypeOK
<1>2. ASSUME NEW t \in Txs, Expire(t) PROVE AuthorInv'
  BY <1>2, IdleStep DEF Expire, TypeOK
<1>3. ASSUME NEW t \in Txs, AnchorRoot(t) PROVE AuthorInv'
  <2>1. CASE CanInit(sth[EntryAddress(call[t].authority, call[t].epoch)])
    BY <1>3, <2>1, RootStep
  <2>2. CASE ~ CanInit(sth[EntryAddress(call[t].authority, call[t].epoch)])
    BY <1>3, <2>2, IdleStep DEF AnchorRoot, TypeOK
  <2>3. QED
    BY <2>1, <2>2
<1>4. ASSUME NEW t \in Txs, AnchorWitnessSet(t) PROVE AuthorInv'
  <2>1. CASE CanInit(witness_set[call[t].authority])
    BY <1>4, <2>1, SetStep
  <2>2. CASE ~ CanInit(witness_set[call[t].authority])
    BY <1>4, <2>2, IdleStep DEF AnchorWitnessSet, TypeOK
  <2>3. QED
    BY <2>1, <2>2
<1>5. ASSUME NEW t \in Txs, Hear(t) PROVE AuthorInv'
  BY <1>5, IdleStep DEF Hear, TypeOK
<1>6. CASE UNCHANGED vars
  BY <1>6, IdleStep DEF vars
<1>7. QED
  BY <1>1, <1>2, <1>3, <1>4, <1>5, <1>6 DEF Next

\* Every account was written by a transaction that ran, holds what that one
\* said, and no other ran on it (anchor_root and anchor_witness_set, with the
\* constraint init).
THEOREM AuthorAlways == Spec => []AuthorInv
BY AuthorInit, AuthorStep, ProgramTypesCorrect, PTL DEF Spec

\* A set whose members are all the same has at most one.
LEMMA AtMostOne ==
    ASSUME NEW S, \A t, u \in S : t = u
    PROVE  Cardinality(S) <= 1
<1>1. CASE S = {}
  BY <1>1, FS_EmptySet
<1>2. ASSUME NEW t \in S PROVE Cardinality(S) <= 1
  <2>1. S = {t}
    OBVIOUS
  <2>2. Cardinality({t}) = 1
    BY FS_Singleton
  <2>3. QED
    BY <2>1, <2>2
<1>3. QED
  BY <1>1, <1>2

\* An entry holds what exactly one transaction of its authority wrote
\* (anchor_root).
THEOREM EntriesAlwaysHaveOneAuthor == Spec => []EntriesHaveOneAuthor
<1>1. ASSUME TypeOK, AuthorInv, NEW a \in Authorities, NEW n \in Epochs
      PROVE  /\ Cardinality(Ran(a, n)) <= 1
             /\ sth[<<a, n>>] = None <=> Ran(a, n) = {}
             /\ \A t \in Ran(a, n) :
                    sth[<<a, n>>] = [log_id |-> a, epoch |-> n, root |-> call[t].root]
  <2>1. Cardinality(Ran(a, n)) <= 1
    BY <1>1, AtMostOne DEF AuthorInv, Authored
  <2>2. ASSUME NEW t \in Ran(a, n)
        PROVE  /\ sth[<<a, n>>] = [log_id |-> a, epoch |-> n, root |-> call[t].root]
               /\ sth[<<a, n>>] # None
    BY <1>1, RecordedIsEntry DEF Ran, AuthorInv, Kept, EntryAddress, Recorded
  <2>3. QED
    BY <1>1, <2>1, <2>2 DEF AuthorInv, Authored
<1>2. TypeOK /\ AuthorInv => EntriesHaveOneAuthor
  BY <1>1, Zenon DEF EntriesHaveOneAuthor, Ran
<1>3. QED
  BY <1>2, AuthorAlways, ProgramTypesCorrect, PTL

\* The same of the witness sets (anchor_witness_set).
THEOREM WitnessSetsAlwaysHaveOneAuthor == Spec => []WitnessSetsHaveOneAuthor
<1>1. ASSUME TypeOK, AuthorInv, NEW a \in Authorities
      PROVE  /\ Cardinality(RanSet(a)) <= 1
             /\ witness_set[a] = None <=> RanSet(a) = {}
             /\ \A t \in RanSet(a) :
                    witness_set[a] = [log_id |-> a, commitment |-> call[t].commitment]
  <2>1. Cardinality(RanSet(a)) <= 1
    BY <1>1, AtMostOne DEF AuthorInv, Authored
  <2>2. ASSUME NEW t \in RanSet(a)
        PROVE  /\ witness_set[a] = [log_id |-> a, commitment |-> call[t].commitment]
               /\ witness_set[a] # None
    BY <1>1, SetIsRecorded DEF RanSet, AuthorInv, Kept
  <2>3. QED
    BY <1>1, <2>1, <2>2 DEF AuthorInv, Authored
<1>2. TypeOK /\ AuthorInv => WitnessSetsHaveOneAuthor
  BY <1>1, Zenon DEF WitnessSetsHaveOneAuthor, RanSet
<1>3. QED
  BY <1>2, AuthorAlways, ProgramTypesCorrect, PTL
=============================================================================
