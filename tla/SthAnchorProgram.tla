-------------------------- MODULE SthAnchorProgram --------------------------
(***************************************************************************)
(* The Solana program sth-anchor, as its instructions run on a public      *)
(* chain (the production counterpart of MockLedger).                       *)
(*                                                                         *)
(* A transaction carries one call.  After it is sent it may execute, once, *)
(* at any later time and in any order with the others, or expire without   *)
(* executing; a sender may hear of the outcome or not, and may send the    *)
(* same call again in a new transaction.  That much of the chain is        *)
(* external; what an execution does is the program.                        *)
(***************************************************************************)
EXTENDS Naturals, FiniteSets

CONSTANTS Authorities,   \* log authorities: the keys that sign and pay
          Epochs, Roots, Commitments,
          Txs,           \* transactions
          None

\* The accounts the program creates.
Entries == [log_id : Authorities, epoch : Epochs, root : Roots]
WitnessSets == [log_id : Authorities, commitment : Commitments]

ASSUME NoneIsNothing == None \notin Entries \cup WitnessSets

RootCalls == [authority : Authorities, epoch : Epochs, root : Roots]
SetCalls == [authority : Authorities, commitment : Commitments]

VARIABLES sth,           \* sth[<<a, n>>]: the PDA of authority a and epoch n, or None
          witness_set,   \* witness_set[a]: the PDA of authority a, or None
          call,          \* call[t]: the call transaction t carries, or None
          status,        \* status[t]: unsent, sent, ok, aborted or expired
          heard          \* transactions of whose outcome the sender knows

vars == <<sth, witness_set, call, status, heard>>

Init ==
    /\ sth = [p \in Authorities \X Epochs |-> None]
    /\ witness_set = [a \in Authorities |-> None]
    /\ call = [t \in Txs |-> None]
    /\ status = [t \in Txs |-> "unsent"]
    /\ heard = {}

-----------------------------------------------------------------------------
(* The chain between the caller and the program.                           *)

\* A sender signs and sends a new transaction, perhaps one more time the call
\* of an earlier one.
Send(t, c) ==
    /\ status[t] = "unsent"
    /\ call' = [call EXCEPT ![t] = c]
    /\ status' = [status EXCEPT ![t] = "sent"]
    /\ UNCHANGED <<sth, witness_set, heard>>

Expire(t) ==
    /\ status[t] = "sent"
    /\ status' = [status EXCEPT ![t] = "expired"]
    /\ UNCHANGED <<sth, witness_set, call, heard>>

Hear(t) ==
    /\ status[t] \in {"ok", "aborted"}
    /\ heard' = heard \cup {t}
    /\ UNCHANGED <<sth, witness_set, call, status>>

-----------------------------------------------------------------------------
(* The program.                                                            *)

\* Faults: the account may exist already (init_if_needed); the address does
\* not depend on the authority.
CanInitAgain(account) == TRUE
SharedAddress(a, n) == <<CHOOSE x \in Authorities : TRUE, n>>

\* #[account(init, ...)]: the account at this address can be created once.
CanInit(account) == account = None

\* The address of an entry: seeds [b"sth", log_authority, epoch].
EntryAddress(a, n) == <<a, n>>

\* Fault: the root is not assigned, and stays as the account was created.
LeavesZeros(c) == [log_id |-> c.authority, epoch |-> c.epoch, root |-> "zeros"]

\* A new entry, field by field.
Recorded(c) == [log_id |-> c.authority, epoch |-> c.epoch, root |-> c.root]

\* anchor_root
AnchorRoot(t) ==
    LET c == call[t]
        entry == EntryAddress(c.authority, c.epoch)
    IN  /\ status[t] = "sent" /\ c \in RootCalls
        /\ IF CanInit(sth[entry])
           THEN /\ sth' = [sth EXCEPT ![entry] = Recorded(c)]
                /\ status' = [status EXCEPT ![t] = "ok"]
           ELSE /\ status' = [status EXCEPT ![t] = "aborted"]
                /\ UNCHANGED sth
        /\ UNCHANGED <<witness_set, call, heard>>

\* anchor_witness_set; seeds [b"witnessset", log_authority]
AnchorWitnessSet(t) ==
    LET c == call[t]
    IN  /\ status[t] = "sent" /\ c \in SetCalls
        /\ IF CanInit(witness_set[c.authority])
           THEN /\ witness_set' = [witness_set EXCEPT ![c.authority] =
                                     [log_id |-> c.authority, commitment |-> c.commitment]]
                /\ status' = [status EXCEPT ![t] = "ok"]
           ELSE /\ status' = [status EXCEPT ![t] = "aborted"]
                /\ UNCHANGED witness_set
        /\ UNCHANGED <<sth, call, heard>>

Next ==
    \/ \E t \in Txs, c \in RootCalls \cup SetCalls : Send(t, c)
    \/ \E t \in Txs : Expire(t)
    \/ \E t \in Txs : AnchorRoot(t)
    \/ \E t \in Txs : AnchorWitnessSet(t)
    \/ \E t \in Txs : Hear(t)

Spec == Init /\ [][Next]_vars

-----------------------------------------------------------------------------
(* Properties.                                                             *)

TypeOK ==
    /\ sth \in [Authorities \X Epochs -> Entries \cup {None}]
    /\ witness_set \in [Authorities -> WitnessSets \cup {None}]
    /\ call \in [Txs -> RootCalls \cup SetCalls \cup {None}]
    /\ status \in [Txs -> {"unsent", "sent", "ok", "aborted", "expired"}]
    /\ heard \subseteq Txs

EntryTable ==
    INSTANCE WriteOnce WITH table <- sth, Keys <- Authorities \X Epochs, Values <- Entries

\* The entries of all authorities are a write-once table, whatever is sent
\* again, expires or executes out of order (init of AnchorRoot).
EntriesAreWriteOnce == EntryTable!Spec

\* An entry is its authority's own: it holds the root of exactly one of the
\* transactions that authority had executed for that epoch, every other one
\* aborted, and what an authority hears as done is what a client reads.
EntriesHaveOneAuthor ==
    \A a \in Authorities, n \in Epochs :
        LET ran == {t \in Txs : /\ status[t] = "ok"
                                /\ call[t] \in RootCalls
                                /\ call[t].authority = a /\ call[t].epoch = n}
        IN  /\ Cardinality(ran) <= 1
            /\ sth[<<a, n>>] = None <=> ran = {}
            /\ \A t \in ran : sth[<<a, n>>] = [log_id |-> a, epoch |-> n, root |-> call[t].root]

\* The same of the witness sets: one per authority, published once.
WitnessSetsHaveOneAuthor ==
    \A a \in Authorities :
        LET ran == {t \in Txs : /\ status[t] = "ok"
                                /\ call[t] \in SetCalls
                                /\ call[t].authority = a}
        IN  /\ Cardinality(ran) <= 1
            /\ witness_set[a] = None <=> ran = {}
            /\ \A t \in ran : witness_set[a] = [log_id |-> a, commitment |-> call[t].commitment]

\* What the program's header says of anchor_root, that it mirrors
\* Ledger::submit exactly: a call is refused only if a different root is
\* committed at that epoch.
RefusedOnlyIfDifferent ==
    \A t \in heard :
        status[t] = "aborted" /\ call[t] \in RootCalls =>
            sth[call[t].authority, call[t].epoch].root # call[t].root
=============================================================================
