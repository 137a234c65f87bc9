------------------------------ MODULE WriteOnce ------------------------------
(***************************************************************************)
(* What `trait Ledger` promises of its epochs: a table in which each entry *)
(* is written at most once and then never changes.                         *)
(***************************************************************************)
CONSTANTS Keys, Values, None

VARIABLE table   \* table[k]: the value committed at k, or None

Init == table = [k \in Keys |-> None]

Write(k, v) ==
    /\ table[k] = None
    /\ table' = [table EXCEPT ![k] = v]

Next == \E k \in Keys, v \in Values : Write(k, v)

Spec == Init /\ [][Next]_table
=============================================================================
