----------------------------- MODULE OneHistory -----------------------------
(***************************************************************************)
(* What the witness federation promises as a whole: the heads that clients *)
(* come to trust, taken together, always belong to one append-only         *)
(* history.  Heads may become trusted in any order, also a smaller one     *)
(* after a larger; none is ever dropped.                                   *)
(***************************************************************************)
EXTENDS TreeHeads

VARIABLE trusted   \* the heads some client trusts

Init == trusted = {}

Trust(h) ==
    /\ \A g \in trusted : Consistent(g, h)
    /\ trusted' = trusted \cup {h}

Next == \E h \in Heads : Trust(h)

Spec == Init /\ [][Next]_trusted
=============================================================================
