---------------------------- MODULE MCCatchingUp ----------------------------
(* Witnessing with two honest witnesses that may be started on two           *)
(* histories, a client that believes either, and one that asks for both.    *)
EXTENDS Witnessing

CONSTANTS either, both

TwoClients == {either, both}
TrustAll == [c \in Clients |-> Witnesses]
OwnThreshold == [c \in Clients |-> IF c = both THEN 2 ELSE 1]
=============================================================================
