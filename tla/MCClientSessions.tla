-------------------------- MODULE MCClientSessions --------------------------
(* ClientSessions with two honest witnesses and one that colludes.         *)
EXTENDS ClientSessions, TLC

CONSTANTS h1, h2, x, pinned, scripted, gossiping

AllKeys == {h1, h2, x}
OneColluder == {x}
OnePinned == {pinned}
OneScripted == {scripted}
OneGossiping == {gossiping}
Entry(id, key) == [id |-> id, key |-> key]
Policy(list, threshold) == [list |-> list, threshold |-> threshold]

\* An operator's mistakes and good choices.  A threshold of 4 is one of 1 in 32
\* bits here.
OperatorPolicies ==
    {Policy(<<Entry(0, h1), Entry(2, x)>>, 2),
     Policy(<<Entry(0, h1)>>, 4),
     Policy(<<Entry(1, h1), Entry(1, x)>>, 1),
     Policy(<<Entry(0, MalformedKey), Entry(1, h2)>>, 1)}

\* An id of 4 is one of 1 in 32 bits here.
OwnPolicy == [s \in Scripted |-> Policy(<<Entry(0, h1), Entry(4, x)>>, 2)]
Sample == <<h1, h2>>

Symmetry == Permutations(Measurements) \cup Permutations(Logs)
=============================================================================
