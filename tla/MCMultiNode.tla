----------------------------- MODULE MCMultiNode -----------------------------
(***************************************************************************)
(* Small instances of MultiNode.                                           *)
(***************************************************************************)
EXTENDS MultiNode, TLC

CONSTANTS n1, n2, u1, u2

TwoNodes == <<n1, n2>>
SameOrder == n1 :> 1 @@ n2 :> 1
OneWithoutWork == n1 :> 0 @@ n2 :> 1

AtGenesis == n1 :> 0 @@ n2 :> 0
OneAhead == n1 :> 0 @@ n2 :> 1

\* Chains that grow from the start, under every mode that compares nodes by what they
\* know of the chain or not at all; two users where there is no active node.
ReadSetups ==
    [mode : {"HighestHead", "TotalDifficulty", "RoundRobin"}, users : {{u1}},
     chain : {AtGenesis}]
    \union [mode : {"RandomRPC"}, users : {{u1, u2}}, chain : {AtGenesis}]

\* The lease check alone and against one user, on chains of different heights or in
\* turns, and two users against each other.
LiveSetups ==
    {[mode |-> "TotalDifficulty", users |-> {}, chain |-> OneAhead],
     [mode |-> "HighestHead", users |-> {u1}, chain |-> OneAhead],
     [mode |-> "PriorityLevel", users |-> {u1}, chain |-> AtGenesis],
     [mode |-> "RoundRobin", users |-> {u1, u2}, chain |-> AtGenesis]}

=============================================================================
