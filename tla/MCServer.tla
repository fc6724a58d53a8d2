------------------------------ MODULE MCServer -------------------------------
\* Instances of ServerSessions and ServerQuestions.
EXTENDS ServerQuestions

CONSTANTS h1, h2, h3, p, onThread, onLoop, onLoop2

Work(n, asked, carriers) == [inputs |-> n, calls |-> asked, conns |-> carriers]

\* Nobody asks, and more may arrive: on three connections that carry HTTP, or on
\* two and a pipe.
NothingAsked == {Work(4, {}, {h1, h2, h3}), Work(3, {}, {h1, h2, p})}

\* A question from either thread, or two, to a client on a stream or a pipe.
SomethingAsked ==
    {Work(2, {onThread}, {h1, h2}), Work(3, {onLoop}, {h1, h2}),
     Work(2, {onLoop, onLoop2}, {h1, h2}), Work(2, {onThread, onLoop}, {p})}

SomeWork == NothingAsked \cup SomethingAsked

\* Connections are alike until they are accepted: they are named in that order.
InOrder == \A earlier \in {<<h1, h2>>, <<h2, h3>>} :
             conn[earlier[1]].state = "unused" => conn'[earlier[2]] = conn[earlier[2]]

SomeSpec == QInit /\ [][QNext /\ InOrder]_allvars /\ QFairness
=============================================================================
