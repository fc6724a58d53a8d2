---------------------------- MODULE RequestLifetime ----------------------------
(***************************************************************************)
(* What a request over the Streamable HTTP transport can come to, whatever *)
(* connections, streams, gates and timers do meanwhile: the promise        *)
(* transport::RequestExchange makes to the code that answers, and which    *)
(* RequestExchange.tla implements.                                         *)
(***************************************************************************)
CONSTANT Requests

VARIABLE life   \* per request: how far it has come

Life == {"unasked",
         "open",        \* asked, nothing of the answer sent
         "streaming",   \* its answer has begun as a stream
         "answered",
         "cancelled",   \* its connection is gone and its handler was told so
         "kept",        \* its connection is gone and its answer goes on into a buffer
         "finished",    \* kept, answered, and held for a client that returns
         "released"}    \* nobody came back in time

Init == life = [r \in Requests |-> "unasked"]

Moves(r, from, to) == life[r] \in from /\ life' = [life EXCEPT ![r] = to]

\* A handler may have answered, or its stream begun, before control is back.
Ask(r)    == \E to \in {"open", "streaming", "answered"} : Moves(r, {"unasked"}, to)
Stream(r) == Moves(r, {"open"}, "streaming")
Answer(r) == Moves(r, {"open", "streaming", "cancelled"}, "answered")
Finish(r) == Moves(r, {"kept"}, "finished")

\* A connection takes every request it carries with it, and leaves none of
\* them undecided: only a stream can be carried on with.
Lose ==
  \E carried_on \in SUBSET {r \in Requests : life[r] = "streaming"} :
    life' = [r \in Requests |->
               IF r \in carried_on THEN "kept"
               ELSE IF life[r] \in {"open", "streaming"} THEN "cancelled"
               ELSE life[r]]

Release ==
  \E expired \in (SUBSET {r \in Requests : life[r] = "finished"}) \ {{}} :
    life' = [r \in Requests |-> IF r \in expired THEN "released" ELSE life[r]]

Next ==
  \/ \E r \in Requests : Ask(r) \/ Stream(r) \/ Answer(r) \/ Finish(r)
  \/ Lose
  \/ Release

\* The steps a request may take, whether or not it takes them.
Steps == Init /\ [][Next]_life

\* What is finished does not stay in memory for ever.
Spec == Steps /\ WF_life(Release)
================================================================================
