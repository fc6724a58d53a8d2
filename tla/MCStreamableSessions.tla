------------------------ MODULE MCStreamableSessions ------------------------
\* Small instances of StreamableSessions for TLC.
EXTENDS StreamableSessions

CONSTANTS d1, d2, a, g1, g2, g3

Small(dispatchers, gets, answer_events, notes, replay_limit, sweeps) ==
  [dispatchers |-> dispatchers, gets |-> gets, answer_events |-> answer_events,
   notes |-> notes, replay_limit |-> replay_limit, sweeps |-> sweeps]

\* Two threads, with expiry: the end of an answer, and an unsolicited message.
EndAcross  == Small({d1, d2}, {g1}, 2, 0, 4, TRUE)
NoteAcross == Small({d1, d2}, {g1}, 1, 1, 4, TRUE)

\* Two threads, with more of the answer left than a client reads before it is cut
\* off twice, or more than one unsolicited message.
AnsweredAcross == Small({d1, d2}, {g1, g2}, 3, 0, 4, FALSE)
NotedAcross    == Small({d1, d2}, {g1, g2}, 1, 2, 4, FALSE)

\* One thread: three reconnections, and the session's own traffic.
Resuming == Small({d1}, {g1, g2, g3}, 3, 0, 3, FALSE)
Sweeping == Small({d1}, {g1, g2}, 1, 2, 2, TRUE)

SmallSettings == {EndAcross, NoteAcross, AnsweredAcross, NotedAcross, Resuming, Sweeping}

\* A client has one GET at a time: they are named in the order they arrive.
InOrder == \A earlier \in {<<g1, g2>>, <<g2, g3>>} :
             conn[earlier[2]] # "unborn" => conn[earlier[1]] # "unborn"

SmallSpec == SessionInit /\ [][SessionNext /\ InOrder']_sessionVars /\ SessionFairness
=============================================================================
