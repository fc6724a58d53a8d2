---------------------------- MODULE MCClientRequests ----------------------------
\* Each era with calls made on the dispatcher or elsewhere.
EXTENDS ClientRequests

AWorld(era, threads, steady, calls) ==
  [era |-> era, threads |-> threads, steady |-> steady, calls |-> calls]

PassingWorlds == {AWorld("modern", FALSE, TRUE, 1), AWorld("modern", FALSE, FALSE, 1),
                  AWorld("session", FALSE, TRUE, 2), AWorld("session", FALSE, FALSE, 1),
                  AWorld("stdio", TRUE, FALSE, 1)}
================================================================================
