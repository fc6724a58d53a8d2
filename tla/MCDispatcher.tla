---------------------------- MODULE MCDispatcher ----------------------------
\* A small instance of Dispatcher for TLC: the three ways it is run.
EXTENDS Dispatcher

CONSTANTS c1, c2, o1, o2, th, app, tm

World(owner, runs, closures, objects) ==
  [owner |-> owner, runs |-> runs, closures |-> closures, objects |-> objects]

AllWorlds ==
  {World("worker", <<"RunUntilExit">>, {c1, c2}, {o1}),
   World("worker", <<"RunUntilExit", "RunUntilExit">>, {c1}, {o1}),   \* started again
   World("client", <<"Block">>, {c1, c2}, {o1}),
   World("client", <<"Block">>, {c1}, {o1, o2}),
   World("server", <<"NonBlock", "Block">>, {c1}, {o1, o2})}
=============================================================================
