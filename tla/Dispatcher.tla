----------------------------- MODULE Dispatcher -----------------------------
(***************************************************************************)
(* One event dispatcher (LibeventDispatcher), the thread that runs it, the *)
(* threads that post to it, and whoever ends it (WorkerImpl, McpClient's   *)
(* and McpServer's shutdown).                                              *)
(*   src/src/event/libevent_dispatcher.cc, src/src/event/worker.cc         *)
(* A closure is pushed under the lock; if the queue was empty a byte is    *)
(* written to a pipe after the unlock.  The loop, woken by it, drains the  *)
(* pipe and takes the whole queue in one swap.  run() looks at the queue   *)
(* on its way in and out as well, and begins by forgetting that anybody    *)
(* asked it to end; libevent does the same with a break asked for outside  *)
(* its own loop.                                                           *)
(*                                                                         *)
(* Abstractions.  A callback is a closure, a timer's, or the destruction   *)
(* of what was put off; while it lasts it may do anything the dispatcher   *)
(* offers, in any order.  A timer that is enabled may be due.  A file      *)
(* event's callback is one more callback the loop runs, and left out.      *)
(***************************************************************************)
EXTENDS Integers, Sequences, FiniteSets

CONSTANTS
  Closures,   \* each is posted at most once
  Threads,    \* other threads, that post
  Stopper,    \* the thread that stops and joins, or destroys
  Timers,
  Objects,    \* what is handed to deferredDelete, each once
  Worlds      \* who runs the dispatcher, the calls of run() it makes, what it is given

RunTypes == {"Block", "NonBlock", "RunUntilExit"}

\* post() puts these in the queue beside the closures of others.
Own == {"break", "drain"}

ASSUME DispatcherAssumption ==
  /\ Stopper \notin Threads
  /\ (Closures \cup Timers) \cap (Own \cup {"none", "deleting"}) = {}
  /\ Closures \cap Timers = {}
  /\ Worlds \subseteq [owner : {"worker", "client", "server"}, runs : Seq(RunTypes),
                      closures : SUBSET Closures, objects : SUBSET Objects]

VARIABLES
  world,
  loop,      \* the thread: where it is, what it runs, what it has swapped out
  posts,     \* post_callbacks_, the pipe, who has yet to write to it
  deferred,  \* deferred_delete_list_ and its callback
  timers,    \* the enabled ones
  flags,     \* exit_requested_, *dispatcher_valid_
  stopper    \* how far stop() is

vars == <<world, loop, posts, deferred, timers, flags, stopper>>

Loop ==
  [pc : {"new", "created", "begin", "beginning", "test", "loop", "drained", "woken", "after",
         "afterwards", "ended", "down"},
   type : RunTypes, left : Seq(RunTypes),
   current : Closures \cup Timers \cup {"none", "deleting"},
   batch : Seq(Closures \cup Own),
   broke : BOOLEAN,      \* event_break, of libevent's
   handled : BOOLEAN,    \* an event was, since event_base_loop was entered
   known : BOOLEAN,      \* thread_id_ is set
   heeded : BOOLEAN]     \* an exit came that this run has to end for (history)

Posts ==
  [queue : Seq(Closures \cup Own),
   byte : BOOLEAN,                     \* something to read at wakeup_fd_[0]
   owes : SUBSET (Threads \cup {Stopper}),  \* between the unlock and the write
   unposted : SUBSET Closures,
   pushed : Seq(Closures \cup Own),    \* all that is or was in the queue, but what
   ran : Nat]                          \* was dropped, and how many have begun (history)

Deferred ==
  [list : SUBSET Objects,
   scheduled : {"no", "timer", "posted", "never"},  \* scheduled_, and what will run it
   doomed : SUBSET Objects,            \* to_delete
   fresh : SUBSET Objects,             \* handed over by the callback that runs (history)
   gone : SUBSET Objects]              \* destroyed (history)

\* Every field stays in its range.
TypeOK ==
  /\ world \in Worlds
  /\ loop \in Loop /\ posts \in Posts /\ deferred \in Deferred
  /\ timers \subseteq Timers
  /\ flags \in [exit_requested : BOOLEAN, valid : BOOLEAN]
  /\ stopper \in {"idle", "flagged", "posted", "joined"}

Init ==
  /\ world \in Worlds
  /\ loop = [pc |-> "new", type |-> "Block", left |-> world.runs, current |-> "none", batch |-> <<>>,
             broke |-> FALSE, handled |-> FALSE, known |-> FALSE, heeded |-> FALSE]
  /\ posts = [queue |-> <<>>, byte |-> FALSE, owes |-> {}, unposted |-> world.closures, pushed |-> <<>>, ran |-> 0]
  /\ deferred = [list |-> {}, scheduled |-> "no", doomed |-> {}, fresh |-> {}, gone |-> {}]
  /\ timers = {}
  /\ flags = [exit_requested |-> FALSE, valid |-> TRUE]
  /\ stopper = "idle"
-----------------------------------------------------------------------------
\* post.  On the dispatcher's thread nothing can come between the unlock and
\* the write; elsewhere anything can.
Pushed(p, c) ==
  [p EXCEPT !.queue = Append(@, c), !.pushed = Append(@, c), !.unposted = @ \ {c}]

\* Variant: on its own thread the dispatcher is awake.
PostedHere_Quiet(p, c) == Pushed(p, c)

PostedHere(p, c) == [Pushed(p, c) EXCEPT !.byte = @ \/ p.queue = <<>>]

PostedBy(th, c) ==
  posts' = [Pushed(posts, c) EXCEPT !.owes = IF posts.queue = <<>> THEN @ \cup {th} ELSE @]

\* Nobody posts to a dispatcher that is no more; a worker's outlives its thread.
post ==
  /\ loop.pc # "down" \/ world.owner = "worker"
  /\ \E th \in Threads \ posts.owes, c \in posts.unposted :
       PostedBy(th, c) /\ UNCHANGED <<world, loop, deferred, timers, flags, stopper>>

Write ==
  \E th \in posts.owes :
    /\ posts' = [posts EXCEPT !.owes = @ \ {th}, !.byte = TRUE]
    /\ UNCHANGED <<world, loop, deferred, timers, flags, stopper>>
-----------------------------------------------------------------------------
\* What code on the dispatcher's own thread does: a callback, the owner before
\* the thread is there, and a server between its two calls of run().
SettingUp == loop.pc = "new" /\ ~loop.known
BetweenRuns == world.owner = "server" /\ loop.pc = "ended" /\ loop.left # <<>>
Acting == loop.current # "none" \/ SettingUp \/ BetweenRuns

PostHere ==
  /\ Acting
  /\ \E c \in posts.unposted : posts' = PostedHere(posts, c)
  /\ UNCHANGED <<world, loop, deferred, timers, flags, stopper>>

enableTimer ==
  /\ Acting /\ \E t \in Timers : timers' = timers \cup {t}
  /\ UNCHANGED <<world, loop, posts, deferred, flags, stopper>>

disableTimer ==
  /\ Acting /\ \E t \in timers : timers' = timers \ {t}
  /\ UNCHANGED <<world, loop, posts, deferred, flags, stopper>>

\* scheduleCallbackCurrentIteration, by a timer of no time at all or, where
\* thread_id_ is not set yet, by a closure.
deferredDelete ==
  /\ Acting
  /\ \E o \in world.objects \ (deferred.list \cup deferred.doomed \cup deferred.gone) :
       deferred' = [deferred EXCEPT !.list = @ \cup {o},
                                    !.fresh = IF loop.current # "none" THEN @ \cup {o} ELSE @,
                                    !.scheduled = IF @ # "no" THEN @
                                                  ELSE IF loop.known THEN "timer" ELSE "posted"]
  /\ posts' = IF deferred.scheduled = "no" /\ ~loop.known THEN PostedHere(posts, "drain") ELSE posts
  /\ UNCHANGED <<world, loop, timers, flags, stopper>>

\* An exit is in time for the run under way once nothing will forget it.
InTime == {"test", "loop", "drained", "woken", "after", "afterwards"}

exit ==
  /\ Acting /\ loop.known
  /\ flags' = [flags EXCEPT !.exit_requested = TRUE]
  /\ loop' = [loop EXCEPT !.broke = TRUE, !.heeded = @ \/ loop.pc \in InTime]
  /\ UNCHANGED <<world, posts, deferred, timers, stopper>>

Return ==
  /\ loop.current # "none" /\ (loop.current = "deleting" => deferred.doomed = {})
  /\ loop' = [loop EXCEPT !.current = "none"]
  /\ deferred' = [deferred EXCEPT !.fresh = {}]
  /\ UNCHANGED <<world, posts, timers, flags, stopper>>
-----------------------------------------------------------------------------
\* run.
Idle == loop.current = "none"

Start ==
  /\ loop.pc = "new" /\ loop.left # <<>>
  /\ loop' = [loop EXCEPT !.pc = "created"]
  /\ UNCHANGED <<world, posts, deferred, timers, flags, stopper>>

run ==
  /\ loop.pc = "created" \/ BetweenRuns
  /\ loop' = [loop EXCEPT !.pc = "begin", !.type = Head(loop.left), !.left = Tail(loop.left),
                          !.known = TRUE, !.heeded = FALSE]
  /\ flags' = [flags EXCEPT !.exit_requested = FALSE]
  /\ UNCHANGED <<world, posts, deferred, timers, stopper>>

\* runPostCallbacks: the swap, and then one closure after the other.
SwappedTo == [begin |-> "beginning", drained |-> "woken", after |-> "afterwards"]

TakePosts ==
  /\ loop.pc \in DOMAIN SwappedTo
  /\ loop' = [loop EXCEPT !.pc = SwappedTo[@], !.batch = posts.queue]
  /\ posts' = [posts EXCEPT !.queue = <<>>]
  /\ UNCHANGED <<world, deferred, timers, flags, stopper>>

\* runDeferredDeletes: what destructors hand over waits for the next turn.
Doomed(d) == [d EXCEPT !.scheduled = "no", !.doomed = d.list, !.list = {}]

RunPost ==
  /\ loop.pc \in {"beginning", "woken", "afterwards"} /\ Idle /\ loop.batch # <<>>
  /\ LET c == Head(loop.batch)
         l == [loop EXCEPT !.batch = Tail(@)]
     IN CASE c = "break" ->
               /\ loop' = [l EXCEPT !.broke = TRUE]
               /\ UNCHANGED deferred
          [] c = "drain" ->
               /\ loop' = [l EXCEPT !.current = "deleting"]
               /\ deferred' = Doomed(deferred)
          [] OTHER ->
               /\ loop' = [l EXCEPT !.current = c]
               /\ UNCHANGED deferred
  /\ posts' = [posts EXCEPT !.ran = @ + 1]
  /\ UNCHANGED <<world, timers, flags, stopper>>

PostsRan ==
  /\ Idle /\ loop.batch = <<>>
  /\ \/ loop.pc = "beginning" /\ loop' = [loop EXCEPT !.pc = "test"]
     \/ loop.pc = "woken" /\ loop' = [loop EXCEPT !.pc = "loop"]
     \/ /\ loop.pc = "afterwards"
        /\ loop' = [loop EXCEPT !.pc = IF loop.type = "RunUntilExit" THEN "test" ELSE "ended"]
  /\ UNCHANGED <<world, posts, deferred, timers, flags, stopper>>

\* event_base_loop, entered: a break asked for before is forgotten.
EnterLoop ==
  /\ loop.pc = "test"
  /\ loop' = IF loop.type = "RunUntilExit" /\ flags.exit_requested
             THEN [loop EXCEPT !.pc = "ended"]
             ELSE [loop EXCEPT !.pc = "loop", !.broke = FALSE, !.handled = FALSE]
  /\ UNCHANGED <<world, posts, deferred, timers, flags, stopper>>

Dispatching == loop.pc = "loop" /\ Idle /\ ~loop.broke

\* postWakeupCallback: the pipe is drained before the queue is looked at.
postWakeupCallback ==
  /\ Dispatching /\ posts.byte
  /\ posts' = [posts EXCEPT !.byte = FALSE]
  /\ loop' = [loop EXCEPT !.pc = "drained", !.handled = TRUE]
  /\ UNCHANGED <<world, deferred, timers, flags, stopper>>

\* timerCallback.  A dispatcher that was shut down once runs none of them.
timerCallback(t) ==
  /\ Dispatching /\ t \in timers
  /\ timers' = timers \ {t}
  /\ loop' = [loop EXCEPT !.handled = TRUE, !.current = IF flags.valid THEN t ELSE @]
  /\ UNCHANGED <<world, posts, deferred, flags, stopper>>

DrainTimer ==
  /\ Dispatching /\ deferred.scheduled = "timer"
  /\ loop' = [loop EXCEPT !.handled = TRUE, !.current = IF flags.valid THEN "deleting" ELSE @]
  /\ deferred' = IF flags.valid THEN Doomed(deferred) ELSE [deferred EXCEPT !.scheduled = "never"]
  /\ UNCHANGED <<world, posts, timers, flags, stopper>>

\* Variant: the list itself is emptied.
Destroy_InPlace ==
  /\ loop.current = "deleting"
  /\ \E o \in deferred.doomed \cup deferred.list :
       deferred' = [deferred EXCEPT !.doomed = @ \ {o}, !.list = @ \ {o}, !.gone = @ \cup {o}]
  /\ UNCHANGED <<world, loop, posts, timers, flags, stopper>>

Destroy ==
  /\ loop.current = "deleting"
  /\ \E o \in deferred.doomed :
       deferred' = [deferred EXCEPT !.doomed = @ \ {o}, !.gone = @ \cup {o}]
  /\ UNCHANGED <<world, loop, posts, timers, flags, stopper>>

\* event_base_loop returns: broken out of, or for want of events, or after
\* those of one turn (EVLOOP_ONCE).
LoopReturns ==
  /\ loop.pc = "loop" /\ Idle
  /\ \/ loop.broke
     \/ loop.type = "RunUntilExit" /\ loop.handled
     \/ loop.type = "NonBlock" /\ (loop.handled \/ ~posts.byte)
  /\ loop' = [loop EXCEPT !.pc = "after"]
  /\ UNCHANGED <<world, posts, deferred, timers, flags, stopper>>
-----------------------------------------------------------------------------
\* shutdown: on the worker's own thread, or by the destructor.
ShutDown ==
  /\ flags' = [exit_requested |-> TRUE, valid |-> FALSE]
  /\ deferred' = [deferred EXCEPT !.gone = @ \cup deferred.list, !.list = {}]
  /\ posts' = [posts EXCEPT !.queue = <<>>, !.pushed = SubSeq(@, 1, posts.ran)]
  /\ loop' = [loop EXCEPT !.pc = "down", !.heeded = FALSE]
  /\ UNCHANGED <<world, timers>>

threadRoutine == world.owner = "worker" /\ loop.pc = "ended" /\ ShutDown /\ UNCHANGED stopper

\* stop: the flag, the break where it can end a loop, the join.
stop ==
  /\ world.owner \in {"worker", "client"} /\ stopper = "idle" /\ loop.pc # "new"
  /\ flags' = [flags EXCEPT !.exit_requested = TRUE]
  /\ loop' = [loop EXCEPT !.heeded = @ \/ loop.pc \in InTime]
  /\ stopper' = "flagged"
  /\ UNCHANGED <<world, posts, deferred, timers>>

\* Variant: the flag is enough.
PostBreak_Unposted ==
  /\ stopper = "flagged" /\ stopper' = "posted"
  /\ UNCHANGED <<world, loop, posts, deferred, timers, flags>>

PostBreak ==
  /\ stopper = "flagged" /\ stopper' = "posted"
  /\ PostedBy(Stopper, "break")
  /\ UNCHANGED <<world, loop, deferred, timers, flags>>

join ==
  /\ stopper = "posted" /\ Stopper \notin posts.owes
  /\ loop.pc = IF world.owner = "worker" THEN "down" ELSE "ended"
  /\ stopper' = "joined"
  /\ UNCHANGED <<world, loop, posts, deferred, timers, flags>>

\* What follows the join: a client's dispatcher is destroyed, a worker may be
\* started again.  A server's is destroyed with the server.
Destructor ==
  /\ loop.pc = "ended" /\ posts.owes = {}
  /\ \/ world.owner = "client" /\ stopper = "joined"
     \/ world.owner = "server" /\ loop.left = <<>>
  /\ ShutDown /\ UNCHANGED stopper

StartAgain ==
  /\ world.owner = "worker" /\ stopper = "joined" /\ loop.left # <<>>
  /\ stopper' = "idle" /\ loop' = [loop EXCEPT !.pc = "created"]
  /\ UNCHANGED <<world, posts, deferred, timers, flags>>
-----------------------------------------------------------------------------
Callback == PostHere \/ enableTimer \/ disableTimer \/ deferredDelete \/ exit

Turn == run \/ TakePosts \/ RunPost \/ PostsRan \/ EnterLoop \/ Return \/ Destroy \/ threadRoutine

Next ==
  \/ post \/ Write \/ Callback \/ Start \/ Turn
  \/ postWakeupCallback \/ DrainTimer \/ LoopReturns \/ \E t \in Timers : timerCallback(t)
  \/ stop \/ PostBreak \/ join \/ Destructor \/ StartAgain

\* The thread goes on and callbacks return (Return and Destroy are turns).
\* libevent polls between any two turns, and so comes to whatever stays ready,
\* however much else is.
Fairness ==
  /\ WF_vars(Turn) /\ WF_vars(Write) /\ WF_vars(PostBreak \/ join)
  /\ SF_vars(postWakeupCallback) /\ SF_vars(DrainTimer) /\ SF_vars(LoopReturns)

Spec == Init /\ [][Next]_vars /\ Fairness
-----------------------------------------------------------------------------
\* The loop does not sleep on work: while it may be polling, a closure in the
\* queue has a byte in the pipe, or a thread about to put one there (post,
\* postWakeupCallback).
NoWakeUpLost ==
  loop.pc = "loop" /\ posts.queue # <<>> => posts.byte \/ posts.owes # {}

\* What has not run yet is, in the order it was posted, what was swapped out
\* and then what is in the queue: nothing is lost, doubled or overtaken on
\* its way from one to the other (runPostCallbacks).
InOrder ==
  /\ Len(posts.pushed) = posts.ran + Len(loop.batch) + Len(posts.queue)
  /\ \A n \in 1..Len(loop.batch) : loop.batch[n] = posts.pushed[posts.ran + n]
  /\ \A n \in 1..Len(posts.queue) :
       posts.queue[n] = posts.pushed[posts.ran + Len(loop.batch) + n]

\* Between any two steps every closure posted has its place, and the loop will
\* come to it.
PostsSound == TypeOK /\ NoWakeUpLost /\ InOrder

\* "never run the callback synchronously" (scheduleCallbackCurrentIteration):
\* what a callback, or a destructor, hands to deferredDelete is there until
\* that callback is over, and is destroyed once (runDeferredDeletes).
DeletedAfterUse ==
  /\ deferred.fresh \cap deferred.gone = {}
  /\ (deferred.list \cup deferred.doomed) \cap deferred.gone = {}
  /\ deferred.list \cap deferred.doomed = {}

Going == loop.pc # "new"
Over == loop.pc = "down" \/ (loop.pc = "ended" /\ loop.left = <<>>)
Waiting(c) == \E n \in 1..Len(loop.batch \o posts.queue) : (loop.batch \o posts.queue)[n] = c

\* Nobody waits for the loop: no closure posted, no object handed over, no exit
\* that came in time for the run, nobody who joins the thread.
NobodyWaits ==
  /\ Going => Over \/ \A c \in Closures : ~Waiting(c)
  /\ Going => Over \/ deferred.list = {} \/ ~flags.valid
  /\ loop.heeded => loop.pc \in {"ended", "down"}
  /\ loop.heeded \/ loop.pc = "down" => stopper \notin {"flagged", "posted"}

\* While a thread runs the dispatcher, whatever was posted runs, whatever was
\* handed over is destroyed, and an exit in time for the run ends it, so that
\* whoever joins the thread returns ("This will cause the dispatcher to exit
\* and the thread to join", event_loop.h:529): again and again comes a moment
\* when nobody waits.
LoopKeepsItsWord == []<>NobodyWaits
=============================================================================
