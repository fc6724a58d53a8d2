---------------------------- MODULE DispatcherProofs -------------------------
(***************************************************************************)
(* Theorems of the dispatcher and of what is made to live on dispatchers.  *)
(*                                                                         *)
(* Dispatcher, for any closures, threads, timers and objects, in any world *)
(* it allows: closures run once and in the order they were posted, the     *)
(* loop never polls with one in the queue and nothing to wake it, and      *)
(* nothing is destroyed while the callback that handed it over still runs. *)
(*                                                                         *)
(* StreamableSessions, for any dispatchers, streams, limits and settings:  *)
(* a session's books are sound and nothing waits in it behind a live       *)
(* stream, whatever the order in which its dispatchers take their turns.   *)
(*                                                                         *)
(* Each has its own specification and its own invariant; neither's proof   *)
(* uses the other's.                                                       *)
(***************************************************************************)
EXTENDS Dispatcher, StreamableSessions, FiniteSetTheorems, SequenceTheorems,
        NaturalsInduction, WellFoundedInduction, TLAPS

-----------------------------------------------------------------------------
(* Dispatcher.                                                             *)

\* A thread that was started has a call of run() to make.
CallsLeft == loop.pc = "created" => loop.left # <<>>

\* Between the draining of the pipe and the swap the queue may hold what
\* nothing points to; at no other place of the loop.
Announced ==
  loop.pc # "drained" /\ posts.queue # <<>> => posts.byte \/ posts.owes # {}

\* What was swapped out is run before the loop moves on, and callbacks run
\* where the loop calls them.  A worker that was joined has nothing left.
InItsPlace ==
  /\ loop.batch # <<>> => loop.pc \in {"beginning", "woken", "afterwards"}
  /\ loop.current # "none" => loop.pc \in {"beginning", "woken", "afterwards", "loop"}
  /\ world.owner = "worker" /\ stopper = "joined" => loop.pc = "down"

\* What a callback handed over is not among what is being destroyed.
Spared ==
  /\ loop.current = "none" => deferred.fresh = {}
  /\ deferred.fresh \cap deferred.doomed = {}

\* InOrder, of any four: b and then q is what p holds from the r-th on.
Lined(p, r, b, q) ==
  /\ Len(p) = r + Len(b) + Len(q)
  /\ \A n \in 1..Len(b) : b[n] = p[r + n]
  /\ \A n \in 1..Len(q) : q[n] = p[r + Len(b) + n]

PostsInv == TypeOK /\ CallsLeft /\ Announced /\ InItsPlace /\ InOrder
DeletionInv == InItsPlace /\ Spared /\ DeletedAfterUse
-----------------------------------------------------------------------------
\* Every reachable state is of its type.
LEMMA TypeInit == Init => TypeOK
  BY DispatcherAssumption DEF Init, TypeOK, Loop, Posts, Deferred, RunTypes, Own

LEMMA QueueGrows ==
  ASSUME NEW c \in Closures \cup Own, posts \in Posts
  PROVE  /\ Append(posts.queue, c) \in Seq(Closures \cup Own)
         /\ Append(posts.pushed, c) \in Seq(Closures \cup Own)
         /\ posts.unposted \ {c} \subseteq Closures
  BY DEF Posts

LEMMA PushedType ==
  ASSUME NEW c \in Closures \cup Own, posts \in Posts
  PROVE  Pushed(posts, c) \in Posts /\ PostedHere(posts, c) \in Posts
<1>1. Pushed(posts, c) \in Posts
  BY QueueGrows DEF Pushed, Posts
<1>2. (Pushed(posts, c).byte \/ posts.queue = <<>>) \in BOOLEAN
  OBVIOUS
<1> QED
  BY <1>1, <1>2 DEF PostedHere, Posts, Pushed

LEMMA PostedByType ==
  ASSUME NEW c \in Closures \cup Own, NEW th \in Threads \cup {Stopper}, posts \in Posts, PostedBy(th, c)
  PROVE  posts' \in Posts
<1>1. Pushed(posts, c) \in Posts
  BY PushedType
<1> QED
  BY <1>1 DEF PostedBy, Posts

\* A queue that was taken, a closure that has begun, and what was dropped.
LEMMA TakenType ==
  ASSUME posts \in Posts
  PROVE  [posts EXCEPT !.queue = <<>>] \in Posts
<1>1. <<>> \in Seq(Closures \cup Own)
  OBVIOUS
<1> QED
  BY <1>1 DEF Posts

LEMMA RanType ==
  ASSUME posts \in Posts
  PROVE  [posts EXCEPT !.ran = posts.ran + 1] \in Posts
<1>1. posts.ran + 1 \in Nat
  BY DEF Posts
<1> QED
  BY <1>1 DEF Posts

LEMMA DroppedType ==
  ASSUME posts \in Posts, NEW p \in Seq(Closures \cup Own)
  PROVE  [posts EXCEPT !.queue = <<>>, !.pushed = p] \in Posts
<1>1. <<>> \in Seq(Closures \cup Own)
  OBVIOUS
<1> QED
  BY <1>1 DEF Posts

\* The loop moved on.
LEMMA MovedType ==
  ASSUME loop \in Loop, NEW pc \in {"created", "test", "loop", "after", "ended"}
  PROVE  [loop EXCEPT !.pc = pc] \in Loop
  BY DEF Loop

LEMMA TypeStep == PostsInv /\ [Next]_vars => TypeOK'
<1> SUFFICES ASSUME TypeOK, CallsLeft, InOrder, [Next]_vars PROVE TypeOK'
  BY DEF PostsInv
<1>0. /\ loop.batch \in Seq(Closures \cup Own) /\ posts.queue \in Seq(Closures \cup Own)
      /\ posts.pushed \in Seq(Closures \cup Own)
      /\ loop.left \in Seq(RunTypes) /\ posts.ran \in Nat
      /\ posts.unposted \subseteq Closures /\ posts \in Posts /\ deferred \in Deferred
  BY DEF TypeOK, Loop, Posts
<1>1. CASE post
  <2>1. PICK th \in Threads \ posts.owes, c \in posts.unposted :
          PostedBy(th, c) /\ UNCHANGED <<world, loop, deferred, timers, flags, stopper>>
    BY <1>1 DEF post
  <2>2. posts' \in Posts
    BY <1>0, <2>1, PostedByType
  <2> QED
    BY <2>1, <2>2 DEF TypeOK
<1>2. CASE Write
  <2>1. PICK th \in posts.owes : posts' = [posts EXCEPT !.owes = @ \ {th}, !.byte = TRUE]
    BY <1>2 DEF Write
  <2>2. posts' \in Posts
    BY <1>0, <2>1 DEF Posts
  <2>3. UNCHANGED <<world, loop, deferred, timers, flags, stopper>>
    BY <1>2 DEF Write
  <2> QED BY <2>2, <2>3 DEF TypeOK
<1>3. CASE PostHere
  <2>1. PICK c \in posts.unposted : posts' = PostedHere(posts, c)
    BY <1>3 DEF PostHere
  <2>2. posts' \in Posts
    BY <1>0, <2>1, PushedType
  <2> QED
    BY <1>3, <2>2 DEF PostHere, TypeOK
<1>4. CASE enableTimer \/ disableTimer
  BY <1>4 DEF enableTimer, disableTimer, TypeOK
<1>5. CASE deferredDelete
  <2>1. world.objects \subseteq Objects
    BY DispatcherAssumption DEF TypeOK
  <2>2. posts' \in Posts
    BY <1>0, <1>5, PushedType DEF deferredDelete, Own
  <2>3. PICK o \in world.objects :
          deferred' = [deferred EXCEPT !.list = @ \cup {o},
                         !.fresh = IF loop.current # "none" THEN @ \cup {o} ELSE @,
                         !.scheduled = IF @ # "no" THEN @
                                       ELSE IF loop.known THEN "timer" ELSE "posted"]
    BY <1>5 DEF deferredDelete
  <2>4. deferred' \in Deferred
    BY <1>0, <2>1, <2>3 DEF Deferred
  <2> QED
    BY <1>5, <2>2, <2>4 DEF deferredDelete, TypeOK
<1>6. CASE exit
  <2>1. loop' \in Loop
    BY <1>6 DEF exit, TypeOK, Loop
  <2>2. flags' \in [exit_requested : BOOLEAN, valid : BOOLEAN]
    BY <1>6 DEF exit, TypeOK
  <2> QED
    BY <1>6, <2>1, <2>2 DEF exit, TypeOK
<1>7. CASE run
  <2>1. loop.left # <<>>
    BY <1>7 DEF run, BetweenRuns, CallsLeft
  <2>2. Head(loop.left) \in RunTypes /\ Tail(loop.left) \in Seq(RunTypes)
    BY <1>0, <2>1
  <2>3. loop' \in Loop
    BY <1>7, <2>2 DEF run, TypeOK, Loop
  <2> QED
    BY <1>7, <2>3 DEF run, TypeOK
<1>8. CASE Start \/ PostsRan \/ EnterLoop \/ LoopReturns \/ StartAgain
  <2>0. loop \in Loop
    BY DEF TypeOK
  <2>1. CASE Start \/ StartAgain
    <3>1. loop' = [loop EXCEPT !.pc = "created"]
      BY <2>1 DEF Start, StartAgain
    <3>2. loop' \in Loop
      BY <2>0, <3>1, MovedType
    <3> QED
      BY <2>1, <3>2 DEF Start, StartAgain, TypeOK
  <2>2. CASE PostsRan
    <3>1. PICK pc \in {"test", "loop", "ended"} : loop' = [loop EXCEPT !.pc = pc]
      BY <2>2 DEF PostsRan
    <3>2. loop' \in Loop
      BY <2>0, <3>1, MovedType
    <3> QED
      BY <2>2, <3>2 DEF PostsRan, TypeOK
  <2>3. CASE EnterLoop
    <3>1. [loop EXCEPT !.pc = "loop", !.broke = FALSE, !.handled = FALSE] \in Loop
      BY <2>0 DEF Loop
    <3>2. [loop EXCEPT !.pc = "ended"] \in Loop
      BY <2>0, MovedType
    <3>3. loop' \in Loop
      BY <2>3, <3>1, <3>2 DEF EnterLoop
    <3> QED
      BY <2>3, <3>3 DEF EnterLoop, TypeOK
  <2>4. CASE LoopReturns
    <3>1. loop' \in Loop
      BY <2>0, <2>4, MovedType DEF LoopReturns
    <3> QED
      BY <2>4, <3>1 DEF LoopReturns, TypeOK
  <2> QED
    BY <1>8, <2>1, <2>2, <2>3, <2>4
<1>9. CASE TakePosts
  <2>1. /\ loop.pc \in {"begin", "drained", "after"}
        /\ SwappedTo[loop.pc] \in {"beginning", "woken", "afterwards"}
    BY <1>9 DEF TakePosts, SwappedTo
  <2>2. loop' = [loop EXCEPT !.pc = SwappedTo[loop.pc], !.batch = posts.queue]
    BY <1>9 DEF TakePosts
  <2>3. loop' \in Loop
    BY <1>0, <2>1, <2>2 DEF TypeOK, Loop
  <2>4. posts' = [posts EXCEPT !.queue = <<>>]
    BY <1>9 DEF TakePosts
  <2>5. posts' \in Posts
    BY <1>0, <2>4, TakenType
  <2> QED
    BY <1>9, <2>3, <2>5 DEF TakePosts, TypeOK
<1>10. Doomed(deferred) \in Deferred
  BY <1>0 DEF Doomed, Deferred
<1>11. CASE RunPost
  <2>1. /\ Head(loop.batch) \in Closures \cup Own
        /\ Tail(loop.batch) \in Seq(Closures \cup Own)
    BY <1>0, <1>11 DEF RunPost
  <2>2. posts' \in Posts
    <3>1. posts' = [posts EXCEPT !.ran = posts.ran + 1]
      BY <1>11 DEF RunPost
    <3> QED
      BY <1>0, <3>1, RanType
  <2>3. deferred' \in Deferred
    BY <1>0, <1>10, <1>11 DEF RunPost
  <2>4. [loop EXCEPT !.batch = Tail(@)] \in Loop
    BY <2>1 DEF TypeOK, Loop
  <2>5. loop' \in Loop
    <3> DEFINE l == [loop EXCEPT !.batch = Tail(@)]
               c == Head(loop.batch)
    <3>1. \/ loop' = [l EXCEPT !.broke = TRUE]
          \/ loop' = [l EXCEPT !.current = "deleting"]
          \/ loop' = [l EXCEPT !.current = c] /\ c \notin Own
      BY <1>11 DEF RunPost, Own
    <3>2. c \in Closures \cup Own
      BY <2>1
    <3> HIDE DEF l, c
    <3>3. l \in Loop
      BY <2>4 DEF l
    <3>4. [l EXCEPT !.broke = TRUE] \in Loop /\ [l EXCEPT !.current = "deleting"] \in Loop
      BY <3>3 DEF Loop
    <3>5. c \notin Own => [l EXCEPT !.current = c] \in Loop
      BY <3>2, <3>3 DEF Loop
    <3> QED
      BY <3>1, <3>4, <3>5
  <2> QED
    BY <1>11, <2>2, <2>3, <2>5 DEF RunPost, TypeOK
<1>12. CASE Return
  BY <1>12 DEF Return, TypeOK, Loop, Deferred
<1>13. CASE Destroy
  <2>1. PICK o \in deferred.doomed :
          deferred' = [deferred EXCEPT !.doomed = @ \ {o}, !.gone = @ \cup {o}]
    BY <1>13 DEF Destroy
  <2>2. deferred' \in Deferred
    BY <1>0, <2>1 DEF Deferred
  <2> QED
    BY <1>13, <2>2 DEF Destroy, TypeOK
<1>14. ASSUME ShutDown PROVE /\ loop' \in Loop /\ posts' \in Posts /\ deferred' \in Deferred
                             /\ flags' \in [exit_requested : BOOLEAN, valid : BOOLEAN]
                             /\ UNCHANGED <<world, timers>>
  <2>1. SubSeq(posts.pushed, 1, posts.ran) \in Seq(Closures \cup Own)
    <3>1. posts.ran <= Len(posts.pushed)
      BY <1>0 DEF InOrder
    <3> QED
      BY <1>0, <3>1
  <2>2. posts' \in Posts
    <3>1. posts' = [posts EXCEPT !.queue = <<>>, !.pushed = SubSeq(posts.pushed, 1, posts.ran)]
      BY <1>14 DEF ShutDown
    <3> QED
      BY <1>0, <2>1, <3>1, DroppedType
  <2>3. deferred' \in Deferred
    BY <1>0, <1>14 DEF ShutDown, Deferred
  <2>4. loop' \in Loop
    BY <1>14 DEF ShutDown, TypeOK, Loop
  <2> QED
    BY <1>14, <2>2, <2>3, <2>4 DEF ShutDown
<1>15. CASE threadRoutine \/ Destructor
  BY <1>14, <1>15 DEF threadRoutine, Destructor, TypeOK
<1>16. CASE postWakeupCallback
  <2>1. loop' \in Loop /\ posts' \in Posts
    BY <1>0, <1>16 DEF postWakeupCallback, TypeOK, Loop, Posts
  <2> QED
    BY <1>16, <2>1 DEF postWakeupCallback, TypeOK
<1>17. CASE DrainTimer
  <2>1. loop' \in Loop
    BY <1>17 DEF DrainTimer, TypeOK, Loop
  <2>2. deferred' \in Deferred
    BY <1>0, <1>10, <1>17 DEF DrainTimer, Deferred
  <2> QED
    BY <1>17, <2>1, <2>2 DEF DrainTimer, TypeOK
<1>18. ASSUME NEW t \in Timers, timerCallback(t) PROVE TypeOK'
  <2>1. loop' \in Loop
    BY <1>18 DEF timerCallback, TypeOK, Loop
  <2> QED
    BY <1>18, <2>1 DEF timerCallback, TypeOK
<1>19. CASE stop
  <2>1. loop' \in Loop
    BY <1>19 DEF stop, TypeOK, Loop
  <2> QED
    BY <1>19, <2>1 DEF stop, TypeOK
<1>20. CASE PostBreak
  <2>1. posts' \in Posts
    BY <1>0, <1>20, PostedByType DEF PostBreak, Own
  <2> QED
    BY <1>20, <2>1 DEF PostBreak, TypeOK
<1>21. CASE join
  BY <1>21 DEF join, TypeOK
<1>22. CASE UNCHANGED vars
  BY <1>22 DEF vars, TypeOK, Loop, Posts, Deferred
<1> QED
  BY <1>1, <1>2, <1>3, <1>4, <1>5, <1>6, <1>7, <1>8, <1>9, <1>11, <1>12, <1>13, <1>15, <1>16, <1>17,
     <1>18, <1>19, <1>20, <1>21, <1>22 DEF Next, Callback, Turn
-----------------------------------------------------------------------------
\* What each step does to the place the loop has come to.
LEMMA PlaceStep == TypeOK /\ InItsPlace /\ [Next]_vars => InItsPlace'
<1> SUFFICES ASSUME TypeOK, InItsPlace, [Next]_vars PROVE InItsPlace'
  OBVIOUS
<1>0. loop \in Loop
  BY DEF TypeOK
<1>1. CASE post \/ Write \/ PostHere \/ enableTimer \/ disableTimer \/ deferredDelete \/ Destroy
  BY <1>1 DEF post, Write, PostHere, enableTimer, disableTimer, deferredDelete, Destroy, InItsPlace
<1>2. CASE exit \/ Return
  BY <1>0, <1>2 DEF exit, Return, InItsPlace, Loop
<1>3. CASE Start \/ run \/ EnterLoop
  BY <1>0, <1>3 DEF Start, run, BetweenRuns, EnterLoop, InItsPlace, Loop
<1>4. CASE TakePosts
  <2>1. /\ loop.pc \in {"begin", "drained", "after"}
        /\ SwappedTo[loop.pc] \in {"beginning", "woken", "afterwards"}
    BY <1>4 DEF TakePosts, SwappedTo
  <2> QED
    BY <1>0, <1>4, <2>1 DEF TakePosts, InItsPlace, Loop
<1>5. CASE RunPost
  <2>1. loop.pc \in {"beginning", "woken", "afterwards"} /\ UNCHANGED <<world, stopper>>
    BY <1>5 DEF RunPost
  <2>2. loop'.pc = loop.pc
    BY <1>0, <1>5 DEF RunPost, Loop
  <2> QED
    BY <2>1, <2>2 DEF InItsPlace
<1>6. CASE PostsRan \/ LoopReturns
  BY <1>0, <1>6 DEF PostsRan, LoopReturns, Idle, InItsPlace, Loop
<1>7. CASE postWakeupCallback \/ DrainTimer
  BY <1>0, <1>7 DEF postWakeupCallback, DrainTimer, Dispatching, Idle, InItsPlace, Loop
<1>8. ASSUME NEW t \in Timers, timerCallback(t) PROVE InItsPlace'
  BY <1>0, <1>8 DEF timerCallback, Dispatching, Idle, InItsPlace, Loop
<1>9. CASE threadRoutine \/ Destructor
  BY <1>0, <1>9 DEF threadRoutine, Destructor, ShutDown, InItsPlace, Loop
<1>10. CASE stop \/ PostBreak \/ join \/ StartAgain
  BY <1>0, <1>10 DEF stop, PostBreak, join, StartAgain, InItsPlace, Loop
<1>11. CASE UNCHANGED vars
  BY <1>11 DEF vars, InItsPlace
<1> QED
  BY <1>1, <1>2, <1>3, <1>4, <1>5, <1>6, <1>7, <1>8, <1>9, <1>10, <1>11 DEF Next, Callback, Turn

\* A thread is started with a call to make, and keeps it until it makes it.
LEMMA CallsStep == TypeOK /\ CallsLeft /\ [Next]_vars => CallsLeft'
<1> SUFFICES ASSUME TypeOK, CallsLeft, [Next]_vars PROVE CallsLeft'
  OBVIOUS
<1>0. loop \in Loop
  BY DEF TypeOK
<1>1. CASE \/ post \/ Write \/ PostHere \/ enableTimer \/ disableTimer \/ deferredDelete \/ Destroy
          \/ PostBreak \/ join \/ UNCHANGED vars
  BY <1>1 DEF post, Write, PostHere, enableTimer, disableTimer, deferredDelete, Destroy, PostBreak, join,
              vars, CallsLeft
<1>2. CASE exit \/ stop \/ Return
  BY <1>0, <1>2 DEF exit, stop, Return, CallsLeft, Loop
<1>3. CASE Start \/ run \/ EnterLoop \/ StartAgain
  BY <1>0, <1>3 DEF Start, run, EnterLoop, StartAgain, CallsLeft, Loop
<1>4. CASE TakePosts
  <2>1. SwappedTo[loop.pc] # "created"
    BY <1>4 DEF TakePosts, SwappedTo
  <2> QED
    BY <1>0, <1>4, <2>1 DEF TakePosts, CallsLeft, Loop
<1>5. CASE RunPost
  <2>1. loop'.pc = loop.pc /\ loop.pc # "created"
    BY <1>0, <1>5 DEF RunPost, Loop
  <2> QED
    BY <2>1 DEF CallsLeft
<1>6. CASE PostsRan \/ LoopReturns \/ postWakeupCallback \/ DrainTimer
  BY <1>0, <1>6 DEF PostsRan, LoopReturns, postWakeupCallback, DrainTimer, Dispatching, CallsLeft, Loop
<1>7. ASSUME NEW t \in Timers, timerCallback(t) PROVE CallsLeft'
  BY <1>0, <1>7 DEF timerCallback, Dispatching, CallsLeft, Loop
<1>8. CASE threadRoutine \/ Destructor
  BY <1>0, <1>8 DEF threadRoutine, Destructor, ShutDown, CallsLeft, Loop
<1> QED
  BY <1>1, <1>2, <1>3, <1>4, <1>5, <1>6, <1>7, <1>8 DEF Next, Callback, Turn

\* A closure posted leaves the queue announced: by a byte, or by the thread
\* that has one to write.
LEMMA PostedHereAnnounced ==
  ASSUME NEW c \in Closures \cup Own, posts \in Posts, Announced,
         posts' = PostedHere(posts, c), loop' = loop
  PROVE  Announced'
<1>1. posts'.byte = (posts.byte \/ posts.queue = <<>>) /\ posts'.owes = posts.owes
  BY DEF PostedHere, Pushed, Posts
<1> QED
  BY <1>1 DEF Announced

LEMMA PostedByAnnounced ==
  ASSUME NEW c \in Closures \cup Own, NEW th \in Threads \cup {Stopper}, posts \in Posts, Announced,
         PostedBy(th, c), loop' = loop
  PROVE  Announced'
<1>1. /\ posts'.byte = posts.byte
      /\ posts'.owes = IF posts.queue = <<>> THEN posts.owes \cup {th} ELSE posts.owes
  BY DEF PostedBy, Pushed, Posts
<1> QED
  BY <1>1 DEF Announced

\* The queue is announced wherever the loop may look away from it: the draining
\* of the pipe is the one place where it is not, and the swap follows.
LEMMA AnnouncedStep == TypeOK /\ InItsPlace /\ Announced /\ [Next]_vars => Announced'
<1> SUFFICES ASSUME TypeOK, InItsPlace, Announced, [Next]_vars PROVE Announced'
  OBVIOUS
<1>0. loop \in Loop /\ posts \in Posts /\ posts.unposted \subseteq Closures
  BY DEF TypeOK, Posts
<1>1. CASE post
  <2>1. PICK th \in Threads, c \in Closures : PostedBy(th, c) /\ loop' = loop
    BY <1>0, <1>1 DEF post
  <2> QED
    BY <1>0, <2>1, PostedByAnnounced
<1>2. CASE PostBreak
  <2>1. PostedBy(Stopper, "break") /\ loop' = loop
    BY <1>2 DEF PostBreak
  <2> QED
    BY <1>0, <2>1, PostedByAnnounced DEF Own
<1>3. CASE PostHere
  <2>1. PICK c \in Closures : posts' = PostedHere(posts, c) /\ loop' = loop
    BY <1>0, <1>3 DEF PostHere
  <2> QED
    BY <1>0, <2>1, PostedHereAnnounced
<1>4. CASE deferredDelete
  <2>1. loop' = loop /\ (posts' = posts \/ posts' = PostedHere(posts, "drain"))
    BY <1>4 DEF deferredDelete
  <2>2. CASE posts' = posts
    BY <2>1, <2>2 DEF Announced
  <2>3. CASE posts' = PostedHere(posts, "drain")
    BY <1>0, <2>1, <2>3, PostedHereAnnounced DEF Own
  <2> QED
    BY <2>1, <2>2, <2>3
<1>5. CASE Write
  <2>1. posts'.byte /\ loop' = loop
    BY <1>0, <1>5 DEF Write, Posts
  <2> QED
    BY <2>1 DEF Announced
<1>6. CASE enableTimer \/ disableTimer \/ Destroy \/ join \/ UNCHANGED vars
  BY <1>6 DEF enableTimer, disableTimer, Destroy, join, vars, Announced
<1>7. CASE exit \/ stop \/ Return
  BY <1>0, <1>7 DEF exit, stop, Return, Announced, Loop
<1>8. CASE Start \/ run \/ EnterLoop \/ StartAgain
  BY <1>0, <1>8 DEF Start, run, BetweenRuns, EnterLoop, StartAgain, InItsPlace, Announced, Loop
<1>9. CASE TakePosts
  <2>1. posts'.queue = <<>>
    BY <1>0, <1>9 DEF TakePosts, Posts
  <2> QED
    BY <2>1 DEF Announced
<1>10. CASE RunPost
  <2>1. loop'.pc = loop.pc
    BY <1>0, <1>10 DEF RunPost, Loop
  <2>2. posts'.queue = posts.queue /\ posts'.byte = posts.byte /\ posts'.owes = posts.owes
    BY <1>0, <1>10 DEF RunPost, Posts
  <2> QED
    BY <2>1, <2>2 DEF Announced
<1>11. CASE PostsRan \/ LoopReturns \/ DrainTimer
  BY <1>0, <1>11 DEF PostsRan, LoopReturns, DrainTimer, Dispatching, Announced, Loop
<1>12. CASE postWakeupCallback
  BY <1>0, <1>12 DEF postWakeupCallback, Announced, Loop
<1>13. ASSUME NEW t \in Timers, timerCallback(t) PROVE Announced'
  BY <1>0, <1>13 DEF timerCallback, Announced, Loop
<1>14. CASE threadRoutine \/ Destructor
  <2>1. posts'.queue = <<>>
    BY <1>0, <1>14 DEF threadRoutine, Destructor, ShutDown, Posts
  <2> QED
    BY <2>1 DEF Announced
<1> QED
  BY <1>1, <1>2, <1>3, <1>4, <1>5, <1>6, <1>7, <1>8, <1>9, <1>10, <1>11, <1>12, <1>13, <1>14 DEF Next, Callback, Turn

\* A closure pushed is the last of the queue and of all that was posted.
LEMMA LinedUp ==
  ASSUME NEW S, NEW c \in S, NEW p \in Seq(S), NEW q \in Seq(S), NEW b \in Seq(S), NEW r \in Nat,
         Lined(p, r, b, q)
  PROVE  Lined(Append(p, c), r, b, Append(q, c))
<1> DEFINE p2 == Append(p, c)
           q2 == Append(q, c)
<1>1. /\ Len(p2) = Len(p) + 1 /\ p2[Len(p) + 1] = c
      /\ \A n \in 1..Len(p) : p2[n] = p[n]
  OBVIOUS
<1>2. /\ Len(q2) = Len(q) + 1 /\ q2[Len(q) + 1] = c
      /\ \A n \in 1..Len(q) : q2[n] = q[n]
  OBVIOUS
<1>3. Len(p) \in Nat /\ Len(q) \in Nat /\ Len(b) \in Nat
  OBVIOUS
<1>4. Len(p) = r + Len(b) + Len(q)
  BY DEF Lined
<1> HIDE DEF p2, q2
<1>5. Len(p2) = r + Len(b) + Len(q2)
  BY <1>1, <1>2, <1>3, <1>4
<1>6. ASSUME NEW n \in 1..Len(b) PROVE b[n] = p2[r + n]
  <2>1. b[n] = p[r + n]
    BY DEF Lined
  <2>2. r + n \in 1..Len(p)
    BY <1>3, <1>4
  <2> QED
    BY <1>1, <2>1, <2>2
<1>7. ASSUME NEW n \in 1..Len(q2) PROVE q2[n] = p2[r + Len(b) + n]
  <2>1. CASE n = Len(q) + 1
    <3>1. r + Len(b) + n = Len(p) + 1
      BY <1>3, <1>4, <2>1
    <3> QED
      BY <1>1, <1>2, <2>1, <3>1
  <2>2. CASE n # Len(q) + 1
    <3>1. n \in 1..Len(q)
      BY <1>2, <1>3, <2>2
    <3>2. q[n] = p[r + Len(b) + n]
      BY <3>1 DEF Lined
    <3>3. r + Len(b) + n \in 1..Len(p)
      BY <1>3, <1>4, <3>1
    <3> QED
      BY <1>1, <1>2, <3>1, <3>2, <3>3
  <2> QED
    BY <2>1, <2>2
<1>8. Lined(p2, r, b, q2)
  BY <1>5, <1>6, <1>7 DEF Lined
<1> QED
  BY <1>8 DEF p2, q2

LEMMA PushedInOrder ==
  ASSUME NEW c \in Closures \cup Own, posts \in Posts, loop \in Loop, InOrder, loop' = loop,
         posts'.queue = Append(posts.queue, c), posts'.pushed = Append(posts.pushed, c),
         posts'.ran = posts.ran
  PROVE  InOrder'
<1>1. /\ posts.queue \in Seq(Closures \cup Own) /\ posts.pushed \in Seq(Closures \cup Own)
      /\ loop.batch \in Seq(Closures \cup Own) /\ posts.ran \in Nat
  BY DEF Posts, Loop
<1>2. Lined(posts.pushed, posts.ran, loop.batch, posts.queue)
  BY DEF InOrder, Lined
<1>3. Lined(Append(posts.pushed, c), posts.ran, loop.batch, Append(posts.queue, c))
  BY <1>1, <1>2, LinedUp
<1>4. Lined(posts'.pushed, posts'.ran, loop'.batch, posts'.queue)
  BY <1>3
<1> QED
  BY <1>4 DEF InOrder, Lined

LEMMA PostedHereInOrder ==
  ASSUME NEW c \in Closures \cup Own, posts \in Posts, loop \in Loop, InOrder, loop' = loop,
         posts' = PostedHere(posts, c)
  PROVE  InOrder'
<1>1. /\ posts'.queue = Append(posts.queue, c) /\ posts'.pushed = Append(posts.pushed, c)
      /\ posts'.ran = posts.ran
  BY DEF PostedHere, Pushed, Posts
<1> QED
  BY <1>1, PushedInOrder

LEMMA PostedByInOrder ==
  ASSUME NEW c \in Closures \cup Own, NEW th \in Threads \cup {Stopper}, posts \in Posts, loop \in Loop,
         InOrder, loop' = loop, PostedBy(th, c)
  PROVE  InOrder'
<1>1. /\ posts'.queue = Append(posts.queue, c) /\ posts'.pushed = Append(posts.pushed, c)
      /\ posts'.ran = posts.ran
  BY DEF PostedBy, Pushed, Posts
<1> QED
  BY <1>1, PushedInOrder

\* The swap takes the queue as it is, where nothing is left of the last one.
LEMMA TakenInOrder ==
  ASSUME posts \in Posts, loop \in Loop, InOrder, loop.batch = <<>>,
         loop'.batch = posts.queue, posts'.queue = <<>>, posts'.pushed = posts.pushed, posts'.ran = posts.ran
  PROVE  InOrder'
<1>1. posts.queue \in Seq(Closures \cup Own) /\ posts.ran \in Nat /\ Len(posts.queue) \in Nat
  BY DEF Posts
<1>2. Len(posts.pushed) = posts.ran + Len(posts.queue)
  BY <1>1 DEF InOrder
<1>3. \A n \in 1..Len(posts.queue) : posts.queue[n] = posts.pushed[posts.ran + n]
  BY <1>1 DEF InOrder
<1>4. Len(posts'.pushed) = posts'.ran + Len(loop'.batch) + Len(posts'.queue)
  BY <1>1, <1>2
<1>5. \A n \in 1..Len(posts'.queue) : posts'.queue[n] = posts'.pushed[posts'.ran + Len(loop'.batch) + n]
  OBVIOUS
<1>6. \A n \in 1..Len(loop'.batch) : loop'.batch[n] = posts'.pushed[posts'.ran + n]
  BY <1>3
<1> QED
  BY <1>4, <1>5, <1>6 DEF InOrder

\* The closure that begins is the first of those swapped out.
LEMMA RunInOrder ==
  ASSUME posts \in Posts, loop \in Loop, InOrder, loop.batch # <<>>,
         loop'.batch = Tail(loop.batch), posts'.queue = posts.queue, posts'.pushed = posts.pushed,
         posts'.ran = posts.ran + 1
  PROVE  InOrder'
<1>1. /\ posts.queue \in Seq(Closures \cup Own) /\ posts.ran \in Nat /\ Len(posts.queue) \in Nat
      /\ loop.batch \in Seq(Closures \cup Own)
  BY DEF Posts, Loop
<1>2. /\ Len(loop.batch) \in Nat /\ Len(loop.batch) >= 1
      /\ Len(loop'.batch) = Len(loop.batch) - 1
      /\ \A n \in 1..Len(loop.batch) - 1 : loop'.batch[n] = loop.batch[n + 1]
  BY <1>1
<1>3. Len(posts.pushed) = posts.ran + Len(loop.batch) + Len(posts.queue)
  BY DEF InOrder
<1>4. Len(posts'.pushed) = posts'.ran + Len(loop'.batch) + Len(posts'.queue)
  BY <1>1, <1>2, <1>3
<1>5. ASSUME NEW n \in 1..Len(loop'.batch) PROVE loop'.batch[n] = posts'.pushed[posts'.ran + n]
  <2>1. n + 1 \in 1..Len(loop.batch) /\ loop'.batch[n] = loop.batch[n + 1]
    BY <1>2, <1>5
  <2>2. loop.batch[n + 1] = posts.pushed[posts.ran + (n + 1)]
    BY <2>1 DEF InOrder
  <2>3. posts.ran + (n + 1) = (posts.ran + 1) + n
    BY <1>1, <1>5
  <2> QED
    BY <2>1, <2>2, <2>3
<1>6. ASSUME NEW n \in 1..Len(posts'.queue)
      PROVE  posts'.queue[n] = posts'.pushed[posts'.ran + Len(loop'.batch) + n]
  <2>1. posts.queue[n] = posts.pushed[posts.ran + Len(loop.batch) + n]
    BY <1>6 DEF InOrder
  <2>2. (posts.ran + 1) + Len(loop'.batch) + n = posts.ran + Len(loop.batch) + n
    BY <1>1, <1>2, <1>6
  <2> QED
    BY <2>1, <2>2
<1> QED
  BY <1>4, <1>5, <1>6 DEF InOrder

\* What a shutdown drops is what had not begun.
LEMMA DroppedInOrder ==
  ASSUME posts \in Posts, loop \in Loop, InOrder, loop.batch = <<>>,
         loop'.batch = loop.batch, posts'.queue = <<>>,
         posts'.pushed = SubSeq(posts.pushed, 1, posts.ran), posts'.ran = posts.ran
  PROVE  InOrder'
<1>1. /\ posts.pushed \in Seq(Closures \cup Own) /\ posts.ran \in Nat /\ Len(posts.queue) \in Nat
      /\ posts.queue \in Seq(Closures \cup Own)
  BY DEF Posts
<1>2. posts.ran <= Len(posts.pushed)
  BY <1>1 DEF InOrder
<1>3. Len(SubSeq(posts.pushed, 1, posts.ran)) = posts.ran
  BY <1>1, <1>2
<1>4. Len(posts'.pushed) = posts'.ran + Len(loop'.batch) + Len(posts'.queue)
  BY <1>1, <1>3
<1>5. /\ \A n \in 1..Len(loop'.batch) : loop'.batch[n] = posts'.pushed[posts'.ran + n]
      /\ \A n \in 1..Len(posts'.queue) : posts'.queue[n] = posts'.pushed[posts'.ran + Len(loop'.batch) + n]
  OBVIOUS
<1> QED
  BY <1>4, <1>5 DEF InOrder

\* Nothing is lost, doubled or overtaken between the post and the run.
LEMMA InOrderStep == PostsInv /\ [Next]_vars => InOrder'
<1> SUFFICES ASSUME TypeOK, InItsPlace, InOrder, [Next]_vars PROVE InOrder'
  BY DEF PostsInv
<1>0. loop \in Loop /\ posts \in Posts /\ posts.unposted \subseteq Closures
  BY DEF TypeOK, Posts
<1>1. CASE post
  <2>1. PICK th \in Threads, c \in Closures : PostedBy(th, c) /\ loop' = loop
    BY <1>0, <1>1 DEF post
  <2> QED
    BY <1>0, <2>1, PostedByInOrder
<1>2. CASE PostBreak
  <2>1. PostedBy(Stopper, "break") /\ loop' = loop
    BY <1>2 DEF PostBreak
  <2> QED
    BY <1>0, <2>1, PostedByInOrder DEF Own
<1>3. CASE PostHere
  <2>1. PICK c \in Closures : posts' = PostedHere(posts, c) /\ loop' = loop
    BY <1>0, <1>3 DEF PostHere
  <2> QED
    BY <1>0, <2>1, PostedHereInOrder
<1>4. CASE deferredDelete
  <2>1. loop' = loop /\ (posts' = posts \/ posts' = PostedHere(posts, "drain"))
    BY <1>4 DEF deferredDelete
  <2>2. CASE posts' = posts
    BY <2>1, <2>2 DEF InOrder
  <2>3. CASE posts' = PostedHere(posts, "drain")
    BY <1>0, <2>1, <2>3, PostedHereInOrder DEF Own
  <2> QED
    BY <2>1, <2>2, <2>3
<1>5. CASE TakePosts
  <2>1. loop.pc \in {"begin", "drained", "after"}
    BY <1>5 DEF TakePosts, SwappedTo
  <2>2. loop.batch = <<>>
    BY <2>1 DEF InItsPlace
  <2>3. /\ loop'.batch = posts.queue /\ posts'.queue = <<>> /\ posts'.pushed = posts.pushed
        /\ posts'.ran = posts.ran
    BY <1>0, <1>5 DEF TakePosts, Loop, Posts
  <2> QED
    BY <1>0, <2>2, <2>3, TakenInOrder
<1>6. CASE RunPost
  <2>1. loop.batch # <<>> /\ loop'.batch = Tail(loop.batch)
    BY <1>0, <1>6 DEF RunPost, Loop
  <2>2. posts'.queue = posts.queue /\ posts'.pushed = posts.pushed /\ posts'.ran = posts.ran + 1
    BY <1>0, <1>6 DEF RunPost, Posts
  <2> QED
    BY <1>0, <2>1, <2>2, RunInOrder
<1>7. CASE threadRoutine \/ Destructor
  <2>1. loop.batch = <<>>
    BY <1>7 DEF threadRoutine, Destructor, InItsPlace
  <2>2. /\ loop'.batch = loop.batch /\ posts'.queue = <<>> /\ posts'.ran = posts.ran
        /\ posts'.pushed = SubSeq(posts.pushed, 1, posts.ran)
    BY <1>0, <1>7 DEF threadRoutine, Destructor, ShutDown, Loop, Posts
  <2> QED
    BY <1>0, <2>1, <2>2, DroppedInOrder
<1>8. CASE \/ Write \/ enableTimer \/ disableTimer \/ Destroy \/ join \/ exit \/ stop \/ Return
          \/ Start \/ run \/ EnterLoop \/ StartAgain \/ PostsRan \/ LoopReturns \/ DrainTimer
          \/ postWakeupCallback \/ (\E t \in Timers : timerCallback(t)) \/ UNCHANGED vars
  <2>1. loop'.batch = loop.batch
    BY <1>0, <1>8 DEF Write, enableTimer, disableTimer, Destroy, join, exit, stop, Return, Start, run, EnterLoop,
          StartAgain, PostsRan, LoopReturns, DrainTimer, postWakeupCallback, timerCallback, vars, Loop
  <2>2. posts'.queue = posts.queue /\ posts'.pushed = posts.pushed /\ posts'.ran = posts.ran
    BY <1>0, <1>8 DEF Write, enableTimer, disableTimer, Destroy, join, exit, stop, Return, Start, run, EnterLoop,
          StartAgain, PostsRan, LoopReturns, DrainTimer, postWakeupCallback, timerCallback, vars, Posts
  <2> QED
    BY <2>1, <2>2 DEF InOrder
<1> QED
  BY <1>1, <1>2, <1>3, <1>4, <1>5, <1>6, <1>7, <1>8 DEF Next, Callback, Turn
-----------------------------------------------------------------------------
\* PostsInv is inductive.
LEMMA PostsStart == Init => PostsInv
<1> SUFFICES ASSUME Init PROVE PostsInv
  OBVIOUS
<1>1. TypeOK
  BY TypeInit
<1>2. CallsLeft /\ Announced /\ InItsPlace
  BY DEF Init, CallsLeft, Announced, InItsPlace
<1>3. InOrder
  BY DEF Init, InOrder
<1> QED
  BY <1>1, <1>2, <1>3 DEF PostsInv

LEMMA PostsStep == PostsInv /\ [Next]_vars => PostsInv'
  BY TypeStep, PlaceStep, CallsStep, AnnouncedStep, InOrderStep DEF PostsInv

\* While a thread runs the dispatcher or none does, through any calls of
\* post(), exits, stops and shutdowns: every field is of its type, no closure
\* waits behind a loop that may sleep, and closures begin once each and in
\* the order they were posted.
THEOREM PostsCorrect == Spec => []PostsSound
<1>1. PostsInv => PostsSound
  BY DEF PostsInv, PostsSound, Announced, NoWakeUpLost
<1> QED
  BY <1>1, PostsStart, PostsStep, PTL DEF Spec
-----------------------------------------------------------------------------
\* Whatever the step, what the running callback handed over is spared.
LEMMA DeletionStep == TypeOK /\ DeletionInv /\ [Next]_vars => Spared' /\ DeletedAfterUse'
<1> SUFFICES ASSUME TypeOK, InItsPlace, Spared, DeletedAfterUse, [Next]_vars PROVE Spared' /\ DeletedAfterUse'
  BY DEF DeletionInv
<1>0. loop \in Loop /\ deferred \in Deferred
  BY DEF TypeOK
<1>1. CASE \/ post \/ Write \/ PostHere \/ enableTimer \/ disableTimer \/ PostBreak \/ join \/ UNCHANGED vars
  BY <1>1 DEF post, Write, PostHere, enableTimer, disableTimer, PostBreak, join, vars, Spared, DeletedAfterUse
<1>2. CASE \/ exit \/ stop \/ Start \/ run \/ EnterLoop \/ StartAgain \/ TakePosts \/ PostsRan \/ LoopReturns
          \/ postWakeupCallback
  <2>1. loop'.current = loop.current /\ deferred' = deferred
    BY <1>0, <1>2 DEF exit, stop, Start, run, EnterLoop, StartAgain, TakePosts, PostsRan, LoopReturns,
          postWakeupCallback, Loop
  <2> QED
    BY <2>1 DEF Spared, DeletedAfterUse
<1>3. CASE deferredDelete
  <2>1. PICK o \in world.objects \ (deferred.list \cup deferred.doomed \cup deferred.gone) :
          deferred' = [deferred EXCEPT !.list = @ \cup {o},
                         !.fresh = IF loop.current # "none" THEN @ \cup {o} ELSE @,
                         !.scheduled = IF @ # "no" THEN @
                                       ELSE IF loop.known THEN "timer" ELSE "posted"]
    BY <1>3 DEF deferredDelete
  <2>2. /\ deferred'.list = deferred.list \cup {o}
        /\ deferred'.fresh = IF loop.current # "none" THEN deferred.fresh \cup {o} ELSE deferred.fresh
        /\ deferred'.doomed = deferred.doomed /\ deferred'.gone = deferred.gone
        /\ loop' = loop
    BY <1>0, <1>3, <2>1 DEF deferredDelete, Deferred
  <2> QED
    BY <2>1, <2>2 DEF Spared, DeletedAfterUse
<1>4. ASSUME Idle, deferred' = Doomed(deferred) PROVE Spared' /\ DeletedAfterUse'
  <2>1. /\ deferred'.list = {} /\ deferred'.doomed = deferred.list
        /\ deferred'.fresh = deferred.fresh /\ deferred'.gone = deferred.gone
    BY <1>0, <1>4 DEF Doomed, Deferred
  <2>2. deferred.fresh = {}
    BY <1>4 DEF Idle, Spared
  <2> QED
    BY <2>1, <2>2 DEF Spared, DeletedAfterUse
<1>5. ASSUME Idle, \/ deferred' = deferred
                   \/ deferred' = [deferred EXCEPT !.scheduled = "never"]
      PROVE  Spared' /\ DeletedAfterUse'
  <2>1. /\ deferred'.list = deferred.list /\ deferred'.doomed = deferred.doomed
        /\ deferred'.fresh = deferred.fresh /\ deferred'.gone = deferred.gone
    BY <1>0, <1>5 DEF Deferred
  <2>2. deferred.fresh = {}
    BY <1>5 DEF Idle, Spared
  <2> QED
    BY <2>1, <2>2 DEF Spared, DeletedAfterUse
<1>6. CASE RunPost
  <2>1. Idle /\ (deferred' = Doomed(deferred) \/ deferred' = deferred)
    BY <1>6 DEF RunPost
  <2> QED
    BY <1>4, <1>5, <2>1
<1>7. CASE DrainTimer \/ \E t \in Timers : timerCallback(t)
  <2>1. /\ Idle
        /\ \/ deferred' = Doomed(deferred) \/ deferred' = deferred
           \/ deferred' = [deferred EXCEPT !.scheduled = "never"]
    BY <1>7 DEF DrainTimer, timerCallback, Dispatching
  <2> QED
    BY <1>4, <1>5, <2>1
<1>8. CASE Destroy
  <2>1. PICK o \in deferred.doomed :
          deferred' = [deferred EXCEPT !.doomed = @ \ {o}, !.gone = @ \cup {o}]
    BY <1>8 DEF Destroy
  <2>2. /\ deferred'.list = deferred.list /\ deferred'.fresh = deferred.fresh
        /\ deferred'.doomed = deferred.doomed \ {o} /\ deferred'.gone = deferred.gone \cup {o}
        /\ loop' = loop
    BY <1>0, <1>8, <2>1 DEF Destroy, Deferred
  <2> QED
    BY <2>1, <2>2 DEF Spared, DeletedAfterUse
<1>9. CASE Return
  <2>1. /\ deferred'.list = deferred.list /\ deferred'.fresh = {}
        /\ deferred'.doomed = deferred.doomed /\ deferred'.gone = deferred.gone
    BY <1>0, <1>9 DEF Return, Deferred
  <2> QED
    BY <2>1 DEF Spared, DeletedAfterUse
<1>10. CASE threadRoutine \/ Destructor
  <2>1. loop.current = "none"
    BY <1>10 DEF threadRoutine, Destructor, InItsPlace
  <2>2. /\ deferred'.list = {} /\ deferred'.fresh = deferred.fresh
        /\ deferred'.doomed = deferred.doomed /\ deferred'.gone = deferred.gone \cup deferred.list
    BY <1>0, <1>10 DEF threadRoutine, Destructor, ShutDown, Deferred
  <2> QED
    BY <2>1, <2>2 DEF Spared, DeletedAfterUse
<1> QED
  BY <1>1, <1>2, <1>3, <1>6, <1>7, <1>8, <1>9, <1>10 DEF Next, Callback, Turn

\* What a callback or a destructor hands to deferredDelete outlasts it, and is
\* destroyed once, however posts, timers, exits and shutdowns are mixed.
THEOREM DeletionCorrect == Spec => []DeletedAfterUse
<1>1. Init => PostsInv /\ DeletionInv
  <2>1. Init => PostsInv
    BY PostsStart
  <2>2. Init => Spared /\ DeletedAfterUse
    BY DEF Init, Spared, DeletedAfterUse
  <2> QED
    BY <2>1, <2>2 DEF PostsInv, DeletionInv
<1>2. PostsInv /\ DeletionInv /\ [Next]_vars => (PostsInv /\ DeletionInv)'
  <2>1. PostsInv /\ [Next]_vars => PostsInv'
    BY PostsStep
  <2>2. PostsInv /\ DeletionInv /\ [Next]_vars => DeletionInv'
    BY <2>1, DeletionStep DEF PostsInv, DeletionInv
  <2> QED
    BY <2>1, <2>2
<1>3. DeletionInv => DeletedAfterUse
  BY DEF DeletionInv
<1> QED
  BY <1>1, <1>2, <1>3, PTL DEF Spec

-----------------------------------------------------------------------------
(* StreamableSessions.                                                     *)
(*                                                                         *)
(* How a recursive function on numbers is followed to its end: what every  *)
(* step keeps holds at the last.                                           *)

\* A set of numbers with something in it has a least one.
LEMMA LeastNumber ==
  ASSUME NEW T, T \subseteq Nat, T # {}
  PROVE  \E x \in T : \A y \in T : x <= y
<1>1. \E x \in T : \A y \in T : ~ (<<y, x>> \in OpToRel(<, Nat))
  BY WFMin, NatLessThanWellFounded
<1>2. PICK x \in T : \A y \in T : ~ (<<y, x>> \in OpToRel(<, Nat))
  BY <1>1
<1>3. \A y \in T : ~(y < x)
  BY <1>2 DEF OpToRel
<1> QED BY <1>3

\* What a recursive function computes step by step: if every step g leads from
\* the good states G[n - 1] to good ones, then there is a function that takes
\* them, and it is always among the good.
GoodSteps(N, S, G, g, base) ==
  /\ N \in Nat /\ base \in G[0] /\ \A n \in 0..N : G[n] \subseteq S
  /\ \A n \in 1..N : \A x \in G[n - 1] : g[<<n, x>>] \in G[n]

LEMMA StepByStep ==
  ASSUME NEW N, NEW S, NEW G, NEW g, NEW base, GoodSteps(N, S, G, g, base)
  PROVE  \E f \in [0..N -> S] :
           /\ f[0] = base /\ \A n \in 1..N : f[n] = g[<<n, f[n - 1]>>]
           /\ \A n \in 0..N : f[n] \in G[n]
<1> USE DEF GoodSteps
<1> DEFINE Takes(f, k) == /\ f[0] = base /\ \A n \in 1..k : f[n] = g[<<n, f[n - 1]>>]
                          /\ \A n \in 0..k : f[n] \in G[n]
           Bad == {k \in 0..N : ~ \E f \in [0..k -> S] : Takes(f, k)}
<1>1. SUFFICES ASSUME Bad # {} PROVE FALSE
  <2>1. N \in 0..N
    OBVIOUS
  <2>2. \E f \in [0..N -> S] : Takes(f, N)
    BY <2>1, <1>1
  <2> QED BY <2>2
<1>2. Bad \subseteq Nat
  OBVIOUS
<1>3. PICK k \in Bad : \A j \in Bad : k <= j
  <2> HIDE DEF Bad
  <2> QED BY <1>1, <1>2, LeastNumber
<1>4. k # 0
  <2> DEFINE f == [n \in 0..0 |-> base]
  <2>1. f \in [0..0 -> S] /\ Takes(f, 0)
    OBVIOUS
  <2> QED BY <2>1
<1>5. k - 1 \in 0..N /\ k - 1 \notin Bad /\ k \in 1..N
  BY <1>3, <1>4
<1>6. PICK h \in [0..(k - 1) -> S] : Takes(h, k - 1)
  BY <1>5
<1> DEFINE f == [n \in 0..k |-> IF n = k THEN g[<<k, h[k - 1]>>] ELSE h[n]]
<1>7. g[<<k, h[k - 1]>>] \in G[k] /\ h[k - 1] \in G[k - 1]
  BY <1>5, <1>6
<1>8. \A n \in 0..(k - 1) : f[n] = h[n]
  BY <1>5
<1>9. f[k] = g[<<k, h[k - 1]>>] /\ k - 1 \in 0..(k - 1) /\ 0 \in 0..(k - 1)
  BY <1>5
<1>10. \A n \in 0..k : f[n] \in G[n]
  <2> SUFFICES ASSUME NEW n \in 0..k PROVE f[n] \in G[n]
    OBVIOUS
  <2>1. CASE n = k
    BY <2>1, <1>7
  <2>2. CASE n # k
    BY <2>2, <1>5, <1>6
  <2> QED BY <2>1, <2>2
<1>11. \A n \in 1..k : f[n] = g[<<n, f[n - 1]>>]
  <2> SUFFICES ASSUME NEW n \in 1..k PROVE f[n] = g[<<n, f[n - 1]>>]
    OBVIOUS
  <2>1. CASE n = k
    <3> HIDE DEF f
    <3> QED BY <2>1, <1>8, <1>9
  <2>2. CASE n # k
    <3>1. n \in 1..(k - 1) /\ n \in 0..(k - 1) /\ n - 1 \in 0..(k - 1)
      BY <2>2, <1>5
    <3> HIDE DEF f
    <3> QED BY <3>1, <1>6, <1>8
  <2> QED BY <2>1, <2>2
<1>12. f \in [0..k -> S]
  BY <1>5, <1>10
<1>13. Takes(f, k)
  <2> HIDE DEF f
  <2> QED BY <1>6, <1>8, <1>9, <1>10, <1>11
<1> QED BY <1>3, <1>12, <1>13

\* A function that is right to begin with and stays so at every step is right
\* all along.
LEMMA StaysGood ==
  ASSUME NEW N \in Nat, NEW G, NEW f, f[0] \in G[0],
         \A n \in 1..N : f[n - 1] \in G[n - 1] => f[n] \in G[n]
  PROVE  \A n \in 0..N : f[n] \in G[n]
<1> DEFINE Bad == {n \in 0..N : f[n] \notin G[n]}
<1>1. SUFFICES ASSUME Bad # {} PROVE FALSE
  OBVIOUS
<1>2. Bad \subseteq Nat
  OBVIOUS
<1>3. PICK k \in Bad : \A j \in Bad : k <= j
  <2> HIDE DEF Bad
  <2> QED BY <1>1, <1>2, LeastNumber
<1>4. k # 0 /\ k \in 1..N
  BY <1>3
<1>5. k - 1 \in 0..N /\ k - 1 \notin Bad
  BY <1>3, <1>4
<1> QED BY <1>3, <1>4, <1>5
-----------------------------------------------------------------------------
(* StreamableSessions: the range of the server's state.                    *)

Conns == {"unborn", "up", "left", "gone", "down"}

ServerStates ==
  [known : BOOLEAN, streams : Seq(Streams), ctx : [Streams -> StreamCtx], pending : Seq(Messages),
   stream_ids : SUBSET Streams, ex : [Streams -> Exchange], conn : [Streams -> Conns],
   wire : [Streams -> Seq(Events)], queue : [Dispatchers -> Seq(Tasks)]]

\* No buffer is over its limit.
GoodStates ==
  {S \in ServerStates : /\ Len(S.pending) <= PendingLimit
                        /\ \A s \in Streams : Len(S.ex[s].replay) <= ReplayLimit}

\* Closures that touch no more than an exchange, and those of a stream that is
\* being opened.
OfBytes(task) == task.op \in {"write", "forward", "release", "end"}
Opens(task) == task.op \in {"judge", "judged", "collect", "deliver", "attach"}

\* A queue with nothing taken from it and nothing but bytes put after it.
Extends(q, r) ==
  /\ Len(q) <= Len(r)
  /\ \A i \in 1..Len(r) : IF i <= Len(q) THEN r[i] = q[i] ELSE OfBytes(r[i])

\* What an exchange does to the rest of the server: nothing the session's books
\* would show.
BooksAlike(S, T) ==
  /\ T.known = S.known /\ T.streams = S.streams /\ T.ctx = S.ctx /\ T.pending = S.pending
  /\ T.stream_ids = S.stream_ids /\ T.conn = S.conn
  /\ \A s \in Streams : T.ex[s].disp = S.ex[s].disp
  /\ \A d \in Dispatchers : Extends(S.queue[d], T.queue[d])

LEMMA Alike ==
  ASSUME NEW S \in GoodStates, NEW T \in GoodStates, NEW U \in GoodStates
  PROVE  BooksAlike(S, S) /\ (BooksAlike(S, T) /\ BooksAlike(T, U) => BooksAlike(S, U))
<1>1. \A V \in GoodStates : \A d \in Dispatchers : V.queue[d] \in Seq(Tasks)
  BY DEF GoodStates, ServerStates
<1>2. BooksAlike(S, S)
  BY <1>1 DEF BooksAlike, Extends
<1>3. ASSUME BooksAlike(S, T), BooksAlike(T, U), NEW d \in Dispatchers
      PROVE  Extends(S.queue[d], U.queue[d])
  <2>1. /\ Len(S.queue[d]) \in Nat /\ Len(T.queue[d]) \in Nat /\ Len(U.queue[d]) \in Nat
        /\ Extends(S.queue[d], T.queue[d]) /\ Extends(T.queue[d], U.queue[d])
    BY <1>1, <1>3 DEF BooksAlike
  <2> QED BY <2>1 DEF Extends
<1> QED BY <1>2, <1>3 DEF BooksAlike

LEMMA Posted ==
  ASSUME NEW S \in GoodStates, NEW d \in Dispatchers, NEW task \in Tasks
  PROVE  /\ Post(S, d, task) \in GoodStates
         /\ Post(S, d, task) = [S EXCEPT !.queue = [S.queue EXCEPT ![d] = Append(@, task)]]
         /\ OfBytes(task) => BooksAlike(S, Post(S, d, task))
<1> DEFINE q == [S.queue EXCEPT ![d] = Append(S.queue[d], task)]
<1>1. Post(S, d, task) = [S EXCEPT !.queue = q]
  BY DEF Post
<1>2. S \in ServerStates
  BY DEF GoodStates
<1>3. q \in [Dispatchers -> Seq(Tasks)]
  BY <1>2 DEF ServerStates
<1>4. [S EXCEPT !.queue = q] \in ServerStates
  <2> HIDE DEF q
  <2> QED BY <1>2, <1>3 DEF ServerStates
<1> DEFINE T == [S EXCEPT !.queue = q]
<1>5. /\ T.queue = q /\ T.known = S.known /\ T.streams = S.streams /\ T.ctx = S.ctx
      /\ T.pending = S.pending /\ T.stream_ids = S.stream_ids /\ T.conn = S.conn /\ T.ex = S.ex
      /\ T.wire = S.wire
  BY <1>2 DEF ServerStates
<1>6. T \in GoodStates
  <2> HIDE DEF T, q
  <2> QED BY <1>4, <1>5 DEF GoodStates, T
<1>7. ASSUME OfBytes(task), NEW e \in Dispatchers
      PROVE  Extends(S.queue[e], q[e])
  <2>1. S.queue[e] \in Seq(Tasks)
    BY <1>2 DEF ServerStates
  <2>2. q[e] = IF e = d THEN Append(S.queue[e], task) ELSE S.queue[e]
    BY <1>2 DEF ServerStates
  <2>3. Extends(S.queue[e], Append(S.queue[e], task)) /\ Extends(S.queue[e], S.queue[e])
    BY <1>7, <2>1 DEF Extends
  <2> QED BY <2>2, <2>3
<1>8. OfBytes(task) => BooksAlike(S, T)
  <2> HIDE DEF T, q
  <2> QED BY <1>5, <1>7 DEF BooksAlike
<1> QED BY <1>1, <1>6, <1>8

\* Changing one exchange, and what was written on its connection.
LEMMA Exchanged ==
  ASSUME NEW S \in GoodStates, NEW s \in Streams, NEW x \in Exchange, NEW w \in Seq(Events),
         Len(x.replay) <= ReplayLimit
  PROVE  LET T == [S EXCEPT !.ex = [S.ex EXCEPT ![s] = x], !.wire = [S.wire EXCEPT ![s] = w]] IN
         /\ T \in GoodStates /\ T.queue = S.queue
         /\ x.disp = S.ex[s].disp => BooksAlike(S, T)
<1> DEFINE y == [S.ex EXCEPT ![s] = x]
           v == [S.wire EXCEPT ![s] = w]
           T == [S EXCEPT !.ex = y, !.wire = v]
<1>1. S \in ServerStates
  BY DEF GoodStates
<1>2. y \in [Streams -> Exchange] /\ v \in [Streams -> Seq(Events)]
  BY <1>1 DEF ServerStates
<1>3. \A t \in Streams : y[t] = IF t = s THEN x ELSE S.ex[t]
  BY <1>1 DEF ServerStates
<1>4. T \in ServerStates
  <2> HIDE DEF y, v
  <2> QED BY <1>1, <1>2 DEF ServerStates
<1>5. /\ T.ex = y /\ T.known = S.known /\ T.streams = S.streams /\ T.ctx = S.ctx
      /\ T.pending = S.pending /\ T.stream_ids = S.stream_ids /\ T.conn = S.conn /\ T.queue = S.queue
  BY <1>1 DEF ServerStates
<1>6. T \in GoodStates
  <2> HIDE DEF T, y
  <2> QED BY <1>3, <1>4, <1>5 DEF GoodStates
<1>7. x.disp = S.ex[s].disp => BooksAlike(S, T)
  <2>1. BooksAlike(S, S)
    BY Alike
  <2> HIDE DEF T, y
  <2> QED BY <1>3, <1>5, <2>1 DEF BooksAlike
<1> QED BY <1>5, <1>6, <1>7
-----------------------------------------------------------------------------
(* What an exchange does.                                                  *)

LEMMA SettingIs ==
  ASSUME setting \in Settings
  PROVE  /\ setting.dispatchers \in SUBSET Dispatchers /\ setting.gets \in SUBSET GetStreams
         /\ AnswerEvents \in Nat /\ Notes \in Nat /\ ReplayLimit \in Nat \ {0}
         /\ Owner \in setting.dispatchers /\ Owner \in Dispatchers
         /\ Answer \in Streams /\ None \notin Streams /\ PendingLimit \in Nat \ {0}
         /\ MaxGetStreams \in Nat
BY SessionAssumption DEF Setting, AnswerEvents, Notes, ReplayLimit, Streams

LEMMA Retained ==
  ASSUME setting \in Settings, NEW q \in Seq(Events), Len(q) <= ReplayLimit, NEW e \in Events
  PROVE  retainEvent(q, e) \in Seq(Events) /\ Len(retainEvent(q, e)) <= ReplayLimit
<1>1. ReplayLimit \in Nat \ {0}
  BY SettingIs
<1>2. CASE Len(q) >= ReplayLimit
  <2>1. q # <<>> /\ Tail(q) \in Seq(Events) /\ Len(Tail(q)) = Len(q) - 1
    BY <1>1, <1>2
  <2> QED BY <1>1, <1>2, <2>1 DEF retainEvent
<1>3. CASE ~(Len(q) >= ReplayLimit)
  BY <1>1, <1>3 DEF retainEvent
<1> QED BY <1>2, <1>3

LEMMA EventWritten ==
  ASSUME setting \in Settings, NEW S \in GoodStates, NEW s \in Streams, NEW event \in Events
  PROVE  writeEvent(S, s, event) \in GoodStates /\ BooksAlike(S, writeEvent(S, s, event))
<1> DEFINE x == S.ex[s]
           minted == event.id = NoId
           e == IF minted THEN [event EXCEPT !.id = <<s, x.next>>] ELSE event
           replay == retainEvent(x.replay, e)
           next == IF minted THEN x.next + 1 ELSE x.next
           y == [x EXCEPT !.replay = replay, !.next = next]
           w == IF x.detached \/ S.conn[s] # "up" THEN S.wire[s] ELSE Append(S.wire[s], e)
           W == [S EXCEPT !.ex[s].replay = replay, !.ex[s].next = next, !.wire[s] = w]
           V == [S EXCEPT !.ex = [S.ex EXCEPT ![s] = y], !.wire = [S.wire EXCEPT ![s] = w]]
           task == [op |-> "forward", stream |-> x.follower, event |-> e]
<1>1. S \in ServerStates /\ Len(x.replay) <= ReplayLimit
  BY DEF GoodStates
<1>2. x \in Exchange /\ S.wire[s] \in Seq(Events) /\ S.ex \in [Streams -> Exchange]
      /\ S.wire \in [Streams -> Seq(Events)]
  BY <1>1 DEF ServerStates
<1>3. e \in Events
  <2>1. x.next \in Nat \ {0}
    BY <1>2 DEF Exchange
  <2>2. <<s, x.next>> \in Ids
    BY <2>1 DEF Ids
  <2> QED BY <2>2 DEF Events
<1>4. replay \in Seq(Events) /\ Len(replay) <= ReplayLimit
  <2>1. x.replay \in Seq(Events)
    BY <1>2 DEF Exchange
  <2> HIDE DEF e, x
  <2> QED BY <1>1, <1>3, <2>1, Retained
<1>5. y \in Exchange /\ Len(y.replay) <= ReplayLimit /\ y.disp = S.ex[s].disp
  <2>1. next \in Nat \ {0}
    BY <1>2 DEF Exchange
  <2> HIDE DEF replay, next, e
  <2> QED BY <1>2, <1>4, <2>1 DEF Exchange
<1>6. w \in Seq(Events)
  <2> HIDE DEF e
  <2> QED BY <1>2, <1>3
<1>7. W = V
  <2>1. "ex" \in DOMAIN S /\ "wire" \in DOMAIN S /\ s \in DOMAIN S.ex /\ s \in DOMAIN S.wire
    BY <1>1, <1>2 DEF ServerStates
  <2> HIDE DEF replay, next, w
  <2>2. [S.ex EXCEPT ![s].replay = replay, ![s].next = next] = [S.ex EXCEPT ![s] = y]
    BY <2>1
  <2> QED BY <2>1, <2>2
<1>8. V \in GoodStates /\ BooksAlike(S, V)
  <2> HIDE DEF y, w
  <2> QED BY <1>5, <1>6, Exchanged DEF y
<1>9. writeEvent(S, s, event) = CASE x.mode # "Stream" -> S
                                  [] x.mode = "Stream" /\ x.follower = None -> W
                                  [] OTHER -> Post(W, S.ex[x.follower].disp, task)
  BY DEF writeEvent
<1>10. CASE x.mode # "Stream"
  BY <1>9, <1>10, Alike
<1>11. CASE x.mode = "Stream" /\ x.follower = None
  <2> HIDE DEF W, V
  <2> QED BY <1>7, <1>8, <1>9, <1>11
<1>12. CASE x.mode = "Stream" /\ x.follower # None
  <2>1. x.follower \in Streams
    BY <1>2, <1>12 DEF Exchange
  <2>2. S.ex[x.follower].disp \in Dispatchers
    BY <1>2, <2>1 DEF Exchange
  <2>3. task \in Tasks /\ OfBytes(task)
    <3> HIDE DEF e, x
    <3> QED BY <1>3, <2>1 DEF Tasks, Writes, OfBytes
  <2> HIDE DEF V, W, task
  <2>4. Post(W, S.ex[x.follower].disp, task) \in GoodStates
        /\ BooksAlike(W, Post(W, S.ex[x.follower].disp, task))
    BY <1>7, <1>8, <2>2, <2>3, Posted
  <2>5. BooksAlike(S, Post(W, S.ex[x.follower].disp, task))
    BY <1>7, <1>8, <2>4, Alike
  <2> QED BY <1>9, <1>12, <2>4, <2>5
<1> QED BY <1>10, <1>11, <1>12

LEMMA ExchangeRan ==
  ASSUME setting \in Settings, NEW S \in GoodStates, NEW task \in Writes \cup Ends
  PROVE  RunOnExchange(S, task) \in GoodStates /\ BooksAlike(S, RunOnExchange(S, task))
<1> DEFINE s == task.stream
           x == S.ex[s]
<1>1. s \in Streams
  BY DEF Writes, Ends
<1>2. x \in Exchange /\ S.wire[s] \in Seq(Events) /\ Len(x.replay) <= ReplayLimit
      /\ S.ex \in [Streams -> Exchange] /\ S.wire \in [Streams -> Seq(Events)]
  BY <1>1 DEF GoodStates, ServerStates
<1>3. ASSUME task \in Writes
      PROVE  RunOnExchange(S, task) = writeEvent(S, s, task.event) /\ task.event \in Events
  BY <1>3 DEF RunOnExchange, Writes
<1>4. ASSUME NEW y \in Exchange, Len(y.replay) <= ReplayLimit, y.disp = x.disp,
             NEW T, T = [S EXCEPT !.ex = [S.ex EXCEPT ![s] = y]]
      PROVE  T \in GoodStates /\ BooksAlike(S, T)
  <2>1. S \in ServerStates
    BY DEF GoodStates
  <2>2. [S.wire EXCEPT ![s] = S.wire[s]] = S.wire
    BY <1>2
  <2>3. T = [S EXCEPT !.ex = [S.ex EXCEPT ![s] = y], !.wire = [S.wire EXCEPT ![s] = S.wire[s]]]
    BY <1>4, <2>1, <2>2 DEF ServerStates
  <2>4. y.disp = S.ex[s].disp /\ S.wire[s] \in Seq(Events)
    BY <1>2, <1>4
  <2> HIDE DEF s, x
  <2> DEFINE V == [S EXCEPT !.ex = [S.ex EXCEPT ![s] = y], !.wire = [S.wire EXCEPT ![s] = S.wire[s]]]
  <2>5. V \in GoodStates /\ (y.disp = S.ex[s].disp => BooksAlike(S, V))
    BY <1>1, <1>4, <2>4, Exchanged
  <2> HIDE DEF V
  <2>6. T = V
    BY <2>3 DEF V
  <2> QED BY ONLY <2>4, <2>5, <2>6
<1>5. CASE task \in Writes
  BY <1>1, <1>3, <1>5, EventWritten
<1>6. CASE task \in Ends /\ task.op = "release"
  <2> DEFINE y == [x EXCEPT !.replay = <<>>]
  <2>1. y \in Exchange /\ Len(y.replay) <= ReplayLimit /\ y.disp = x.disp
    <3>1. <<>> \in Seq(Events) /\ Len(<<>>) = 0
      OBVIOUS
    <3>2. ReplayLimit \in Nat
      BY SettingIs
    <3> HIDE DEF x
    <3>3. y \in Exchange /\ y.replay = <<>> /\ y.disp = x.disp
      BY ONLY <1>2, <3>1 DEF Exchange
    <3> QED BY <3>1, <3>2, <3>3
  <2>2. RunOnExchange(S, task) = [S EXCEPT !.ex[s].replay = <<>>]
    BY <1>6 DEF RunOnExchange, releaseReplay
  <2>3. RunOnExchange(S, task) = [S EXCEPT !.ex = [S.ex EXCEPT ![s] = y]]
    BY <2>2
  <2> HIDE DEF y
  <2> QED BY <1>4, <2>1, <2>3
<1>7. CASE task \in Ends /\ task.op = "end"
  <2> DEFINE y == [x EXCEPT !.mode = "Complete"]
  <2>1. y \in Exchange /\ Len(y.replay) <= ReplayLimit /\ y.disp = x.disp
    BY <1>2 DEF Exchange
  <2>2. RunOnExchange(S, task) = [S EXCEPT !.ex[s].mode = "Complete"]
    BY <1>7 DEF RunOnExchange, complete
  <2>3. RunOnExchange(S, task) = [S EXCEPT !.ex = [S.ex EXCEPT ![s] = y]]
    BY <2>2
  <2> HIDE DEF y
  <2> QED BY <1>4, <2>1, <2>3
<1> QED BY <1>5, <1>6, <1>7 DEF Ends

LEMMA Reached ==
  ASSUME setting \in Settings, NEW S \in GoodStates, NEW task \in Writes \cup Ends
  PROVE  OnExchange(S, task) \in GoodStates /\ BooksAlike(S, OnExchange(S, task))
<1>1. task.stream \in Streams /\ task \in Tasks /\ OfBytes(task)
  BY DEF Writes, Ends, Tasks, OfBytes
<1>2. S.ex[task.stream].disp \in Dispatchers
  BY <1>1 DEF GoodStates, ServerStates, Exchange
<1>3. CASE S.ex[task.stream].disp = Owner
  BY <1>3, ExchangeRan DEF OnExchange
<1>4. CASE S.ex[task.stream].disp # Owner
  BY <1>1, <1>2, <1>4, Posted DEF OnExchange
<1> QED BY <1>3, <1>4

LEMMA Written ==
  ASSUME setting \in Settings, NEW S \in GoodStates, NEW s \in Streams, NEW m \in Messages
  PROVE  writeToStream(S, s, m) \in GoodStates /\ BooksAlike(S, writeToStream(S, s, m))
<1>1. [op |-> "write", stream |-> s, event |-> Unnumbered(m)] \in Writes
  BY DEF Writes, Unnumbered, Events, Ids
<1> QED BY <1>1, Reached DEF writeToStream
-----------------------------------------------------------------------------
(* The session's books.                                                    *)

\* Nobody has named this stream yet: the session does not hold it, and nothing
\* under way is going to open it.
NotOpening(S, s) ==
  /\ s \notin Range(S.streams)
  /\ \A d \in Dispatchers : \A i \in 1..Len(S.queue[d]) :
       Opens(S.queue[d][i]) => S.queue[d][i].stream # s

\* Of each stream one step of its opening is under way, at most.
OpenedOnce(S) ==
  \A d, e \in Dispatchers : \A i \in 1..Len(S.queue[d]), j \in 1..Len(S.queue[e]) :
    Opens(S.queue[d][i]) /\ Opens(S.queue[e][j]) /\ S.queue[d][i].stream = S.queue[e][j].stream
      => d = e /\ i = j

\* Who is held, or was let in and is about to be, has its id.
Reserved(S) ==
  /\ Range(S.streams) \subseteq S.stream_ids
  /\ \A d \in Dispatchers : \A i \in 1..Len(S.queue[d]) :
       S.queue[d][i].op \in {"collect", "deliver", "attach"} => S.queue[d][i].stream \in S.stream_ids

\* Streams are held once, and not while they are being opened; one whose
\* connection there never was is neither.
Placed(S) ==
  /\ \A i, j \in DOMAIN S.streams : S.streams[i] = S.streams[j] => i = j
  /\ \A d \in Dispatchers : \A i \in 1..Len(S.queue[d]) :
       Opens(S.queue[d][i]) =>
         S.queue[d][i].stream \notin Range(S.streams) /\ S.conn[S.queue[d][i].stream] # "unborn"
  /\ \A s \in Range(S.streams) : S.conn[s] # "unborn"

Books(S) == OpenedOnce(S) /\ Reserved(S) /\ Placed(S)

NoneWaits(S) == S.pending # <<>> => \A s \in Range(S.streams) : kind(s) = "Get" => ~live(S, s)

\* With the session's own dispatcher alone, nothing crosses from one to another.
ByItself == setting.dispatchers = {Owner}
Alone(S) ==
  ByItself => /\ \A s \in Streams : S.ex[s].disp = Owner
              /\ \A d \in Dispatchers : \A i \in 1..Len(S.queue[d]) : OfBytes(S.queue[d][i])

Few(S) == ByItself => openGets(S) <= MaxGetStreams

Sound(S) == Books(S) /\ NoneWaits(S) /\ Alone(S) /\ Few(S)

LEMMA StateIs ==
  ASSUME NEW S \in GoodStates
  PROVE  /\ S.streams \in Seq(Streams) /\ Range(S.streams) \subseteq Streams
         /\ DOMAIN S.streams = 1..Len(S.streams) /\ Len(S.streams) \in Nat
         /\ \A d \in Dispatchers : S.queue[d] \in Seq(Tasks) /\ Len(S.queue[d]) \in Nat
         /\ \A d \in Dispatchers : \A i \in 1..Len(S.queue[d]) :
              S.queue[d][i] \in Tasks /\ S.queue[d][i].stream \in Streams
         /\ \A s \in Streams : S.ex[s].disp \in Dispatchers
<1>1. S \in ServerStates
  BY DEF GoodStates
<1>2. S.streams \in Seq(Streams)
  BY <1>1 DEF ServerStates
<1>3. Range(S.streams) \subseteq Streams
  BY <1>2 DEF Range
<1>4. \A d \in Dispatchers : S.queue[d] \in Seq(Tasks) /\ Len(S.queue[d]) \in Nat
  BY <1>1 DEF ServerStates
<1>5. \A t \in Tasks : t.stream \in Streams
  BY DEF Tasks, Visits, Writes, Ends, Judgements, Verdicts, Collections, Deliveries
<1>6. \A d \in Dispatchers : \A i \in 1..Len(S.queue[d]) : S.queue[d][i] \in Tasks
  BY <1>4
<1>7. \A s \in Streams : S.ex[s].disp \in Dispatchers
  BY <1>1 DEF ServerStates, Exchange
<1> QED BY <1>2, <1>3, <1>4, <1>5, <1>6, <1>7

\* The open standalone streams of a session, counted.
OpenGets(S) == {s \in Range(S.streams) : kind(s) = "Get" /\ S.ctx[s].producing}

LEMMA Counted ==
  ASSUME NEW S \in GoodStates, NEW T \in GoodStates
  PROVE  /\ IsFiniteSet(OpenGets(S)) /\ openGets(S) \in Nat
         /\ OpenGets(T) \subseteq OpenGets(S) => openGets(T) <= openGets(S)
         /\ \A s : OpenGets(T) \subseteq OpenGets(S) \cup {s} => openGets(T) <= openGets(S) + 1
<1>1. \A V \in GoodStates : IsFiniteSet(OpenGets(V))
  <2> SUFFICES ASSUME NEW V \in GoodStates PROVE IsFiniteSet(OpenGets(V))
    OBVIOUS
  <2>1. DOMAIN V.streams = 1..Len(V.streams) /\ Len(V.streams) \in Nat
    BY StateIs
  <2>2. IsFiniteSet(1..Len(V.streams))
    BY <2>1, FS_Interval
  <2>3. IsFiniteSet(Range(V.streams))
    <3>1. V.streams \in [1..Len(V.streams) -> Range(V.streams)]
      BY StateIs DEF Range
    <3>2. V.streams \in Surjection(1..Len(V.streams), Range(V.streams))
      BY <2>1, <3>1 DEF Surjection, Range
    <3> QED BY <2>2, <3>2, FS_Surjection
  <2> QED BY <2>3, FS_Subset DEF OpenGets
<1>2. \A V : openGets(V) = Cardinality(OpenGets(V))
  BY DEF openGets, OpenGets
<1>3. openGets(S) \in Nat
  BY <1>1, <1>2, FS_CardinalityType
<1>4. ASSUME OpenGets(T) \subseteq OpenGets(S) PROVE openGets(T) <= openGets(S)
  BY <1>1, <1>2, <1>4, FS_Subset
<1>5. ASSUME NEW s, OpenGets(T) \subseteq OpenGets(S) \cup {s} PROVE openGets(T) <= openGets(S) + 1
  <2>1. IsFiniteSet(OpenGets(S) \cup {s})
        /\ Cardinality(OpenGets(S) \cup {s}) \in {Cardinality(OpenGets(S)), Cardinality(OpenGets(S)) + 1}
    BY <1>1, FS_AddElement
  <2>2. Cardinality(OpenGets(T)) <= Cardinality(OpenGets(S) \cup {s})
    BY <1>5, <2>1, FS_Subset
  <2>3. Cardinality(OpenGets(T)) \in Nat /\ Cardinality(OpenGets(S)) \in Nat
    BY <1>1, FS_CardinalityType
  <2> QED BY <1>2, <2>1, <2>2, <2>3
<1> QED BY <1>1, <1>3, <1>4, <1>5

\* No closure that opens a stream is in T but where it was in S.
NoneOpened(S, T) ==
  \A d \in Dispatchers : \A i \in 1..Len(T.queue[d]) :
    Opens(T.queue[d][i]) => i \in 1..Len(S.queue[d]) /\ T.queue[d][i] = S.queue[d][i]

\* What leaves streams held and ids reserved, but for streams it closes, keeps
\* the books.
LEMMA BooksKept ==
  ASSUME NEW S \in GoodStates, NEW T \in GoodStates, Books(S), NoneOpened(S, T),
         Range(T.streams) \subseteq Range(S.streams),
         \A i, j \in DOMAIN T.streams : T.streams[i] = T.streams[j] => i = j,
         \A s \in S.stream_ids : s \in T.stream_ids \/ (s \in Range(S.streams) /\ s \notin Range(T.streams)),
         \A s \in Streams : T.conn[s] = "unborn" => S.conn[s] = "unborn"
  PROVE  Books(T) /\ \A s \in Streams : NotOpening(S, s) => NotOpening(T, s)
<1>1. OpenedOnce(T)
  <2>1. ASSUME NEW d \in Dispatchers, NEW e \in Dispatchers, NEW i \in 1..Len(T.queue[d]),
               NEW j \in 1..Len(T.queue[e]), Opens(T.queue[d][i]), Opens(T.queue[e][j]),
               T.queue[d][i].stream = T.queue[e][j].stream
        PROVE  d = e /\ i = j
    <3>1. /\ i \in 1..Len(S.queue[d]) /\ T.queue[d][i] = S.queue[d][i]
          /\ j \in 1..Len(S.queue[e]) /\ T.queue[e][j] = S.queue[e][j]
      BY <2>1 DEF NoneOpened
    <3> QED BY <2>1, <3>1 DEF Books, OpenedOnce
  <2> QED BY ONLY <2>1 DEF OpenedOnce
<1>2. \A d \in Dispatchers : \A i \in 1..Len(T.queue[d]) :
        Opens(T.queue[d][i]) => /\ T.queue[d][i].stream \in Streams
                                /\ T.queue[d][i].stream \notin Range(S.streams)
                                /\ S.conn[T.queue[d][i].stream] # "unborn"
  BY StateIs DEF Books, Placed, NoneOpened
<1>3. Placed(T)
  BY <1>2, StateIs DEF Books, Placed
<1>4. Reserved(T)
  <2>1. Range(T.streams) \subseteq T.stream_ids
    BY DEF Books, Reserved
  <2>2. ASSUME NEW d \in Dispatchers, NEW i \in 1..Len(T.queue[d]),
               T.queue[d][i].op \in {"collect", "deliver", "attach"}
        PROVE  T.queue[d][i].stream \in T.stream_ids
    <3>1. Opens(T.queue[d][i])
      BY <2>2 DEF Opens
    <3>2. T.queue[d][i].stream \in S.stream_ids
      BY <2>2, <3>1 DEF Books, Reserved, NoneOpened
    <3> QED BY <1>2, <3>1, <3>2
  <2> QED BY <2>1, <2>2 DEF Reserved
<1>5. \A s \in Streams : NotOpening(S, s) => NotOpening(T, s)
  BY DEF NotOpening, NoneOpened
<1> QED BY <1>1, <1>3, <1>4, <1>5 DEF Books

LEMMA AlikeSound ==
  ASSUME NEW S \in GoodStates, NEW T \in GoodStates, BooksAlike(S, T)
  PROVE  /\ Sound(S) => Sound(T)
         /\ Books(S) => \A s \in Streams : NotOpening(S, s) => NotOpening(T, s)
         /\ openGets(T) = openGets(S) /\ NoneOpened(S, T) /\ (Alone(S) => Alone(T))
<1>1. NoneOpened(S, T)
  <2>1. ASSUME NEW d \in Dispatchers, NEW i \in 1..Len(T.queue[d]), Opens(T.queue[d][i])
        PROVE  i \in 1..Len(S.queue[d]) /\ T.queue[d][i] = S.queue[d][i]
    <3>1. Extends(S.queue[d], T.queue[d]) /\ Len(S.queue[d]) \in Nat /\ Len(T.queue[d]) \in Nat
      BY StateIs DEF BooksAlike
    <3>2. ~OfBytes(T.queue[d][i])
      BY <2>1 DEF Opens, OfBytes
    <3> QED BY <3>1, <3>2 DEF Extends
  <2> QED BY ONLY <2>1 DEF NoneOpened
<1>2. openGets(T) = openGets(S)
  BY DEF BooksAlike, openGets
<1>3. Books(S) => Books(T) /\ \A s \in Streams : NotOpening(S, s) => NotOpening(T, s)
  <2>1. ASSUME Books(S)
        PROVE  Books(T) /\ \A s \in Streams : NotOpening(S, s) => NotOpening(T, s)
    <3>1. \A i, j \in DOMAIN T.streams : T.streams[i] = T.streams[j] => i = j
      BY <2>1 DEF Books, Placed, BooksAlike
    <3> QED BY <1>1, <2>1, <3>1, BooksKept DEF BooksAlike
  <2> QED BY <2>1
<1>4. NoneWaits(S) => NoneWaits(T)
  BY DEF NoneWaits, live, BooksAlike
<1>5. Alone(S) => Alone(T)
  BY StateIs DEF Alone, BooksAlike, Extends
<1>6. Few(S) => Few(T)
  BY <1>2 DEF Few
<1> QED BY <1>1, <1>2, <1>3, <1>4, <1>5, <1>6 DEF Sound

-----------------------------------------------------------------------------
(* What a step may do to the books.                                        *)

Fine(S) == S \in GoodStates /\ Sound(S)

\* A stream somebody is about to open, and the room there must be for it.
Coming(S, s) == s \in Streams /\ NotOpening(S, s) /\ S.conn[s] # "unborn"
Room(S, s) == ByItself /\ kind(s) = "Get" => openGets(S) < MaxGetStreams

\* What an exchange does keeps all of it.
LEMMA StillFine ==
  ASSUME NEW S, Fine(S), NEW T \in GoodStates, BooksAlike(S, T)
  PROVE  Fine(T) /\ \A s : /\ Coming(S, s) => Coming(T, s) /\ (Room(S, s) => Room(T, s))
                           /\ s \in S.stream_ids => s \in T.stream_ids
<1>1. S \in GoodStates /\ Sound(S) /\ Books(S)
  BY DEF Fine, Sound
<1>2. Sound(T) /\ openGets(T) = openGets(S) /\ \A s \in Streams : NotOpening(S, s) => NotOpening(T, s)
  BY <1>1, AlikeSound
<1>3. T.conn = S.conn /\ T.stream_ids = S.stream_ids
  BY DEF BooksAlike
<1> QED BY <1>1, <1>2, <1>3 DEF Fine, Coming, Room

\* What closes, ends or detaches streams, and leaves the closures that open
\* others as they are.
Lessens(S, T) ==
  /\ NoneOpened(S, T)
  /\ Range(T.streams) \subseteq Range(S.streams)
  /\ \A i, j \in DOMAIN T.streams : T.streams[i] = T.streams[j] => i = j
  /\ \A s \in S.stream_ids : s \in T.stream_ids \/ (s \in Range(S.streams) /\ s \notin Range(T.streams))
  /\ \A s \in Streams : T.conn[s] = "unborn" => S.conn[s] = "unborn"
  /\ T.pending = S.pending
  /\ \A s \in Range(T.streams) : /\ live(T, s) => live(S, s)
                                 /\ T.ctx[s].producing => S.ctx[s].producing
  /\ Alone(T)

LEMMA StillSound ==
  ASSUME setting \in Settings, NEW S, Fine(S), NEW T \in GoodStates, Lessens(S, T)
  PROVE  Fine(T)
<1>1. S \in GoodStates /\ Sound(S) /\ Books(S)
  BY DEF Fine, Sound
<1>2. Books(T)
  BY <1>1, BooksKept DEF Lessens
<1>3. NoneWaits(T)
  BY <1>1 DEF Sound, NoneWaits, Lessens
<1>4. Few(T)
  <2>1. OpenGets(T) \subseteq OpenGets(S)
    BY DEF OpenGets, Lessens
  <2>2. openGets(T) <= openGets(S) /\ openGets(T) \in Nat /\ openGets(S) \in Nat
    BY <1>1, <2>1, Counted
  <2>3. MaxGetStreams \in Nat /\ Few(S)
    BY <1>1, SettingIs DEF Sound
  <2> QED BY <2>2, <2>3 DEF Few
<1> QED BY <1>2, <1>3, <1>4 DEF Fine, Sound, Lessens

\* Posting from one dispatcher to another: a visit, or a step of opening a
\* stream that nothing else is opening.
LEMMA PostedSound ==
  ASSUME setting \in Settings, NEW S, Fine(S), NEW d \in Dispatchers, NEW task \in Tasks, ~ByItself,
         Opens(task) => Coming(S, task.stream),
         task.op \in {"collect", "deliver", "attach"} => task.stream \in S.stream_ids
  PROVE  Fine(Post(S, d, task))
<1> DEFINE q == [S.queue EXCEPT ![d] = Append(S.queue[d], task)]
           T == [S EXCEPT !.queue = q]
           n == Len(S.queue[d]) + 1
<1>1. S \in GoodStates /\ S \in ServerStates /\ Sound(S) /\ Books(S)
  BY DEF Fine, Sound, GoodStates
<1>2. T \in GoodStates /\ Post(S, d, task) = T
  <2> DEFINE P == Post(S, d, task)
  <2>1. P \in GoodStates
    BY <1>1, Posted
  <2>2. P = T
    BY DEF Post
  <2> HIDE DEF P, T
  <2> QED BY <2>1, <2>2 DEF P
<1>3. /\ T.queue = q /\ T.streams = S.streams /\ T.ctx = S.ctx /\ T.pending = S.pending
      /\ T.stream_ids = S.stream_ids /\ T.conn = S.conn /\ T.ex = S.ex
  BY <1>1 DEF ServerStates
<1>4. \A e \in Dispatchers : S.queue[e] \in Seq(Tasks) /\ Len(S.queue[e]) \in Nat
  BY <1>1, StateIs
<1>5. ASSUME NEW e \in Dispatchers, NEW i \in 1..Len(q[e])
      PROVE  \/ i \in 1..Len(S.queue[e]) /\ q[e][i] = S.queue[e][i]
             \/ e = d /\ i = n /\ q[e][i] = task
  <2>1. q[e] = IF e = d THEN Append(S.queue[d], task) ELSE S.queue[e]
    BY <1>1 DEF ServerStates
  <2>2. \A j \in 1..Len(Append(S.queue[d], task)) :
          Append(S.queue[d], task)[j] = IF j <= Len(S.queue[d]) THEN S.queue[d][j] ELSE task
    BY <1>4
  <2>3. Len(Append(S.queue[d], task)) = n /\ Len(S.queue[d]) \in Nat
    BY <1>4
  <2>4. CASE e = d
    <3>1. i \in 1..n /\ q[e][i] = IF i <= Len(S.queue[d]) THEN S.queue[d][i] ELSE task
      <4> HIDE DEF q, n
      <4>1. q[e] = Append(S.queue[d], task)
        BY <2>1, <2>4
      <4>2. i \in 1..Len(Append(S.queue[d], task)) /\ i \in 1..n
        BY <2>3, <4>1
      <4> QED BY ONLY <2>2, <4>1, <4>2
    <3>2. CASE i <= Len(S.queue[d])
      <4> HIDE DEF q
      <4> QED BY <2>3, <2>4, <3>1, <3>2
    <3>3. CASE ~(i <= Len(S.queue[d]))
      <4>1. i = n
        BY <2>3, <3>1, <3>3
      <4> HIDE DEF q, n
      <4> QED BY <2>4, <3>1, <3>3, <4>1
    <3> QED BY <3>2, <3>3
  <2>5. CASE e # d
    BY <2>1, <2>5
  <2> QED BY <2>4, <2>5
<1> HIDE DEF q, T, n
<1>6. OpenedOnce(T)
  <2> SUFFICES ASSUME NEW d1 \in Dispatchers, NEW d2 \in Dispatchers,
                      NEW i \in 1..Len(q[d1]), NEW j \in 1..Len(q[d2]),
                      Opens(q[d1][i]), Opens(q[d2][j]), q[d1][i].stream = q[d2][j].stream
               PROVE  d1 = d2 /\ i = j
    BY <1>3 DEF OpenedOnce
  <2>1. ASSUME NEW e \in Dispatchers, NEW k \in 1..Len(S.queue[e]), Opens(S.queue[e][k]), Opens(task)
        PROVE  S.queue[e][k].stream # task.stream
    BY <2>1 DEF Coming, NotOpening
  <2>2. \/ i \in 1..Len(S.queue[d1]) /\ q[d1][i] = S.queue[d1][i]
        \/ d1 = d /\ i = n /\ q[d1][i] = task
    BY <1>5
  <2>3. \/ j \in 1..Len(S.queue[d2]) /\ q[d2][j] = S.queue[d2][j]
        \/ d2 = d /\ j = n /\ q[d2][j] = task
    BY <1>5
  <2>4. OpenedOnce(S)
    BY <1>1 DEF Books
  <2>5. CASE /\ i \in 1..Len(S.queue[d1]) /\ q[d1][i] = S.queue[d1][i]
             /\ j \in 1..Len(S.queue[d2]) /\ q[d2][j] = S.queue[d2][j]
    BY <2>4, <2>5 DEF OpenedOnce
  <2>6. CASE d1 = d /\ i = n /\ q[d1][i] = task
    BY <2>1, <2>3, <2>6
  <2>7. CASE d2 = d /\ j = n /\ q[d2][j] = task
    BY <2>1, <2>2, <2>7
  <2> QED BY ONLY <2>2, <2>3, <2>5, <2>6, <2>7
<1>7. Reserved(T)
  <2>1. ASSUME NEW e \in Dispatchers, NEW i \in 1..Len(q[e]),
               q[e][i].op \in {"collect", "deliver", "attach"}
        PROVE  q[e][i].stream \in S.stream_ids
    BY <1>1, <1>5, <2>1 DEF Books, Reserved
  <2>2. Range(S.streams) \subseteq S.stream_ids
    BY <1>1 DEF Books, Reserved
  <2> QED BY <1>3, <2>1, <2>2 DEF Reserved
<1>8. Placed(T)
  <2>1. ASSUME NEW e \in Dispatchers, NEW i \in 1..Len(q[e]), Opens(q[e][i])
        PROVE  q[e][i].stream \notin Range(S.streams) /\ S.conn[q[e][i].stream] # "unborn"
    <3>1. CASE i \in 1..Len(S.queue[e]) /\ q[e][i] = S.queue[e][i]
      BY <1>1, <2>1, <3>1 DEF Books, Placed
    <3>2. CASE q[e][i] = task
      BY <2>1, <3>2 DEF Coming, NotOpening
    <3> QED BY <1>5, <3>1, <3>2
  <2>2. /\ \A i, j \in DOMAIN S.streams : S.streams[i] = S.streams[j] => i = j
        /\ \A s \in Range(S.streams) : S.conn[s] # "unborn"
    BY <1>1 DEF Books, Placed
  <2> QED BY <1>3, <2>1, <2>2 DEF Placed
<1>9. NoneWaits(T) /\ Alone(T) /\ Few(T)
  <2>1. openGets(T) = openGets(S)
    BY <1>3 DEF openGets
  <2>2. NoneWaits(S) /\ Few(S)
    BY <1>1 DEF Sound
  <2>3. NoneWaits(T)
    BY <1>3, <2>2 DEF NoneWaits, live
  <2> QED BY <2>1, <2>2, <2>3 DEF Alone, Few
<1> QED BY <1>2, <1>6, <1>7, <1>8, <1>9 DEF Fine, Sound, Books

-----------------------------------------------------------------------------
(* The session's operations.                                               *)

LEMMA SameElements ==
  ASSUME NEW X, NEW q \in Seq(X)
  PROVE  /\ Range(q) = {q[i] : i \in 1..Len(q)}
         /\ \A x : Contains(q, x) <=> x \in Range(q)
BY DEF Range, Contains

\* Taking the element at one place out of a sequence without repetitions.
LEMMA RemovedAt ==
  ASSUME NEW X, NEW q \in Seq(X), NEW i \in 1..Len(q),
         \A j, k \in DOMAIN q : q[j] = q[k] => j = k
  PROVE  /\ RemoveAt(q, i) \in Seq(X) /\ Len(RemoveAt(q, i)) = Len(q) - 1
         /\ Range(RemoveAt(q, i)) = Range(q) \ {q[i]}
         /\ \A j, k \in DOMAIN RemoveAt(q, i) : RemoveAt(q, i)[j] = RemoveAt(q, i)[k] => j = k
<1> DEFINE r == RemoveAt(q, i)
           n == Len(q)
<1>1. n \in Nat /\ DOMAIN q = 1..n
  OBVIOUS
<1>2. /\ SubSeq(q, 1, i - 1) \in Seq(X) /\ Len(SubSeq(q, 1, i - 1)) = i - 1
      /\ \A j \in 1..(i - 1) : SubSeq(q, 1, i - 1)[j] = q[j]
  BY <1>1
<1>3. /\ SubSeq(q, i + 1, n) \in Seq(X) /\ Len(SubSeq(q, i + 1, n)) = n - i
      /\ \A j \in 1..(n - i) : SubSeq(q, i + 1, n)[j] = q[j + i]
  <2>1. i + 1 \in Int /\ n \in Int /\ \A j \in (i + 1)..n : q[j] \in X
    BY <1>1
  <2> DEFINE z == SubSeq(q, i + 1, n)
  <2> HIDE DEF n
  <2>2. /\ z \in Seq(X) /\ Len(z) = IF i + 1 <= n THEN n - (i + 1) + 1 ELSE 0
        /\ \A j \in 1..(n - (i + 1) + 1) : z[j] = q[(i + 1) + j - 1]
    BY <2>1, SubSeqProperties
  <2> HIDE DEF z
  <2>3. n - (i + 1) + 1 = n - i /\ i <= n /\ \A j \in 1..(n - i) : (i + 1) + j - 1 = j + i
    BY <1>1 DEF n
  <2>4. Len(z) = n - i
    BY <1>1, <2>2, <2>3
  <2> QED BY <2>2, <2>3, <2>4 DEF z
<1>4. /\ r \in Seq(X) /\ Len(r) = n - 1
      /\ \A j \in 1..(n - 1) : r[j] = IF j < i THEN q[j] ELSE q[j + 1]
  <2> DEFINE a == SubSeq(q, 1, i - 1)
             b == SubSeq(q, i + 1, n)
  <2>1. r = a \o b
    BY DEF RemoveAt
  <2> HIDE DEF a, b, r
  <2>2. /\ a \o b \in Seq(X) /\ Len(a \o b) = Len(a) + Len(b)
        /\ \A j \in 1..(Len(a) + Len(b)) : (a \o b)[j] = IF j <= Len(a) THEN a[j] ELSE b[j - Len(a)]
    <3>1. a \in Seq(X) /\ b \in Seq(X)
      BY <1>2, <1>3 DEF a, b
    <3> QED BY ONLY <3>1, ConcatProperties
  <2>3. Len(a) = i - 1 /\ Len(b) = n - i /\ Len(a) + Len(b) = n - 1
    <3> HIDE DEF n
    <3>1. Len(a) = i - 1
      BY <1>2 DEF a
    <3>2. Len(b) = n - i
      BY <1>3 DEF b
    <3> QED BY <1>1, <3>1, <3>2
  <2>4. ASSUME NEW j \in 1..(n - 1) PROVE r[j] = IF j < i THEN q[j] ELSE q[j + 1]
    <3> HIDE DEF n
    <3>1. CASE j < i
      <4>1. j \in 1..(i - 1)
        BY <1>1, <3>1
      <4> QED BY <1>2, <2>1, <2>2, <2>3, <3>1, <4>1 DEF a
    <3>2. CASE ~(j < i)
      <4>1. j - (i - 1) \in 1..(n - i) /\ j - (i - 1) + i = j + 1 /\ ~(j <= i - 1)
        BY <1>1, <3>2
      <4> QED BY <1>3, <2>1, <2>2, <2>3, <3>2, <4>1 DEF b
    <3> QED BY <3>1, <3>2
  <2> QED BY <2>1, <2>2, <2>3, <2>4
<1>5. DOMAIN r = 1..(n - 1)
  BY <1>1, <1>4
<1> HIDE DEF r, n
<1>6. Range(r) = Range(q) \ {q[i]}
  <2>1. ASSUME NEW j \in 1..(n - 1) PROVE r[j] \in Range(q) /\ r[j] # q[i]
    <3>1. j \in DOMAIN q /\ j + 1 \in DOMAIN q /\ i \in DOMAIN q /\ i \in Nat
      BY <1>1
    <3> QED BY <1>4, <3>1 DEF Range
  <2>2. ASSUME NEW k \in 1..n, k # i PROVE q[k] \in Range(r)
    <3>1. CASE k < i
      <4>1. k \in 1..(n - 1) /\ r[k] = q[k]
        BY <1>1, <1>4, <3>1
      <4> QED BY <1>5, <4>1 DEF Range
    <3>2. CASE k > i
      <4>1. k - 1 \in 1..(n - 1) /\ r[k - 1] = q[k]
        BY <1>1, <1>4, <3>2
      <4> QED BY <1>5, <4>1 DEF Range
    <3> QED BY <1>1, <2>2, <3>1, <3>2
  <2>3. Range(r) \subseteq Range(q) \ {q[i]}
    BY <1>5, <2>1 DEF Range
  <2>4. Range(q) \ {q[i]} \subseteq Range(r)
    BY <1>1, <2>2 DEF Range
  <2> QED BY <2>3, <2>4
<1>7. ASSUME NEW j \in DOMAIN r, NEW k \in DOMAIN r, r[j] = r[k] PROVE j = k
  <2>1. /\ j \in DOMAIN q /\ j + 1 \in DOMAIN q /\ k \in DOMAIN q /\ k + 1 \in DOMAIN q
        /\ j \in 1..(n - 1) /\ k \in 1..(n - 1)
    BY <1>1, <1>5
  <2> QED BY <1>1, <1>4, <1>7, <2>1
<1> QED BY <1>4, <1>6, <1>7 DEF r, n

\* closeStream() of one the session holds.
LEMMA StreamClosed ==
  ASSUME setting \in Settings, NEW S, Fine(S), NEW s \in Range(S.streams)
  PROVE  /\ Fine(closeStream(S, s)) /\ Range(closeStream(S, s).streams) = Range(S.streams) \ {s}
         /\ Len(closeStream(S, s).streams) = Len(S.streams) - 1
<1> DEFINE task == [op |-> "release", stream |-> s]
           R == OnExchange(S, task)
           i == CHOOSE i \in DOMAIN R.streams : R.streams[i] = s
           q == RemoveAt(R.streams, i)
           ids == R.stream_ids \ {s}
           C == [R EXCEPT !.streams = q, !.stream_ids = ids]
<1>1. S \in GoodStates /\ s \in Streams
  BY StateIs DEF Fine
<1>2. R \in GoodStates /\ BooksAlike(S, R)
  <2>1. task \in Writes \cup Ends
    BY <1>1 DEF Ends
  <2> QED BY <1>1, <2>1, Reached
<1> HIDE DEF R
<1>3. Fine(R) /\ R \in ServerStates /\ Sound(R) /\ R.streams = S.streams
  BY <1>2, StillFine DEF Fine, GoodStates, BooksAlike
<1>4. R.streams \in Seq(Streams) /\ DOMAIN R.streams = 1..Len(R.streams)
  BY <1>2, StateIs
<1>5. i \in 1..Len(R.streams) /\ R.streams[i] = s
  BY <1>3, <1>4 DEF Range
<1>6. \A j, k \in DOMAIN R.streams : R.streams[j] = R.streams[k] => j = k
  BY <1>3 DEF Sound, Books, Placed
<1> HIDE DEF i
<1>7. /\ q \in Seq(Streams) /\ Len(q) = Len(R.streams) - 1 /\ Range(q) = Range(R.streams) \ {s}
      /\ \A j, k \in DOMAIN q : q[j] = q[k] => j = k
  BY <1>4, <1>5, <1>6, RemovedAt
<1> HIDE DEF q
<1>8. C \in GoodStates
  <2>1. ids \in SUBSET Streams
    BY <1>3 DEF ServerStates
  <2> HIDE DEF ids
  <2>2. C \in ServerStates
    BY <1>3, <1>7, <2>1 DEF ServerStates
  <2>3. C.pending = R.pending /\ C.ex = R.ex
    BY <1>3 DEF ServerStates
  <2> HIDE DEF C
  <2> QED BY <1>2, <2>2, <2>3 DEF GoodStates
<1>9. /\ C.streams = q /\ C.stream_ids = ids /\ C.ctx = R.ctx /\ C.pending = R.pending
      /\ C.queue = R.queue /\ C.conn = R.conn /\ C.ex = R.ex
  BY <1>3 DEF ServerStates
<1> HIDE DEF C
<1>10. Lessens(R, C)
  <2>1. NoneOpened(R, C)
    BY <1>9 DEF NoneOpened
  <2>2. Alone(C)
    BY <1>3, <1>9 DEF Sound, Alone
  <2>3. \A t \in R.stream_ids : t \in C.stream_ids \/ (t \in Range(R.streams) /\ t \notin Range(C.streams))
    BY <1>3, <1>7, <1>9
  <2>4. \A t \in Range(C.streams) : /\ live(C, t) => live(R, t)
                                    /\ C.ctx[t].producing => R.ctx[t].producing
    BY <1>9 DEF live
  <2> QED BY <1>7, <1>9, <2>1, <2>2, <2>3, <2>4 DEF Lessens
<1>11. Fine(C)
  BY <1>3, <1>8, <1>10, StillSound
<1>12. closeStream(S, s) = C
  BY DEF closeStream, C, R, i, q
<1> QED BY <1>3, <1>7, <1>9, <1>11, <1>12

\* flushPending() does to the books what each of its writes does: nothing.
LEMMA Flushed ==
  ASSUME setting \in Settings, NEW S \in GoodStates, NEW s \in Streams, NEW ms \in Seq(Messages)
  PROVE  flushPending(S, s, ms) \in GoodStates /\ BooksAlike(S, flushPending(S, s, ms))
<1> DEFINE N == Len(ms)
           T[n \in 0..N] == IF n = 0 THEN S ELSE writeToStream(T[n - 1], s, ms[n])
           A == {U \in GoodStates : BooksAlike(S, U)}
           G == [n \in 0..N |-> A]
           g == [p \in (1..N) \X GoodStates |-> writeToStream(p[2], s, ms[p[1]])]
<1>1. flushPending(S, s, ms) = T[N]
  BY DEF flushPending
<1>2. N \in Nat /\ \A n \in 1..N : ms[n] \in Messages
  OBVIOUS
<1>3. S \in A
  BY Alike
<1>4. \A n \in 1..N : \A U \in A : writeToStream(U, s, ms[n]) \in A
  <2> SUFFICES ASSUME NEW n \in 1..N, NEW U \in A PROVE writeToStream(U, s, ms[n]) \in A
    OBVIOUS
  <2>1. writeToStream(U, s, ms[n]) \in GoodStates /\ BooksAlike(U, writeToStream(U, s, ms[n]))
    BY <1>2, Written
  <2> QED BY <2>1, Alike
<1>5. \A n \in 1..N : \A U \in A : g[<<n, U>>] = writeToStream(U, s, ms[n])
  OBVIOUS
<1> HIDE DEF A
<1>6. PICK f \in [0..N -> GoodStates] :
        /\ f[0] = S /\ \A n \in 1..N : f[n] = g[<<n, f[n - 1]>>]
        /\ \A n \in 0..N : f[n] \in G[n]
  <2>1. A \subseteq GoodStates
    BY DEF A
  <2> HIDE DEF N, g, T
  <2>2. S \in G[0] /\ \A n \in 0..N : G[n] \subseteq GoodStates
    BY <1>2, <1>3, <2>1
  <2>3. \A n \in 1..N : \A U \in G[n - 1] : g[<<n, U>>] \in G[n]
    <3>1. \A n \in 1..N : G[n - 1] = A /\ G[n] = A
      BY <1>2
    <3> HIDE DEF G
    <3> QED BY <1>4, <1>5, <3>1
  <2> HIDE DEF G
  <2>4. GoodSteps(N, GoodStates, G, g, S)
    BY <1>2, <2>2, <2>3 DEF GoodSteps
  <2> QED BY <2>4, StepByStep
<1>7. \A n \in 0..N : f[n] \in A
  <2> HIDE DEF N, g, T
  <2> QED BY <1>6
<1>8. f = [n \in 0..N |-> IF n = 0 THEN S ELSE writeToStream(f[n - 1], s, ms[n])]
  <2> HIDE DEF N, g, G
  <2>1. \A n \in 0..N : n # 0 => n \in 1..N /\ n - 1 \in 0..N
    BY <1>2
  <2>2. \A n \in 0..N : n # 0 => f[n] = writeToStream(f[n - 1], s, ms[n])
    BY <1>5, <1>6, <1>7, <2>1
  <2> QED BY <1>2, <1>6, <2>2
<1>9. T = [n \in 0..N |-> IF n = 0 THEN S ELSE writeToStream(T[n - 1], s, ms[n])]
  <2> HIDE DEF N
  <2> QED BY <1>8
<1>10. \A n \in 0..N : T[n] \in G[n]
  <2> HIDE DEF N, g, T
  <2>1. \A n \in 0..N : n # 0 => n \in 1..N /\ n - 1 \in 0..N
    BY <1>2
  <2>2. T[0] = S /\ \A n \in 1..N : T[n] = writeToStream(T[n - 1], s, ms[n])
    BY <1>2, <1>9
  <2>3. \A n \in 1..N : T[n - 1] \in G[n - 1] => T[n] \in G[n]
    BY <1>2, <1>4, <2>2
  <2>4. T[0] \in G[0]
    BY <1>2, <1>3, <2>2
  <2> HIDE DEF G
  <2> QED BY <1>2, <2>3, <2>4, StaysGood
<1>11. T[N] \in A
  <2> HIDE DEF N, g, T
  <2> QED BY <1>2, <1>10
<1> QED BY <1>1, <1>11 DEF A

\* What a step does to what is missed and who follows.
LEMMA Replayed ==
  ASSUME setting \in Settings, NEW S \in GoodStates, NEW s \in Streams, NEW ms \in Seq(Events)
  PROVE  replayMissed(S, s, ms) \in GoodStates /\ BooksAlike(S, replayMissed(S, s, ms))
<1> DEFINE N == Len(ms)
           T[n \in 0..N] == IF n = 0 THEN S ELSE writeEvent(T[n - 1], s, ms[n])
           A == {U \in GoodStates : BooksAlike(S, U)}
           G == [n \in 0..N |-> A]
           g == [p \in (1..N) \X GoodStates |-> writeEvent(p[2], s, ms[p[1]])]
<1>1. replayMissed(S, s, ms) = T[N]
  BY DEF replayMissed
<1>2. N \in Nat /\ \A n \in 1..N : ms[n] \in Events
  OBVIOUS
<1>3. S \in A
  BY Alike
<1>4. \A n \in 1..N : \A U \in A : writeEvent(U, s, ms[n]) \in A
  <2> SUFFICES ASSUME NEW n \in 1..N, NEW U \in A PROVE writeEvent(U, s, ms[n]) \in A
    OBVIOUS
  <2>1. writeEvent(U, s, ms[n]) \in GoodStates /\ BooksAlike(U, writeEvent(U, s, ms[n]))
    BY <1>2, EventWritten
  <2> QED BY <2>1, Alike
<1>5. \A n \in 1..N : \A U \in A : g[<<n, U>>] = writeEvent(U, s, ms[n])
  OBVIOUS
<1> HIDE DEF A
<1>6. PICK f \in [0..N -> GoodStates] :
        /\ f[0] = S /\ \A n \in 1..N : f[n] = g[<<n, f[n - 1]>>]
        /\ \A n \in 0..N : f[n] \in G[n]
  <2>1. A \subseteq GoodStates
    BY DEF A
  <2> HIDE DEF N, g, T
  <2>2. S \in G[0] /\ \A n \in 0..N : G[n] \subseteq GoodStates
    BY <1>2, <1>3, <2>1
  <2>3. \A n \in 1..N : \A U \in G[n - 1] : g[<<n, U>>] \in G[n]
    <3>1. \A n \in 1..N : G[n - 1] = A /\ G[n] = A
      BY <1>2
    <3> HIDE DEF G
    <3> QED BY <1>4, <1>5, <3>1
  <2> HIDE DEF G
  <2>4. GoodSteps(N, GoodStates, G, g, S)
    BY <1>2, <2>2, <2>3 DEF GoodSteps
  <2> QED BY <2>4, StepByStep
<1>7. \A n \in 0..N : f[n] \in A
  <2> HIDE DEF N, g, T
  <2> QED BY <1>6
<1>8. f = [n \in 0..N |-> IF n = 0 THEN S ELSE writeEvent(f[n - 1], s, ms[n])]
  <2> HIDE DEF N, g, G
  <2>1. \A n \in 0..N : n # 0 => n \in 1..N /\ n - 1 \in 0..N
    BY <1>2
  <2>2. \A n \in 0..N : n # 0 => f[n] = writeEvent(f[n - 1], s, ms[n])
    BY <1>5, <1>6, <1>7, <2>1
  <2> QED BY <1>2, <1>6, <2>2
<1>9. T = [n \in 0..N |-> IF n = 0 THEN S ELSE writeEvent(T[n - 1], s, ms[n])]
  <2> HIDE DEF N
  <2> QED BY <1>8
<1>10. \A n \in 0..N : T[n] \in G[n]
  <2> HIDE DEF N, g, T
  <2>1. \A n \in 0..N : n # 0 => n \in 1..N /\ n - 1 \in 0..N
    BY <1>2
  <2>2. T[0] = S /\ \A n \in 1..N : T[n] = writeEvent(T[n - 1], s, ms[n])
    BY <1>2, <1>9
  <2>3. \A n \in 1..N : T[n - 1] \in G[n - 1] => T[n] \in G[n]
    BY <1>2, <1>4, <2>2
  <2>4. T[0] \in G[0]
    BY <1>2, <1>3, <2>2
  <2> HIDE DEF G
  <2> QED BY <1>2, <2>3, <2>4, StaysGood
<1>11. T[N] \in A
  <2> HIDE DEF N, g, T
  <2> QED BY <1>2, <1>10
<1> QED BY <1>1, <1>11 DEF A

\* openStream(), of one that is about to be and that there is room for.
LEMMA StreamOpened ==
  ASSUME setting \in Settings, NEW S, Fine(S), NEW s, Coming(S, s), s \in S.stream_ids, Room(S, s)
  PROVE  Fine(openStream(S, s))
<1> DEFINE q == Append(S.streams, s)
           c == [S.ctx EXCEPT ![s] = NewCtx]
           p == IF kind(s) = "Get" THEN <<>> ELSE S.pending
           P == [S EXCEPT !.streams = q, !.ctx = c, !.pending = p]
<1>1. S \in GoodStates /\ S \in ServerStates /\ Sound(S) /\ Books(S) /\ s \in Streams
      /\ s \notin Range(S.streams)
  BY DEF Fine, GoodStates, Sound, Coming, NotOpening
<1>2. openStream(S, s) = IF kind(s) = "Get" THEN flushPending(P, s, S.pending) ELSE P
  <2> DEFINE O == [S EXCEPT !.streams = Append(@, s), !.ctx[s] = NewCtx]
  <2>1. openStream(S, s) = IF kind(s) = "Get" THEN flushPending([O EXCEPT !.pending = <<>>], s, S.pending)
                                              ELSE O
    BY DEF openStream
  <2>2. O = [S EXCEPT !.streams = q, !.ctx = c]
    OBVIOUS
  <2>3. [O EXCEPT !.pending = <<>>] = [S EXCEPT !.streams = q, !.ctx = c, !.pending = <<>>]
    <3> HIDE DEF q, c, O
    <3> QED BY <1>1, <2>2 DEF ServerStates
  <2>4. [S EXCEPT !.streams = q, !.ctx = c] = [S EXCEPT !.streams = q, !.ctx = c, !.pending = S.pending]
    <3> HIDE DEF q, c
    <3> QED BY <1>1 DEF ServerStates
  <2> HIDE DEF q, c, O
  <2> QED BY <2>1, <2>2, <2>3, <2>4
<1>3. /\ S.streams \in Seq(Streams) /\ S.pending \in Seq(Messages) /\ Len(S.pending) <= PendingLimit
      /\ S.ctx \in [Streams -> StreamCtx] /\ Len(S.streams) \in Nat
      /\ DOMAIN S.streams = 1..Len(S.streams)
  BY <1>1 DEF GoodStates, ServerStates
<1>4. /\ q \in Seq(Streams) /\ DOMAIN q = 1..(Len(S.streams) + 1)
      /\ \A i \in 1..(Len(S.streams) + 1) : q[i] = IF i <= Len(S.streams) THEN S.streams[i] ELSE s
  BY <1>1, <1>3
<1>5. Range(q) = Range(S.streams) \cup {s}
  <2> HIDE DEF q
  <2>1. \A i \in 1..Len(S.streams) : i \in DOMAIN q /\ q[i] = S.streams[i]
    BY <1>3, <1>4
  <2>2. Len(S.streams) + 1 \in DOMAIN q /\ q[Len(S.streams) + 1] = s
    BY <1>3, <1>4
  <2>3. \A i \in DOMAIN q : q[i] = s \/ (i \in DOMAIN S.streams /\ q[i] = S.streams[i])
    BY <1>3, <1>4
  <2> QED BY <1>3, <2>1, <2>2, <2>3 DEF Range
<1>6. \A i, j \in DOMAIN q : q[i] = q[j] => i = j
  <2> SUFFICES ASSUME NEW i \in DOMAIN q, NEW j \in DOMAIN q, q[i] = q[j] PROVE i = j
    OBVIOUS
  <2>1. \A k \in DOMAIN q : IF k <= Len(S.streams) THEN k \in DOMAIN S.streams /\ q[k] = S.streams[k]
                                                    ELSE k = Len(S.streams) + 1 /\ q[k] = s
    BY <1>3, <1>4
  <2>2. \A k \in DOMAIN S.streams : S.streams[k] # s
    BY <1>1 DEF Range
  <2>3. \A k, m \in DOMAIN S.streams : S.streams[k] = S.streams[m] => k = m
    BY <1>1 DEF Books, Placed
  <2> HIDE DEF q
  <2> QED BY <2>1, <2>2, <2>3
<1>7. c \in [Streams -> StreamCtx] /\ \A t \in Streams : c[t] = IF t = s THEN NewCtx ELSE S.ctx[t]
  BY <1>1, <1>3 DEF NewCtx, StreamCtx
<1>8. p \in Seq(Messages) /\ Len(p) <= PendingLimit
  BY <1>3, SettingIs
<1> HIDE DEF q, c
<1>9. P \in GoodStates
  <2> HIDE DEF p
  <2>1. P \in ServerStates
    BY <1>1, <1>4, <1>7, <1>8 DEF ServerStates
  <2>2. P.pending = p /\ P.ex = S.ex
    BY <1>1 DEF ServerStates
  <2> HIDE DEF P
  <2> QED BY <1>1, <1>8, <2>1, <2>2 DEF GoodStates
<1>10. /\ P.streams = q /\ P.stream_ids = S.stream_ids /\ P.ctx = c /\ P.pending = p
       /\ P.queue = S.queue /\ P.conn = S.conn /\ P.ex = S.ex
  <2> HIDE DEF p
  <2> QED BY <1>1 DEF ServerStates
<1> HIDE DEF P
<1>11. Books(P)
  <2>1. OpenedOnce(P)
    BY <1>1, <1>10 DEF Books, OpenedOnce
  <2>2. Reserved(P)
    BY <1>1, <1>5, <1>10 DEF Books, Reserved
  <2>3. ASSUME NEW d \in Dispatchers, NEW i \in 1..Len(S.queue[d]), Opens(S.queue[d][i])
        PROVE  S.queue[d][i].stream \notin Range(q) /\ S.conn[S.queue[d][i].stream] # "unborn"
    BY <1>1, <1>5, <2>3 DEF Books, Placed, Coming, NotOpening
  <2>4. \A t \in Range(q) : S.conn[t] # "unborn"
    BY <1>1, <1>5 DEF Books, Placed, Coming
  <2>5. Placed(P)
    BY <1>6, <1>10, <2>3, <2>4 DEF Placed
  <2> QED BY <2>1, <2>2, <2>5 DEF Books
<1>12. NoneWaits(P)
  <2>1. CASE kind(s) = "Get"
    BY <1>10, <2>1 DEF NoneWaits
  <2>2. CASE kind(s) # "Get"
    <3>1. P.pending = S.pending
      BY <1>10, <2>2
    <3>2. \A t \in Range(q) : kind(t) = "Get" => t \in Range(S.streams) /\ c[t] = S.ctx[t]
      <4>1. Range(S.streams) \subseteq Streams
        BY <1>1, StateIs
      <4> QED BY <1>5, <1>7, <2>2, <4>1
    <3> QED BY <1>1, <1>10, <3>1, <3>2 DEF Sound, NoneWaits, live
  <2> QED BY <2>1, <2>2
<1>13. Alone(P)
  BY <1>1, <1>10 DEF Sound, Alone
<1>14. Few(P)
  <2>1. openGets(S) \in Nat /\ openGets(P) \in Nat /\ MaxGetStreams \in Nat /\ Few(S)
    BY <1>1, <1>9, Counted, SettingIs DEF Sound
  <2>2. \A t \in Range(q) : t # s => t \in Range(S.streams) /\ c[t] = S.ctx[t]
    <3>1. Range(S.streams) \subseteq Streams
      BY <1>1, StateIs
    <3> QED BY <1>5, <1>7, <3>1
  <2>3. OpenGets(P) \subseteq OpenGets(S) \cup {s}
    BY <1>10, <2>2 DEF OpenGets
  <2>4. CASE kind(s) = "Get"
    <3>1. openGets(P) <= openGets(S) + 1
      BY <1>1, <1>9, <2>3, Counted
    <3> QED BY <2>1, <2>4, <3>1 DEF Few, Room
  <2>5. CASE kind(s) # "Get"
    <3>1. OpenGets(P) \subseteq OpenGets(S)
      BY <2>3, <2>5 DEF OpenGets
    <3>2. openGets(P) <= openGets(S)
      BY <1>1, <1>9, <3>1, Counted
    <3> QED BY <2>1, <3>2 DEF Few
  <2> QED BY <2>4, <2>5
<1>15. Fine(P)
  BY <1>9, <1>11, <1>12, <1>13, <1>14 DEF Fine, Sound
<1>16. Fine(flushPending(P, s, S.pending))
  <2>1. flushPending(P, s, S.pending) \in GoodStates /\ BooksAlike(P, flushPending(P, s, S.pending))
    BY <1>1, <1>3, <1>9, Flushed
  <2> QED BY <1>15, <2>1, StillFine
<1> QED BY <1>2, <1>15, <1>16

\* Changing what the session notes of one stream it holds, for good.
LEMMA NotedOfStream ==
  ASSUME setting \in Settings, NEW S, Fine(S), NEW s \in Streams, NEW x \in StreamCtx,
         x.conn /\ x.producing => live(S, s), x.producing => S.ctx[s].producing
  PROVE  Fine([S EXCEPT !.ctx = [S.ctx EXCEPT ![s] = x]])
<1> DEFINE c == [S.ctx EXCEPT ![s] = x]
           T == [S EXCEPT !.ctx = c]
<1>1. S \in GoodStates /\ S \in ServerStates /\ Sound(S) /\ Books(S)
  BY DEF Fine, GoodStates, Sound
<1>2. c \in [Streams -> StreamCtx] /\ \A t \in Streams : c[t] = IF t = s THEN x ELSE S.ctx[t]
  BY <1>1 DEF ServerStates
<1> HIDE DEF c
<1>3. T \in ServerStates
  BY <1>1, <1>2 DEF ServerStates
<1>4. /\ T.streams = S.streams /\ T.stream_ids = S.stream_ids /\ T.ctx = c /\ T.pending = S.pending
      /\ T.queue = S.queue /\ T.conn = S.conn /\ T.ex = S.ex
  BY <1>1 DEF ServerStates
<1> HIDE DEF T
<1>5. T \in GoodStates
  BY <1>1, <1>3, <1>4 DEF GoodStates
<1>6. Lessens(S, T)
  <2>1. NoneOpened(S, T)
    BY <1>4 DEF NoneOpened
  <2>2. Alone(T)
    BY <1>1, <1>4 DEF Sound, Alone
  <2>3. Range(S.streams) \subseteq Streams
    BY <1>1, StateIs
  <2>4. \A t \in Range(T.streams) : /\ live(T, t) => live(S, t)
                                    /\ T.ctx[t].producing => S.ctx[t].producing
    BY <1>2, <1>4, <2>3 DEF live
  <2>5. \A i, j \in DOMAIN S.streams : S.streams[i] = S.streams[j] => i = j
    BY <1>1 DEF Books, Placed
  <2> QED BY <1>4, <2>1, <2>2, <2>4, <2>5 DEF Lessens
<1>7. Fine(T)
  BY <1>5, <1>6, StillSound
<1> QED BY <1>7 DEF T, c

LEMMA VisitMade ==
  ASSUME setting \in Settings, NEW S, Fine(S), NEW op \in {"attach", "detach", "finish"}, NEW s \in Streams,
         op = "attach" => Coming(S, s) /\ s \in S.stream_ids /\ Room(S, s)
  PROVE  Fine(RunVisit(S, op, s))
<1> DEFINE x == S.ctx[s]
<1>1. S \in ServerStates
  BY DEF Fine, GoodStates
<1>2. x \in StreamCtx /\ S.ctx \in [Streams -> StreamCtx]
  BY <1>1 DEF ServerStates
<1>3. Fine(detachConnection(S, s))
  <2> DEFINE y == [x EXCEPT !.conn = FALSE]
             T == [S EXCEPT !.ctx = [S.ctx EXCEPT ![s] = y]]
  <2>1. y \in StreamCtx /\ ~y.conn /\ y.producing = x.producing
    BY <1>2 DEF StreamCtx
  <2>2. Fine(T)
    <3> HIDE DEF y
    <3> QED BY <2>1, NotedOfStream
  <2>3. detachConnection(S, s) = IF Contains(S.streams, s) THEN T ELSE S
    <3>1. CASE Contains(S.streams, s)
      BY <3>1 DEF detachConnection
    <3>2. CASE ~Contains(S.streams, s)
      <4>1. [S EXCEPT !.ctx[s].conn = S.ctx[s].conn] = S
        <5>1. [x EXCEPT !.conn = S.ctx[s].conn] = x
          BY <1>2 DEF StreamCtx
        <5>2. [S.ctx EXCEPT ![s].conn = S.ctx[s].conn] = S.ctx
          BY <1>2, <5>1
        <5> QED BY <1>1, <5>2 DEF ServerStates
      <4> QED BY <3>2, <4>1 DEF detachConnection
    <3> QED BY <3>1, <3>2
  <2> QED BY <2>2, <2>3
<1>4. Fine(finishStream(S, s))
  <2> DEFINE y == [conn |-> FALSE, producing |-> FALSE, retiring |-> FALSE]
  <2>1. y \in StreamCtx /\ ~y.conn /\ ~y.producing
    BY DEF StreamCtx
  <2>2. Fine([S EXCEPT !.ctx = [S.ctx EXCEPT ![s] = y]])
    <3> HIDE DEF y
    <3> QED BY <2>1, NotedOfStream
  <2>3. finishStream(S, s) \in {S, [S EXCEPT !.ctx = [S.ctx EXCEPT ![s] = y]]}
    BY DEF finishStream
  <2> HIDE DEF y
  <2> QED BY <2>2, <2>3
<1>5. op = "attach" => Fine(openStream(S, s))
  BY StreamOpened
<1> QED BY <1>3, <1>4, <1>5 DEF RunVisit

\* withSessionOnOwner()
LEMMA VisitAsked ==
  ASSUME setting \in Settings, NEW S, Fine(S), NEW op \in {"attach", "detach", "finish"}, NEW s \in Streams,
         NEW d, ByItself => d = Owner,
         op = "attach" => Coming(S, s) /\ s \in S.stream_ids /\ Room(S, s)
  PROVE  Fine(withSessionOnOwner(S, d, op, s))
<1> DEFINE task == [op |-> op, stream |-> s]
<1>1. CASE ~S.known
  BY <1>1 DEF withSessionOnOwner
<1>2. CASE S.known /\ d = Owner
  <2>1. Fine(RunVisit(S, op, s))
    BY VisitMade
  <2> QED BY <1>2, <2>1 DEF withSessionOnOwner
<1>3. CASE S.known /\ d # Owner
  <2>1. task \in Tasks /\ task.stream = s /\ task.op = op /\ Owner \in Dispatchers
    BY SettingIs DEF Tasks, Visits
  <2>2. Opens(task) => op = "attach"
    BY <2>1 DEF Opens
  <2>3. Fine(Post(S, Owner, task))
    <3> HIDE DEF task
    <3> QED BY <1>3, <2>1, <2>2, PostedSound
  <2> QED BY <1>3, <2>3 DEF withSessionOnOwner
<1> QED BY <1>1, <1>2, <1>3

-----------------------------------------------------------------------------
(* The filter's operations.                                                *)

\* Changing one exchange, but not the dispatcher it is on.
LEMMA ExchangeNoted ==
  ASSUME setting \in Settings, NEW S, Fine(S), NEW s \in Streams, NEW x \in Exchange,
         Len(x.replay) <= ReplayLimit, x.disp = S.ex[s].disp
  PROVE  LET T == [S EXCEPT !.ex = [S.ex EXCEPT ![s] = x]] IN T \in GoodStates /\ BooksAlike(S, T)
<1> DEFINE T == [S EXCEPT !.ex = [S.ex EXCEPT ![s] = x]]
           V == [S EXCEPT !.ex = [S.ex EXCEPT ![s] = x], !.wire = [S.wire EXCEPT ![s] = S.wire[s]]]
<1>1. S \in GoodStates /\ S \in ServerStates
  BY DEF Fine, GoodStates
<1>2. S.wire \in [Streams -> Seq(Events)] /\ S.wire[s] \in Seq(Events)
  BY <1>1 DEF ServerStates
<1>3. [S.wire EXCEPT ![s] = S.wire[s]] = S.wire
  BY <1>2
<1>4. V = T
  <2> DEFINE y == [S.ex EXCEPT ![s] = x]
  <2> HIDE DEF y
  <2> QED BY <1>1, <1>3 DEF ServerStates
<1>5. V \in GoodStates /\ BooksAlike(S, V)
  BY <1>1, <1>2, Exchanged
<1> QED BY <1>4, <1>5

\* What is kept of an exchange after a cursor is a sequence of events.
LEMMA MissedIs ==
  ASSUME NEW S \in GoodStates, NEW source \in Streams, NEW last
  PROVE  Missed(S, source, last) \in Seq(Events)
<1> DEFINE kept == S.ex[source].replay
           seen == {i \in DOMAIN kept : kept[i].id = last}
           k == (CHOOSE i \in seen : TRUE) + 1
<1>1. kept \in Seq(Events) /\ DOMAIN kept = 1..Len(kept) /\ Len(kept) \in Nat
  <2>1. kept \in Seq(Events)
    BY DEF GoodStates, ServerStates, Exchange
  <2> HIDE DEF kept
  <2> QED BY <2>1
<1> HIDE DEF kept
<1>2. CASE seen = {}
  BY <1>2 DEF Missed, kept
<1>3. CASE seen # {}
  <2>1. k - 1 \in 1..Len(kept) /\ k \in Int /\ Len(kept) \in Int
    BY <1>1, <1>3
  <2> HIDE DEF k
  <2>2. \A i \in k..Len(kept) : kept[i] \in Events
    BY <1>1, <2>1
  <2>3. SubSeq(kept, k, Len(kept)) \in Seq(Events)
    BY <2>1, <2>2, SubSeqProperties
  <2> QED BY <1>3, <2>3 DEF Missed, kept, k
<1> QED BY <1>2, <1>3

LEMMA FollowedBy ==
  ASSUME setting \in Settings, NEW S, Fine(S), NEW source \in Streams, NEW s \in Streams
  PROVE  Follow(S, source, s) \in GoodStates /\ BooksAlike(S, Follow(S, source, s))
<1> DEFINE x == [S.ex[source] EXCEPT !.follower = s]
<1>1. S \in GoodStates /\ S.ex[source] \in Exchange /\ Len(S.ex[source].replay) <= ReplayLimit
  BY DEF Fine, GoodStates, ServerStates
<1>2. x \in Exchange /\ x.replay = S.ex[source].replay /\ x.disp = S.ex[source].disp
  BY <1>1 DEF Exchange
<1>3. Follow(S, source, s) \in {S, [S EXCEPT !.ex = [S.ex EXCEPT ![source] = x]]}
  BY DEF Follow
<1> DEFINE T == [S EXCEPT !.ex = [S.ex EXCEPT ![source] = x]]
<1>4. T \in GoodStates /\ BooksAlike(S, T)
  <2> HIDE DEF x
  <2> QED BY <1>1, <1>2, ExchangeNoted
<1>5. BooksAlike(S, S)
  BY <1>1, Alike
<1> HIDE DEF T
<1> QED BY <1>1, <1>3, <1>4, <1>5 DEF T

\* A stream whose id is its own, that there is room for and that is about to
\* be opened by whoever holds the state now.
Named(S, s) == Fine(S) /\ Coming(S, s) /\ s \in S.stream_ids /\ Room(S, s)

LEMMA StillNamed ==
  ASSUME NEW S, NEW s, Named(S, s), NEW T \in GoodStates, BooksAlike(S, T)
  PROVE  Named(T, s)
BY StillFine DEF Named

LEMMA Delivered ==
  ASSUME setting \in Settings, NEW S, NEW s, Named(S, s), NEW missed \in Seq(Events)
  PROVE  Fine(deliver(S, s, missed))
<1> DEFINE R == replayMissed(S, s, missed)
<1>1. S \in GoodStates /\ s \in Streams /\ Alone(S)
  BY DEF Named, Fine, Sound, Coming
<1>2. R \in GoodStates /\ BooksAlike(S, R)
  BY <1>1, Replayed
<1> HIDE DEF R
<1>3. Named(R, s)
  BY <1>2, StillNamed
<1>4. ByItself => S.ex[s].disp = Owner
  BY <1>1 DEF Alone
<1>5. Fine(withSessionOnOwner(R, S.ex[s].disp, "attach", s))
  BY <1>1, <1>3, <1>4, VisitAsked DEF Named
<1> QED BY <1>5 DEF deliver, R

LEMMA Registered ==
  ASSUME setting \in Settings, NEW S, NEW s, Named(S, s), NEW source \in Streams \cup {None},
         NEW last \in Ids
  PROVE  Fine(replayThenRegister(S, s, source, last))
<1> DEFINE d == S.ex[s].disp
<1>1. S \in GoodStates /\ s \in Streams /\ Alone(S) /\ Fine(S)
  BY DEF Named, Fine, Sound, Coming
<1>2. ByItself => d = Owner
  BY <1>1 DEF Alone
<1>3. CASE source = None
  <2>1. Fine(withSessionOnOwner(S, d, "attach", s))
    BY <1>1, <1>2, VisitAsked DEF Named
  <2> QED BY <1>3, <2>1 DEF replayThenRegister
<1>4. CASE source # None /\ S.ex[source].disp = d
  <2>1. source \in Streams
    BY <1>4
  <2> DEFINE F == Follow(S, source, s)
  <2>2. Named(F, s)
    BY <1>1, <2>1, FollowedBy, StillNamed
  <2>3. Missed(S, source, last) \in Seq(Events)
    BY <1>1, <2>1, MissedIs
  <2>4. Fine(deliver(F, s, Missed(S, source, last)))
    <3> HIDE DEF F
    <3> QED BY <2>2, <2>3, Delivered
  <2> QED BY <1>4, <2>4 DEF replayThenRegister
<1>5. CASE source # None /\ S.ex[source].disp # d
  <2> DEFINE task == [op |-> "collect", stream |-> s, source |-> source, cursor |-> last]
  <2>1. source \in Streams /\ S.ex[source].disp \in Dispatchers
    BY <1>1, <1>5, StateIs
  <2>2. ~ByItself
    BY <1>1, <1>5, <2>1 DEF Alone
  <2>3. task \in Tasks /\ task.stream = s
    BY <1>1, <2>1 DEF Tasks, Collections
  <2>4. Fine(Post(S, S.ex[source].disp, task))
    <3> HIDE DEF task
    <3> QED BY <1>1, <2>1, <2>2, <2>3, PostedSound DEF Named
  <2> QED BY <1>5, <2>4 DEF replayThenRegister
<1> QED BY <1>3, <1>4, <1>5

\* The answer to a GET: the exchange is over.
LEMMA AnsweredOff ==
  ASSUME setting \in Settings, NEW S, Fine(S), NEW s \in Streams, NEW mode \in {"Stream", "Complete"}
  PROVE  LET T == [S EXCEPT !.ex[s].mode = mode] IN
         T \in GoodStates /\ BooksAlike(S, T)
<1> DEFINE x == [S.ex[s] EXCEPT !.mode = mode]
           T == [S EXCEPT !.ex = [S.ex EXCEPT ![s] = x]]
<1>1. S.ex[s] \in Exchange /\ Len(S.ex[s].replay) <= ReplayLimit
  BY DEF Fine, GoodStates, ServerStates
<1>2. x \in Exchange /\ x.replay = S.ex[s].replay /\ x.disp = S.ex[s].disp
  BY <1>1 DEF Exchange
<1>3. T \in GoodStates /\ BooksAlike(S, T)
  <2> HIDE DEF x
  <2> QED BY <1>1, <1>2, ExchangeNoted
<1> QED BY <1>3

\* nameThisStream()
LEMMA StreamNamed ==
  ASSUME setting \in Settings, NEW S, Fine(S), NEW s, Coming(S, s), Room(S, s)
  PROVE  Named([S EXCEPT !.stream_ids = S.stream_ids \cup {s}], s)
<1> DEFINE ids == S.stream_ids \cup {s}
           T == [S EXCEPT !.stream_ids = ids]
<1>1. S \in GoodStates /\ S \in ServerStates /\ Sound(S) /\ Books(S) /\ s \in Streams
  BY DEF Fine, GoodStates, Sound, Coming
<1>2. ids \in SUBSET Streams
  BY <1>1 DEF ServerStates
<1> HIDE DEF ids
<1>3. T \in ServerStates
  BY <1>1, <1>2 DEF ServerStates
<1>4. /\ T.streams = S.streams /\ T.stream_ids = ids /\ T.ctx = S.ctx /\ T.pending = S.pending
      /\ T.queue = S.queue /\ T.conn = S.conn /\ T.ex = S.ex
  BY <1>1 DEF ServerStates
<1> HIDE DEF T
<1>5. T \in GoodStates
  BY <1>1, <1>3, <1>4 DEF GoodStates
<1>6. openGets(T) = openGets(S)
  BY <1>4 DEF openGets
<1>7. Reserved(T)
  BY <1>1, <1>4 DEF Books, Reserved, ids
<1>8. OpenedOnce(T) /\ Placed(T)
  BY <1>1, <1>4 DEF Books, OpenedOnce, Placed
<1>9. NoneWaits(T) /\ Alone(T) /\ Few(T)
  <2>1. NoneWaits(T)
    BY <1>1, <1>4 DEF Sound, NoneWaits, live
  <2>2. Alone(T) /\ Few(T)
    BY <1>1, <1>4, <1>6 DEF Sound, Alone, Few
  <2> QED BY <2>1, <2>2
<1>10. Coming(T, s) /\ Room(T, s) /\ s \in T.stream_ids
  BY <1>4, <1>6 DEF Coming, Room, NotOpening, ids
<1>11. Named(T, s)
  BY <1>5, <1>7, <1>8, <1>9, <1>10 DEF Named, Fine, Sound, Books
<1> QED BY <1>11 DEF T, ids

\* openEventStream(), on a count that is right while the session is by itself.
LEMMA EventStreamOpened ==
  ASSUME setting \in Settings, NEW S, Fine(S), NEW s, Coming(S, s), NEW gets \in Nat,
         ByItself => gets = openGets(S), NEW source \in Streams \cup {None}, NEW last \in Ids
  PROVE  Fine(openEventStream(S, s, gets, source, last))
<1>1. s \in Streams /\ S \in ServerStates
  BY DEF Coming, Fine, GoodStates
<1>2. CASE gets >= MaxGetStreams
  <2>1. Fine([S EXCEPT !.ex[s].mode = "Complete"])
    BY <1>1, AnsweredOff, StillFine
  <2> QED BY <1>2, <2>1 DEF openEventStream
<1>3. CASE ~(gets >= MaxGetStreams)
  <2> DEFINE N == [S EXCEPT !.stream_ids = S.stream_ids \cup {s}]
             T == [N EXCEPT !.ex[s].mode = "Stream"]
  <2>1. MaxGetStreams \in Nat
    BY SettingIs
  <2>2. Room(S, s)
    BY <1>3, <2>1 DEF Room
  <2>3. Named(N, s)
    BY <2>2, StreamNamed
  <2>4. Named(T, s)
    <3> HIDE DEF N
    <3>1. Fine(N)
      BY <2>3 DEF Named
    <3>2. T \in GoodStates /\ BooksAlike(N, T)
      BY <1>1, <3>1, AnsweredOff
    <3> QED BY <2>3, <3>2, StillNamed
  <2>5. T = [S EXCEPT !.stream_ids = @ \cup {s}, !.ex[s].mode = "Stream"]
    BY <1>1 DEF ServerStates
  <2>6. Fine(replayThenRegister(T, s, source, last))
    <3> HIDE DEF T, N
    <3> QED BY <2>4, Registered
  <2> HIDE DEF T, N
  <2> QED BY <1>3, <2>5, <2>6 DEF openEventStream
<1> QED BY <1>2, <1>3

LEMMA Resumed ==
  ASSUME setting \in Settings, NEW S, Fine(S), NEW s, Coming(S, s), NEW found, NEW gets \in Nat,
         ByItself /\ found => gets = openGets(S), NEW source \in Streams \cup {None}, NEW last \in Ids
  PROVE  Fine(resumeAfterValidation(S, s, found, gets, source, last))
<1>1. CASE found
  BY <1>1, EventStreamOpened DEF resumeAfterValidation
<1>2. CASE ~found
  <2>1. s \in Streams
    BY DEF Coming
  <2>2. Fine([S EXCEPT !.ex[s].mode = "Complete"])
    BY <2>1, AnsweredOff, StillFine
  <2> QED BY <1>2, <2>2 DEF resumeAfterValidation
<1> QED BY <1>1, <1>2

LEMMA ResumedFrom ==
  ASSUME NEW S \in GoodStates, NEW last
  PROVE  resumeFrom(S, last) \in Streams \cup {None}
BY StateIs, SameElements DEF resumeFrom

LEMMA Judged ==
  ASSUME setting \in Settings, NEW S, Fine(S), NEW s, Coming(S, s), NEW last \in Ids, ~ByItself
  PROVE  Fine(judge(S, s, last))
<1> DEFINE src == IF S.known THEN resumeFrom(S, last) ELSE None
           task == [op |-> "judged", stream |-> s, found |-> S.known, gets |-> openGets(S),
                    source |-> src, cursor |-> last]
<1>1. S \in GoodStates /\ s \in Streams /\ S.known \in BOOLEAN
  BY DEF Fine, Coming, GoodStates, ServerStates
<1>2. openGets(S) \in Nat /\ src \in Streams \cup {None}
  BY <1>1, Counted, ResumedFrom
<1>3. task \in Tasks /\ task.stream = s /\ task.op = "judged"
  <2> HIDE DEF src
  <2> QED BY <1>1, <1>2 DEF Tasks, Verdicts
<1>4. S.ex[s].disp \in Dispatchers
  BY <1>1, StateIs
<1>5. Fine(Post(S, S.ex[s].disp, task))
  <2> HIDE DEF task
  <2> QED BY <1>3, <1>4, PostedSound
<1> QED BY <1>5 DEF judge

-----------------------------------------------------------------------------
(* Running what was posted.                                                *)

\* The first closure leaves its queue: what it was going to open is nobody
\* else's to open.
LEMMA Taken ==
  ASSUME setting \in Settings, NEW S, Fine(S), NEW d \in Dispatchers, S.queue[d] # <<>>
  PROVE  LET h == Head(S.queue[d])
             P == [S EXCEPT !.queue = [S.queue EXCEPT ![d] = Tail(S.queue[d])]]
         IN /\ Fine(P) /\ h \in Tasks
            /\ Opens(h) => Coming(P, h.stream)
            /\ h.op \in {"collect", "deliver", "attach"} => h.stream \in P.stream_ids
            /\ ~OfBytes(h) => ~ByItself
<1> DEFINE h == Head(S.queue[d])
           q == [S.queue EXCEPT ![d] = Tail(S.queue[d])]
           P == [S EXCEPT !.queue = q]
<1>1. S \in GoodStates /\ S \in ServerStates /\ Sound(S) /\ Books(S)
  BY DEF Fine, GoodStates, Sound
<1>2. \A e \in Dispatchers : S.queue[e] \in Seq(Tasks) /\ Len(S.queue[e]) \in Nat
  BY <1>1, StateIs
<1>3. /\ h \in Tasks /\ h = S.queue[d][1] /\ 1 \in 1..Len(S.queue[d]) /\ h.stream \in Streams
      /\ Tail(S.queue[d]) \in Seq(Tasks) /\ Len(Tail(S.queue[d])) = Len(S.queue[d]) - 1
      /\ \A i \in 1..Len(Tail(S.queue[d])) : Tail(S.queue[d])[i] = S.queue[d][i + 1]
  <2>1. h \in Tasks /\ h = S.queue[d][1] /\ 1 \in 1..Len(S.queue[d])
    BY <1>2
  <2>2. h.stream \in Streams
    BY <1>1, <2>1, StateIs
  <2>3. S.queue[d] \in Seq(Tasks)
    BY <1>2
  <2> HIDE DEF h
  <2>4. /\ Tail(S.queue[d]) \in Seq(Tasks) /\ Len(Tail(S.queue[d])) = Len(S.queue[d]) - 1
        /\ \A i \in 1..Len(Tail(S.queue[d])) : Tail(S.queue[d])[i] = S.queue[d][i + 1]
    BY <2>3, HeadTailProperties
  <2> QED BY <2>1, <2>2, <2>4
<1>4. /\ q \in [Dispatchers -> Seq(Tasks)]
      /\ \A e \in Dispatchers : q[e] = IF e = d THEN Tail(S.queue[d]) ELSE S.queue[e]
  BY <1>1, <1>3 DEF ServerStates
<1> DEFINE At(e, i) == IF e = d THEN i + 1 ELSE i
<1>5. ASSUME NEW e \in Dispatchers, NEW i \in 1..Len(q[e])
      PROVE  /\ At(e, i) \in 1..Len(S.queue[e]) /\ q[e][i] = S.queue[e][At(e, i)]
             /\ i \in Nat /\ (e = d => At(e, i) # 1)
  <2>1. CASE e = d
    <3>1. i \in 1..Len(Tail(S.queue[d])) /\ q[e] = Tail(S.queue[d])
      BY <1>4, <2>1
    <3>2. i + 1 \in 1..Len(S.queue[d]) /\ i + 1 # 1 /\ i \in Nat
      BY <1>2, <1>3, <3>1
    <3> HIDE DEF q
    <3> QED BY <1>3, <2>1, <3>1, <3>2
  <2>2. CASE e # d
    <3>1. q[e] = S.queue[e]
      BY <1>4, <2>2
    <3> HIDE DEF q
    <3> QED BY <2>2, <3>1
  <2> QED BY <2>1, <2>2
<1> HIDE DEF q, h
<1>6. P \in ServerStates
  BY <1>1, <1>4 DEF ServerStates
<1>7. /\ P.queue = q /\ P.streams = S.streams /\ P.ctx = S.ctx /\ P.pending = S.pending
      /\ P.stream_ids = S.stream_ids /\ P.conn = S.conn /\ P.ex = S.ex
  BY <1>1 DEF ServerStates
<1> HIDE DEF P
<1>8. P \in GoodStates
  BY <1>1, <1>6, <1>7 DEF GoodStates
<1>9. OpenedOnce(P)
  <2> SUFFICES ASSUME NEW e1 \in Dispatchers, NEW e2 \in Dispatchers,
                      NEW i \in 1..Len(q[e1]), NEW j \in 1..Len(q[e2]),
                      Opens(q[e1][i]), Opens(q[e2][j]), q[e1][i].stream = q[e2][j].stream
               PROVE  e1 = e2 /\ i = j
    BY <1>7 DEF OpenedOnce
  <2>1. At(e1, i) \in 1..Len(S.queue[e1]) /\ q[e1][i] = S.queue[e1][At(e1, i)] /\ i \in Nat
    BY <1>5
  <2>2. At(e2, j) \in 1..Len(S.queue[e2]) /\ q[e2][j] = S.queue[e2][At(e2, j)] /\ j \in Nat
    BY <1>5
  <2>3. e1 = e2 /\ At(e1, i) = At(e2, j)
    <3> DEFINE k == At(e1, i)
               m == At(e2, j)
    <3>1. /\ k \in 1..Len(S.queue[e1]) /\ m \in 1..Len(S.queue[e2])
          /\ Opens(S.queue[e1][k]) /\ Opens(S.queue[e2][m])
          /\ S.queue[e1][k].stream = S.queue[e2][m].stream
      BY <2>1, <2>2
    <3>2. OpenedOnce(S)
      BY <1>1 DEF Books
    <3> HIDE DEF k, m, At
    <3>3. e1 = e2 /\ k = m
      BY ONLY <3>1, <3>2, e1 \in Dispatchers, e2 \in Dispatchers DEF OpenedOnce
    <3> QED BY <3>3 DEF k, m
  <2> QED BY <2>1, <2>2, <2>3
<1>10. ASSUME NEW e \in Dispatchers, NEW i \in 1..Len(q[e])
       PROVE  \E k \in 1..Len(S.queue[e]) : q[e][i] = S.queue[e][k] /\ (e = d => k # 1)
  BY <1>5
<1> HIDE DEF At
<1>11. Reserved(P)
  BY <1>1, <1>7, <1>10 DEF Books, Reserved
<1>12. Placed(P)
  <2>1. ASSUME NEW e \in Dispatchers, NEW i \in 1..Len(q[e]), Opens(q[e][i])
        PROVE  q[e][i].stream \notin Range(S.streams) /\ S.conn[q[e][i].stream] # "unborn"
    BY <1>1, <1>10, <2>1 DEF Books, Placed
  <2>2. /\ \A i, j \in DOMAIN S.streams : S.streams[i] = S.streams[j] => i = j
        /\ \A s \in Range(S.streams) : S.conn[s] # "unborn"
    BY <1>1 DEF Books, Placed
  <2> QED BY <1>7, <2>1, <2>2 DEF Placed
<1>13. NoneWaits(P) /\ Alone(P) /\ Few(P)
  <2>1. openGets(P) = openGets(S)
    BY <1>7 DEF openGets
  <2>2. NoneWaits(P)
    BY <1>1, <1>7 DEF Sound, NoneWaits, live
  <2>3. Alone(P)
    <3>1. ASSUME ByItself, NEW e \in Dispatchers, NEW i \in 1..Len(q[e]) PROVE OfBytes(q[e][i])
      BY <1>1, <1>10, <3>1 DEF Sound, Alone
    <3> QED BY <1>1, <1>7, <3>1 DEF Sound, Alone
  <2>4. Few(P)
    BY <1>1, <2>1 DEF Sound, Few
  <2> QED BY <2>2, <2>3, <2>4
<1>14. Fine(P)
  BY <1>8, <1>9, <1>11, <1>12, <1>13 DEF Fine, Sound, Books
<1>15. ASSUME Opens(h) PROVE Coming(P, h.stream)
  <2>1. h.stream \notin Range(S.streams) /\ S.conn[h.stream] # "unborn"
    BY <1>1, <1>3, <1>15 DEF Books, Placed
  <2>2. ASSUME NEW e \in Dispatchers, NEW i \in 1..Len(q[e]), Opens(q[e][i]), q[e][i].stream = h.stream
        PROVE  FALSE
    <3>1. PICK k \in 1..Len(S.queue[e]) : q[e][i] = S.queue[e][k] /\ (e = d => k # 1)
      BY <1>10
    <3> QED BY <1>1, <1>3, <1>15, <2>2, <3>1 DEF Books, OpenedOnce
  <2> QED BY <1>3, <1>7, <2>1, <2>2 DEF Coming, NotOpening
<1>16. h.op \in {"collect", "deliver", "attach"} => h.stream \in P.stream_ids
  BY <1>1, <1>3, <1>7 DEF Books, Reserved
<1>17. ~OfBytes(h) => ~ByItself
  BY <1>1, <1>3 DEF Sound, Alone
<1> QED BY <1>3, <1>14, <1>15, <1>16, <1>17 DEF P, q, h

LEMMA TaskRan ==
  ASSUME setting \in Settings, NEW S, Fine(S), NEW d \in Dispatchers, NEW task \in Tasks,
         Opens(task) => Coming(S, task.stream),
         task.op \in {"collect", "deliver", "attach"} => task.stream \in S.stream_ids,
         ~OfBytes(task) => ~ByItself
  PROVE  Fine(RunTask(S, d, task))
<1> DEFINE s == task.stream
<1>1. S \in GoodStates
  BY DEF Fine
<1>2. CASE task \in Visits
  <2>1. task.op \in {"attach", "detach", "finish"} /\ s \in Streams /\ ~OfBytes(task)
        /\ (task.op = "attach" => Opens(task))
    BY <1>2 DEF Visits, OfBytes, Opens
  <2>2. ~ByItself
    BY <2>1
  <2>3. Fine(RunVisit(S, task.op, s))
    BY <2>1, <2>2, VisitMade DEF Room
  <2> QED BY <2>1, <2>3 DEF RunTask
<1>3. CASE task \in Writes \cup Ends
  <2>1. Fine(RunOnExchange(S, task))
    BY <1>1, <1>3, ExchangeRan, StillFine
  <2>2. task.op \in {"write", "forward", "release", "end"}
    BY <1>3 DEF Writes, Ends
  <2> QED BY <2>1, <2>2 DEF RunTask
<1>4. CASE task \in Judgements
  <2>1. task.op = "judge" /\ task.cursor \in Ids /\ Opens(task) /\ ~OfBytes(task)
    BY <1>4 DEF Judgements, Opens, OfBytes
  <2>2. Fine(judge(S, s, task.cursor))
    BY <2>1, Judged
  <2> QED BY <2>1, <2>2 DEF RunTask
<1>5. CASE task \in Verdicts
  <2>1. /\ task.op = "judged" /\ task.cursor \in Ids /\ task.gets \in Nat
        /\ task.source \in Streams \cup {None} /\ Opens(task) /\ ~OfBytes(task)
    BY <1>5 DEF Verdicts, Opens, OfBytes
  <2>2. Fine(resumeAfterValidation(S, s, task.found, task.gets, task.source, task.cursor))
    BY <2>1, Resumed
  <2> QED BY <2>1, <2>2 DEF RunTask
<1>6. CASE task \in Collections
  <2> DEFINE F == Follow(S, task.source, s)
             missed == Missed(S, task.source, task.cursor)
             next == [op |-> "deliver", stream |-> s, missed |-> missed]
  <2>1. /\ task.op = "collect" /\ task.source \in Streams /\ s \in Streams
        /\ Opens(task) /\ ~OfBytes(task)
    BY <1>6 DEF Collections, Opens, OfBytes
  <2>2. Named(S, s)
    BY <2>1 DEF Named, Room
  <2>3. Named(F, s)
    BY <2>1, <2>2, FollowedBy, StillNamed
  <2>4. missed \in Seq(Events)
    BY <1>1, <2>1, MissedIs
  <2>5. next \in Tasks /\ next.stream = s
    <3> HIDE DEF missed
    <3> QED BY <2>1, <2>4 DEF Tasks, Deliveries
  <2>6. S.ex[s].disp \in Dispatchers /\ ~ByItself
    BY <1>1, <2>1, StateIs
  <2> HIDE DEF F, next
  <2>7. Fine(Post(F, S.ex[s].disp, next))
    BY <2>3, <2>5, <2>6, PostedSound DEF Named
  <2> QED BY <2>1, <2>7 DEF RunTask, F, next
<1>7. CASE task \in Deliveries
  <2>1. /\ task.op = "deliver" /\ task.missed \in Seq(Events) /\ Opens(task) /\ ~OfBytes(task)
    BY <1>7 DEF Deliveries, Opens, OfBytes
  <2>2. Named(S, s)
    BY <2>1 DEF Named, Room
  <2>3. Fine(deliver(S, s, task.missed))
    BY <2>1, <2>2, Delivered
  <2> QED BY <2>1, <2>3 DEF RunTask
<1> QED BY <1>2, <1>3, <1>4, <1>5, <1>6, <1>7 DEF Tasks

-----------------------------------------------------------------------------
(* Every step keeps the books.                                             *)

\* removeOwned()
LEMMA AllRemoved ==
  ASSUME setting \in Settings, NEW S, Fine(S)
  PROVE  Fine(removeOwned(S))
<1> DEFINE N == Len(S.streams)
           K == [S EXCEPT !.known = FALSE]
           Body(U) == closeStream(U, Last(U.streams))
           T[n \in 0..N] == IF n = 0 THEN [S EXCEPT !.known = FALSE]
                                     ELSE closeStream(T[n - 1], Last(T[n - 1].streams))
           A(n) == {U \in GoodStates : Sound(U) /\ Len(U.streams) = N - n}
           G == [n \in 0..N |-> A(n)]
           g == [p \in (1..N) \X GoodStates |-> Body(p[2])]
<1>1. removeOwned(S) = T[N]
  BY DEF removeOwned
<1>2. S \in GoodStates /\ S \in ServerStates /\ Sound(S) /\ N \in Nat
  BY StateIs DEF Fine, GoodStates
<1>3. K \in A(0)
  <2>1. K \in ServerStates
    BY <1>2 DEF ServerStates
  <2>2. /\ K.queue = S.queue /\ K.streams = S.streams /\ K.ctx = S.ctx /\ K.pending = S.pending
        /\ K.stream_ids = S.stream_ids /\ K.conn = S.conn /\ K.ex = S.ex
    BY <1>2 DEF ServerStates
  <2> HIDE DEF K
  <2>3. K \in GoodStates
    BY <1>2, <2>1, <2>2 DEF GoodStates
  <2>4. openGets(K) = openGets(S)
    BY <2>2 DEF openGets
  <2>5. OpenedOnce(K) /\ Reserved(K) /\ Placed(K)
    BY <1>2, <2>2 DEF Sound, Books, OpenedOnce, Reserved, Placed
  <2>6. NoneWaits(K)
    BY <1>2, <2>2 DEF Sound, NoneWaits, live
  <2>7. Alone(K) /\ Few(K)
    BY <1>2, <2>2, <2>4 DEF Sound, Alone, Few
  <2>8. Len(K.streams) = N - 0
    BY <1>2, <2>2
  <2> QED BY <2>3, <2>5, <2>6, <2>7, <2>8 DEF Sound, Books
<1>4. ASSUME NEW n \in 1..N, NEW U \in A(n - 1) PROVE Body(U) \in A(n)
  <2>1. U \in GoodStates /\ Fine(U) /\ Len(U.streams) = N - (n - 1) /\ Len(U.streams) # 0
    BY <1>2 DEF Fine
  <2>2. DOMAIN U.streams = 1..Len(U.streams) /\ Len(U.streams) \in Nat
    BY <2>1, StateIs
  <2>3. Last(U.streams) \in Range(U.streams)
    BY <2>1, <2>2 DEF Last, Range
  <2>4. Fine(Body(U)) /\ Len(Body(U).streams) = Len(U.streams) - 1
    BY <2>1, <2>3, StreamClosed
  <2> HIDE DEF Body
  <2>5. Len(Body(U).streams) = N - n
    BY <1>2, <2>1, <2>4
  <2> QED BY <2>4, <2>5 DEF Fine
<1>5. \A n \in 1..N : \A U \in GoodStates : g[<<n, U>>] = Body(U)
  OBVIOUS
<1>6. \A n \in 0..N : G[n] = A(n) /\ A(n) \subseteq GoodStates
  OBVIOUS
<1>7. \A n \in 0..N : n # 0 => n \in 1..N /\ n - 1 \in 0..N
  BY <1>2
<1>8. 0 \in 0..N /\ N \in 0..N /\ \A n \in 1..N : n \in 0..N /\ n - 1 \in 0..N /\ n # 0
  BY <1>2
<1> HIDE DEF A, G, g, N, K
<1>9. PICK f \in [0..N -> GoodStates] :
        /\ f[0] = K /\ \A n \in 1..N : f[n] = g[<<n, f[n - 1]>>]
        /\ \A n \in 0..N : f[n] \in G[n]
  <2> HIDE DEF T, Body
  <2>1. \A n \in 1..N : \A U \in G[n - 1] : g[<<n, U>>] \in G[n]
    <3> SUFFICES ASSUME NEW n \in 1..N, NEW U \in G[n - 1] PROVE g[<<n, U>>] \in G[n]
      OBVIOUS
    <3>1. n \in 0..N /\ n - 1 \in 0..N
      BY <1>8
    <3>2. U \in A(n - 1) /\ U \in GoodStates /\ G[n] = A(n)
      BY <1>6, <3>1
    <3>3. Body(U) \in A(n) /\ g[<<n, U>>] = Body(U)
      BY <1>4, <1>5, <3>2
    <3> QED BY ONLY <3>2, <3>3
  <2>2. GoodSteps(N, GoodStates, G, g, K)
    BY <1>2, <1>3, <1>6, <1>8, <2>1 DEF GoodSteps
  <2> QED BY <2>2, StepByStep
<1>10. f = [n \in 0..N |-> IF n = 0 THEN [S EXCEPT !.known = FALSE]
                                    ELSE closeStream(f[n - 1], Last(f[n - 1].streams))]
  <2>1. \A n \in 0..N : n # 0 => f[n] = Body(f[n - 1])
    <3> HIDE DEF T, Body
    <3> QED BY <1>5, <1>7, <1>9
  <2> QED BY <1>8, <1>9, <2>1 DEF K
<1>11. T = [n \in 0..N |-> IF n = 0 THEN [S EXCEPT !.known = FALSE]
                                    ELSE closeStream(T[n - 1], Last(T[n - 1].streams))]
  BY <1>10
<1>12. T[0] = K /\ \A n \in 1..N : T[n] = Body(T[n - 1])
  <2> HIDE DEF T
  <2> QED BY <1>8, <1>11 DEF K
<1>13. \A n \in 0..N : T[n] \in G[n]
  <2> HIDE DEF T, Body
  <2>1. \A n \in 1..N : T[n - 1] \in G[n - 1] => T[n] \in G[n]
    BY <1>4, <1>6, <1>8, <1>12
  <2>2. T[0] \in G[0]
    BY <1>3, <1>6, <1>8, <1>12
  <2> QED BY <1>2, <2>1, <2>2, StaysGood
<1>14. T[N] \in A(N)
  <2> HIDE DEF T, Body
  <2> QED BY <1>6, <1>8, <1>13
<1>15. T[N] \in GoodStates /\ Sound(T[N])
  <2> HIDE DEF T, Body
  <2> QED BY <1>14 DEF A
<1> HIDE DEF T
<1> QED BY <1>1, <1>15 DEF Fine, N

\* Streams closed one by one, of those that are held.
LEMMA DueClosed ==
  ASSUME setting \in Settings, NEW S, Fine(S), NEW ss \in Seq(Streams), NEW due,
         \A i, j \in 1..Len(ss) : ss[i] = ss[j] => i = j,
         \A i \in 1..Len(ss) : ss[i] \in Range(S.streams)
  PROVE  Fine(closeDue(S, ss, due))
<1> DEFINE N == Len(ss)
           Body(n, U) == IF ss[n] \in due THEN closeStream(U, ss[n]) ELSE U
           T[n \in 0..N] ==
             IF n = 0 THEN S ELSE IF ss[n] \in due THEN closeStream(T[n - 1], ss[n]) ELSE T[n - 1]
           A(n) == {U \in GoodStates : Sound(U) /\ \A i \in (n + 1)..N : ss[i] \in Range(U.streams)}
           G == [n \in 0..N |-> A(n)]
           g == [p \in (1..N) \X GoodStates |-> Body(p[1], p[2])]
<1>1. closeDue(S, ss, due) = T[N]
  BY DEF closeDue
<1>2. S \in GoodStates /\ Sound(S) /\ N \in Nat
  BY DEF Fine
<1>3. S \in A(0)
  BY <1>2
<1>4. ASSUME NEW n \in 1..N, NEW U \in A(n - 1) PROVE Body(n, U) \in A(n)
  <2>1. U \in GoodStates /\ Fine(U) /\ \A i \in n..N : ss[i] \in Range(U.streams)
    BY <1>2 DEF Fine
  <2>2. n \in n..N /\ \A i \in (n + 1)..N : i \in n..N /\ i # n /\ i \in 1..N
    BY <1>2
  <2>3. CASE ss[n] \in due
    <3> DEFINE C == closeStream(U, ss[n])
    <3>1. ss[n] \in Range(U.streams)
      BY <2>1, <2>2
    <3>2. Fine(C) /\ Range(C.streams) = Range(U.streams) \ {ss[n]}
      BY <2>1, <3>1, StreamClosed
    <3>3. Body(n, U) = C
      BY <2>3
    <3> HIDE DEF C, Body
    <3>4. \A i \in (n + 1)..N : ss[i] \in Range(C.streams)
      BY <2>1, <2>2, <3>2
    <3> QED BY <3>2, <3>3, <3>4 DEF Fine
  <2>4. CASE ss[n] \notin due
    <3>1. Body(n, U) = U
      BY <2>4
    <3> HIDE DEF Body
    <3> QED BY <2>1, <2>2, <3>1 DEF Fine
  <2> QED BY <2>3, <2>4
<1>5. \A n \in 1..N : \A U \in GoodStates : g[<<n, U>>] = Body(n, U)
  OBVIOUS
<1>6. \A n \in 0..N : G[n] = A(n) /\ A(n) \subseteq GoodStates
  OBVIOUS
<1>7. \A n \in 0..N : n # 0 => n \in 1..N /\ n - 1 \in 0..N
  BY <1>2
<1>8. 0 \in 0..N /\ N \in 0..N /\ \A n \in 1..N : n \in 0..N /\ n - 1 \in 0..N /\ n # 0
  BY <1>2
<1> HIDE DEF A, G, g, N
<1>9. PICK f \in [0..N -> GoodStates] :
        /\ f[0] = S /\ \A n \in 1..N : f[n] = g[<<n, f[n - 1]>>]
        /\ \A n \in 0..N : f[n] \in G[n]
  <2> HIDE DEF T, Body
  <2>1. \A n \in 1..N : \A U \in G[n - 1] : g[<<n, U>>] \in G[n]
    <3> SUFFICES ASSUME NEW n \in 1..N, NEW U \in G[n - 1] PROVE g[<<n, U>>] \in G[n]
      OBVIOUS
    <3>1. n \in 0..N /\ n - 1 \in 0..N
      BY <1>8
    <3>2. U \in A(n - 1) /\ U \in GoodStates /\ G[n] = A(n)
      BY <1>6, <3>1
    <3>3. Body(n, U) \in A(n) /\ g[<<n, U>>] = Body(n, U)
      BY <1>4, <1>5, <3>2
    <3> QED BY ONLY <3>2, <3>3
  <2>2. GoodSteps(N, GoodStates, G, g, S)
    BY <1>2, <1>3, <1>6, <1>8, <2>1 DEF GoodSteps
  <2> QED BY <2>2, StepByStep
<1>10. f = [n \in 0..N |->
              IF n = 0 THEN S ELSE IF ss[n] \in due THEN closeStream(f[n - 1], ss[n]) ELSE f[n - 1]]
  <2>1. \A n \in 0..N : n # 0 => f[n] = Body(n, f[n - 1])
    <3> HIDE DEF T, Body
    <3> QED BY <1>5, <1>7, <1>9
  <2> QED BY <1>8, <1>9, <2>1
<1>11. T = [n \in 0..N |->
              IF n = 0 THEN S ELSE IF ss[n] \in due THEN closeStream(T[n - 1], ss[n]) ELSE T[n - 1]]
  BY <1>10
<1>12. T[0] = S /\ \A n \in 1..N : T[n] = Body(n, T[n - 1])
  <2> HIDE DEF T
  <2> QED BY <1>8, <1>11
<1>13. \A n \in 0..N : T[n] \in G[n]
  <2> HIDE DEF T, Body
  <2>1. \A n \in 1..N : T[n - 1] \in G[n - 1] => T[n] \in G[n]
    BY <1>4, <1>6, <1>8, <1>12
  <2>2. T[0] \in G[0]
    BY <1>3, <1>6, <1>8, <1>12
  <2> QED BY <1>2, <2>1, <2>2, StaysGood
<1>14. T[N] \in A(N)
  <2> HIDE DEF T, Body
  <2> QED BY <1>6, <1>8, <1>13
<1>15. T[N] \in GoodStates /\ Sound(T[N])
  <2> HIDE DEF T, Body
  <2> QED BY <1>14 DEF A
<1> HIDE DEF T
<1> QED BY <1>1, <1>15 DEF Fine, N

\* The server's state, the settings it is under and what the client has read.
SessionInv ==
  /\ setting \in Settings
  /\ Fine(Now)
  /\ at \in Streams \cup {None} /\ cursor \in Ids /\ received \in Seq(Messages) /\ noted \in 0..Notes

\* The next state of the server is one whose books are in order.
Kept == setting' = setting /\ \E T : Fine(T) /\ Now' = T

LEMMA NowIs ==
  /\ Now.known = known /\ Now.streams = streams /\ Now.ctx = ctx /\ Now.pending = pending
  /\ Now.stream_ids = stream_ids /\ Now.ex = ex /\ Now.conn = conn /\ Now.wire = wire
  /\ Now.queue = queue
BY DEF Now

LEMMA Became ==
  ASSUME NEW T, Fine(T), Become(T)
  PROVE  Kept
<1>1. T \in ServerStates
  BY DEF Fine, GoodStates
<1>2. T = [known |-> T.known, streams |-> T.streams, ctx |-> T.ctx, pending |-> T.pending,
           stream_ids |-> T.stream_ids, ex |-> T.ex, conn |-> T.conn, wire |-> T.wire, queue |-> T.queue]
  BY <1>1 DEF ServerStates
<1>3. Now' = T /\ setting' = setting
  BY <1>2 DEF Become, Now
<1> QED BY <1>3 DEF Kept

LEMMA KeptFine ==
  ASSUME setting \in Settings, Kept
  PROVE  Fine(Now)'
<1> PICK T : Fine(T) /\ Now' = T
  BY DEF Kept
<1>1. /\ T \in GoodStates /\ Sound(T) /\ Books(T) /\ setting' = setting
  BY DEF Kept, Fine, Sound
<1>2. AnswerEvents' = AnswerEvents /\ Notes' = Notes /\ ReplayLimit' = ReplayLimit /\ ByItself' = ByItself
  BY <1>1 DEF AnswerEvents, Notes, ReplayLimit, ByItself
<1>3. Messages' = Messages
  BY <1>2 DEF Messages
<1>4. Events' = Events
  BY <1>3 DEF Events
<1>5. Tasks' = Tasks /\ Exchange' = Exchange
  BY <1>4 DEF Tasks, Writes, Deliveries, Exchange
<1>6. ServerStates' = ServerStates
  BY <1>3, <1>4, <1>5 DEF ServerStates
<1>7. GoodStates' = GoodStates
  BY <1>2, <1>6 DEF GoodStates
<1>8. OpenedOnce(Now)'
  BY <1>1 DEF Books, OpenedOnce
<1>9. Reserved(Now)'
  BY <1>1 DEF Books, Reserved
<1>10. Placed(Now)'
  BY <1>1 DEF Books, Placed
<1>11. NoneWaits(Now)'
  BY <1>1 DEF Sound, NoneWaits, live
<1>12. Alone(Now)'
  BY <1>1, <1>2 DEF Sound, Alone
<1>13. Few(Now)'
  BY <1>1, <1>2 DEF Sound, Few, openGets
<1> QED BY <1>1, <1>7, <1>8, <1>9, <1>10, <1>11, <1>12, <1>13 DEF Fine, Sound, Books

\* A new connection, and the exchange behind it.
LEMMA Arrived ==
  ASSUME setting \in Settings, NEW S, Fine(S), NEW s \in Streams, S.conn[s] = "unborn",
         NEW x \in Exchange, Len(x.replay) <= ReplayLimit, ByItself => x.disp = Owner
  PROVE  LET T == [S EXCEPT !.conn = [S.conn EXCEPT ![s] = "up"], !.ex = [S.ex EXCEPT ![s] = x]]
         IN Fine(T) /\ Coming(T, s) /\ openGets(T) = openGets(S)
<1> DEFINE c == [S.conn EXCEPT ![s] = "up"]
           y == [S.ex EXCEPT ![s] = x]
           T == [S EXCEPT !.conn = c, !.ex = y]
<1>1. S \in GoodStates /\ S \in ServerStates /\ Sound(S) /\ Books(S)
  BY DEF Fine, GoodStates, Sound
<1>2. /\ c \in [Streams -> Conns] /\ y \in [Streams -> Exchange]
      /\ \A t \in Streams : y[t] = IF t = s THEN x ELSE S.ex[t]
      /\ \A t \in Streams : c[t] = IF t = s THEN "up" ELSE S.conn[t]
  BY <1>1 DEF ServerStates, Conns
<1> HIDE DEF c, y
<1>3. T \in ServerStates
  BY <1>1, <1>2 DEF ServerStates
<1>4. /\ T.streams = S.streams /\ T.stream_ids = S.stream_ids /\ T.ctx = S.ctx
      /\ T.pending = S.pending /\ T.queue = S.queue /\ T.conn = c /\ T.ex = y
  BY <1>1 DEF ServerStates
<1> HIDE DEF T
<1>5. T \in GoodStates
  BY <1>1, <1>2, <1>3, <1>4 DEF GoodStates
<1>6. openGets(T) = openGets(S)
  BY <1>4 DEF openGets
<1>7. OpenedOnce(T) /\ Reserved(T)
  BY <1>1, <1>4 DEF Books, OpenedOnce, Reserved
<1>8. \A t \in Streams : S.conn[t] # "unborn" => c[t] # "unborn"
  BY <1>2
<1>9. Range(S.streams) \subseteq Streams
  BY <1>1, StateIs
<1>10. Placed(T)
  <2>1. ASSUME NEW d \in Dispatchers, NEW i \in 1..Len(S.queue[d]), Opens(S.queue[d][i])
        PROVE  S.queue[d][i].stream \notin Range(S.streams) /\ c[S.queue[d][i].stream] # "unborn"
    <3>1. S.queue[d][i].stream \in Streams
      BY <1>1, StateIs
    <3> QED BY <1>1, <1>8, <2>1, <3>1 DEF Books, Placed
  <2>2. \A t \in Range(S.streams) : c[t] # "unborn"
    BY <1>1, <1>8, <1>9 DEF Books, Placed
  <2>3. \A i, j \in DOMAIN S.streams : S.streams[i] = S.streams[j] => i = j
    BY <1>1 DEF Books, Placed
  <2> QED BY <1>4, <2>1, <2>2, <2>3 DEF Placed
<1>11. NoneWaits(T)
  BY <1>1, <1>4 DEF Sound, NoneWaits, live
<1>12. Alone(T)
  <2>1. ByItself => \A t \in Streams : y[t].disp = Owner
    BY <1>1, <1>2 DEF Sound, Alone
  <2> QED BY <1>1, <1>4, <2>1 DEF Sound, Alone
<1>13. Few(T)
  BY <1>1, <1>6 DEF Sound, Few
<1>14. Coming(T, s)
  <2>1. s \notin Range(S.streams)
    BY <1>1 DEF Books, Placed
  <2>2. ASSUME NEW d \in Dispatchers, NEW i \in 1..Len(S.queue[d]), Opens(S.queue[d][i])
        PROVE  S.queue[d][i].stream # s
    BY <1>1, <2>2 DEF Books, Placed
  <2>3. c[s] # "unborn"
    BY <1>2
  <2> QED BY <1>4, <2>1, <2>2, <2>3 DEF Coming, NotOpening
<1>15. Fine(T)
  BY <1>5, <1>7, <1>10, <1>11, <1>12, <1>13 DEF Fine, Sound, Books
<1> QED BY <1>6, <1>14, <1>15 DEF T, c, y

\* A connection that goes, or whose client does: what is under way on it, and
\* what its exchange thinks of it.
LEMMA Gone ==
  ASSUME setting \in Settings, NEW S, Fine(S), NEW s \in Streams, NEW how \in {"left", "gone", "down"},
         NEW w \in Seq(Events), NEW x \in Exchange, Len(x.replay) <= ReplayLimit, x.disp = S.ex[s].disp
  PROVE  Fine([S EXCEPT !.conn = [S.conn EXCEPT ![s] = how], !.wire = [S.wire EXCEPT ![s] = w],
                        !.ex = [S.ex EXCEPT ![s] = x]])
<1> DEFINE c == [S.conn EXCEPT ![s] = how]
           v == [S.wire EXCEPT ![s] = w]
           y == [S.ex EXCEPT ![s] = x]
           T == [S EXCEPT !.conn = c, !.wire = v, !.ex = y]
<1>1. S \in GoodStates /\ S \in ServerStates /\ Sound(S) /\ Books(S)
  BY DEF Fine, GoodStates, Sound
<1>2. /\ c \in [Streams -> Conns] /\ y \in [Streams -> Exchange] /\ v \in [Streams -> Seq(Events)]
      /\ \A t \in Streams : y[t] = IF t = s THEN x ELSE S.ex[t]
      /\ \A t \in Streams : c[t] = IF t = s THEN how ELSE S.conn[t]
  BY <1>1 DEF ServerStates, Conns
<1> HIDE DEF c, y, v
<1>3. T \in ServerStates
  BY <1>1, <1>2 DEF ServerStates
<1>4. /\ T.streams = S.streams /\ T.stream_ids = S.stream_ids /\ T.ctx = S.ctx
      /\ T.pending = S.pending /\ T.queue = S.queue /\ T.conn = c /\ T.ex = y
  BY <1>1 DEF ServerStates
<1> HIDE DEF T
<1>5. T \in GoodStates
  BY <1>1, <1>2, <1>3, <1>4 DEF GoodStates
<1>6. Lessens(S, T)
  <2>1. NoneOpened(S, T)
    BY <1>4 DEF NoneOpened
  <2>2. Alone(T)
    <3>1. ByItself => \A t \in Streams : y[t].disp = Owner
      BY <1>1, <1>2 DEF Sound, Alone
    <3> QED BY <1>1, <1>4, <3>1 DEF Sound, Alone
  <2>3. \A t \in Range(T.streams) : /\ live(T, t) => live(S, t)
                                    /\ T.ctx[t].producing => S.ctx[t].producing
    BY <1>4 DEF live
  <2>4. \A i, j \in DOMAIN S.streams : S.streams[i] = S.streams[j] => i = j
    BY <1>1 DEF Books, Placed
  <2>5. \A t \in Streams : c[t] = "unborn" => S.conn[t] = "unborn"
    BY <1>2
  <2> QED BY <1>4, <2>1, <2>2, <2>3, <2>4, <2>5 DEF Lessens
<1>7. Fine(T)
  BY <1>5, <1>6, StillSound
<1> QED BY <1>7 DEF T, c, y, v

LEMMA NewExchangeIs ==
  ASSUME setting \in Settings, NEW d \in setting.dispatchers, NEW mode \in {"Open", "Stream"}
  PROVE  LET x == [NewExchange(d) EXCEPT !.mode = mode] IN
         x \in Exchange /\ Len(x.replay) <= ReplayLimit /\ (ByItself => x.disp = Owner)
         /\ (mode = "Open" => x = NewExchange(d))
<1> DEFINE n == NewExchange(d)
           x == [n EXCEPT !.mode = mode]
<1>1. d \in Dispatchers /\ ReplayLimit \in Nat
  BY SettingIs
<1>2. <<>> \in Seq(Events) /\ Len(<<>>) = 0
  OBVIOUS
<1>3. /\ n \in Exchange /\ n.mode = "Open" /\ n.disp = d /\ n.replay = <<>>
      /\ DOMAIN n = {"mode", "disp", "detached", "replay", "follower", "next"}
  BY <1>1, <1>2 DEF NewExchange, Exchange
<1> HIDE DEF n
<1>4. x \in Exchange
  BY <1>3 DEF Exchange
<1>5. x.replay = <<>> /\ x.disp = d
  BY <1>3
<1>6. Len(x.replay) <= ReplayLimit
  BY <1>1, <1>2, <1>5
<1>7. ByItself => x.disp = Owner
  BY <1>5 DEF ByItself
<1>8. mode = "Open" => x = n
  BY <1>3 DEF Exchange
<1> QED BY <1>4, <1>6, <1>7, <1>8 DEF n

LEMMA OpenAnswerKeeps ==
  ASSUME SessionInv, NEW d \in setting.dispatchers, OpenAnswer(d)
  PROVE  Kept
<1> DEFINE x == [NewExchange(d) EXCEPT !.mode = "Stream"]
           T == [Now EXCEPT !.conn = [Now.conn EXCEPT ![Answer] = "up"], !.ex = [Now.ex EXCEPT ![Answer] = x]]
           N == [T EXCEPT !.stream_ids = T.stream_ids \cup {Answer}]
           B == [Now EXCEPT !.conn[Answer] = "up", !.stream_ids = @ \cup {Answer}, !.ex[Answer] = x]
<1>1. setting \in Settings /\ Fine(Now) /\ Answer \in Streams /\ Now.conn[Answer] = "unborn"
  BY SettingIs, NowIs DEF SessionInv, OpenAnswer
<1>2. x \in Exchange /\ Len(x.replay) <= ReplayLimit /\ (ByItself => x.disp = Owner)
  BY <1>1, NewExchangeIs
<1> HIDE DEF x
<1>3. Fine(T) /\ Coming(T, Answer)
  BY <1>1, <1>2, Arrived
<1>4. Room(T, Answer)
  BY DEF Room, kind
<1>5. Named(N, Answer)
  <2> HIDE DEF T
  <2> QED BY <1>1, <1>3, <1>4, StreamNamed
<1>6. N = B
  BY DEF Now
<1>7. ByItself => d = Owner
  BY DEF ByItself
<1> HIDE DEF T, N, B
<1>8. Fine(withSessionOnOwner(B, d, "attach", Answer))
  BY <1>1, <1>5, <1>6, <1>7, VisitAsked DEF Named
<1>9. Become(withSessionOnOwner(B, d, "attach", Answer))
  BY DEF OpenAnswer, B, x
<1> QED BY <1>8, <1>9, Became

LEMMA GetArrivesKeeps ==
  ASSUME SessionInv, NEW d \in setting.dispatchers, NEW s \in setting.gets, GetArrives(d, s)
  PROVE  Kept
<1> DEFINE x == [NewExchange(d) EXCEPT !.mode = "Open"]
           T == [Now EXCEPT !.conn = [Now.conn EXCEPT ![s] = "up"], !.ex = [Now.ex EXCEPT ![s] = x]]
           B == [Now EXCEPT !.conn[s] = "up", !.ex[s] = NewExchange(d)]
           task == [op |-> "judge", stream |-> s, cursor |-> cursor]
<1>1. setting \in Settings /\ Fine(Now) /\ s \in Streams /\ Now.conn[s] = "unborn" /\ cursor \in Ids
  BY SettingIs, NowIs DEF SessionInv, GetArrives, Streams
<1>2. x \in Exchange /\ Len(x.replay) <= ReplayLimit /\ (ByItself => x.disp = Owner) /\ x = NewExchange(d)
  BY <1>1, NewExchangeIs
<1> HIDE DEF x
<1>3. Fine(T) /\ Coming(T, s)
  BY <1>1, <1>2, Arrived
<1>4. T = B
  BY <1>2 DEF Now
<1> HIDE DEF T, B
<1>5. Fine(B) /\ Coming(B, s) /\ B \in GoodStates /\ Owner \in Dispatchers
  BY <1>1, <1>3, <1>4, SettingIs DEF Fine
<1>6. Become(CASE ~known -> resumeAfterValidation(B, s, FALSE, 0, None, cursor)
               [] known /\ d = Owner -> openEventStream(B, s, openGets(B), resumeFrom(B, cursor), cursor)
               [] OTHER -> Post(B, Owner, task))
  BY DEF GetArrives, B
<1>7. CASE ~known
  <2>1. Fine(resumeAfterValidation(B, s, FALSE, 0, None, cursor))
    BY <1>1, <1>5, Resumed
  <2>2. Become(resumeAfterValidation(B, s, FALSE, 0, None, cursor))
    BY <1>6, <1>7
  <2> QED BY <2>1, <2>2, Became
<1>8. CASE known /\ d = Owner
  <2>1. openGets(B) \in Nat /\ resumeFrom(B, cursor) \in Streams \cup {None}
    BY <1>5, Counted, ResumedFrom
  <2>2. Fine(openEventStream(B, s, openGets(B), resumeFrom(B, cursor), cursor))
    BY <1>1, <1>5, <2>1, EventStreamOpened
  <2>3. Become(openEventStream(B, s, openGets(B), resumeFrom(B, cursor), cursor))
    BY <1>6, <1>8
  <2> QED BY <2>2, <2>3, Became
<1>9. CASE known /\ d # Owner
  <2>1. ~ByItself
    BY <1>9 DEF ByItself
  <2>2. task \in Tasks /\ task.stream = s /\ task.op = "judge"
    BY <1>1 DEF Tasks, Judgements
  <2>3. Become(Post(B, Owner, task))
    BY <1>6, <1>9
  <2> HIDE DEF task
  <2>4. Fine(Post(B, Owner, task))
    BY <1>1, <1>5, <2>1, <2>2, PostedSound
  <2> QED BY <2>3, <2>4, Became
<1> QED BY <1>7, <1>8, <1>9

LEMMA AnsweringKeeps ==
  ASSUME SessionInv, sendNotification \/ sendResponse
  PROVE  Kept
<1>1. /\ setting \in Settings /\ Fine(Now) /\ Now \in GoodStates /\ Alone(Now) /\ Answer \in Streams
      /\ AnswerEvents \in Nat
  BY SettingIs DEF SessionInv, Fine, Sound
<1>2. ex[Answer].next \in Nat \ {0}
  BY <1>1, NowIs DEF GoodStates, ServerStates, Exchange
<1>3. ASSUME NEW n \in 1..AnswerEvents
      PROVE  Unnumbered(AnswerMessage(n)) \in Events
  BY DEF Unnumbered, Events, Messages, Ids
<1>4. CASE sendNotification
  <2> DEFINE e == Unnumbered(AnswerMessage(ex[Answer].next))
  <2>1. ex[Answer].next \in 1..AnswerEvents
    BY <1>1, <1>2, <1>4 DEF sendNotification
  <2>2. e \in Events
    BY <1>3, <2>1
  <2>3. Become(writeEvent(Now, Answer, e))
    BY <1>4 DEF sendNotification
  <2> HIDE DEF e
  <2>4. Fine(writeEvent(Now, Answer, e))
    BY <1>1, <2>2, EventWritten, StillFine
  <2> QED BY <2>3, <2>4, Became
<1>5. CASE sendResponse
  <2> DEFINE e == Unnumbered(AnswerMessage(AnswerEvents))
             W == writeEvent(Now, Answer, e)
             C == complete(W, Answer)
             d == ex[Answer].disp
  <2>1. AnswerEvents \in 1..AnswerEvents
    BY <1>1, <1>2, <1>5 DEF sendResponse
  <2>2. e \in Events
    BY <1>3, <2>1
  <2>3. Become(withSessionOnOwner(C, d, "finish", Answer))
    BY <1>5 DEF sendResponse
  <2> HIDE DEF e
  <2>4. Fine(W)
    BY <1>1, <2>2, EventWritten, StillFine
  <2> HIDE DEF W
  <2>5. Fine(C)
    BY <1>1, <2>4, AnsweredOff, StillFine DEF complete
  <2>6. ByItself => d = Owner
    BY <1>1, NowIs DEF Alone
  <2> HIDE DEF C, d
  <2>7. Fine(withSessionOnOwner(C, d, "finish", Answer))
    BY <1>1, <2>5, <2>6, VisitAsked
  <2> QED BY <2>3, <2>7, Became
<1> QED BY <1>4, <1>5

LEMMA ConnectionGoneKeeps ==
  ASSUME SessionInv, NEW s \in Streams, ConnectionGone(s)
  PROVE  Kept
<1> DEFINE x == [ex[s] EXCEPT !.detached = ex[s].mode = "Stream"]
           T == [Now EXCEPT !.conn = [Now.conn EXCEPT ![s] = "gone"], !.wire = [Now.wire EXCEPT ![s] = <<>>],
                            !.ex = [Now.ex EXCEPT ![s] = x]]
           G == [Now EXCEPT !.conn[s] = "gone", !.wire[s] = <<>>, !.ex[s].detached = ex[s].mode = "Stream"]
           d == ex[s].disp
<1>1. setting \in Settings /\ Fine(Now) /\ Now \in GoodStates /\ Now \in ServerStates /\ Alone(Now)
  BY DEF SessionInv, Fine, Sound, GoodStates
<1>2. ex[s] \in Exchange /\ Len(ex[s].replay) <= ReplayLimit
  BY <1>1, NowIs DEF GoodStates, ServerStates
<1>3. x \in Exchange /\ x.replay = ex[s].replay /\ x.disp = ex[s].disp
  BY <1>2 DEF Exchange
<1>4. G = T
  BY DEF Now
<1>5. Fine(T)
  <2>1. <<>> \in Seq(Events) /\ x.disp = Now.ex[s].disp
    BY <1>3, NowIs
  <2> HIDE DEF x
  <2> QED BY <1>1, <1>2, <1>3, <2>1, Gone
<1>6. ByItself => d = Owner
  BY <1>1, NowIs DEF Alone
<1>7. Become(IF s = Answer THEN withSessionOnOwner(G, d, "detach", s) ELSE G)
  BY DEF ConnectionGone
<1> HIDE DEF G, T, d
<1>8. Fine(withSessionOnOwner(G, d, "detach", s))
  BY <1>1, <1>4, <1>5, <1>6, VisitAsked
<1> QED BY <1>4, <1>5, <1>7, <1>8, Became

LEMMA FilterDestroyedKeeps ==
  ASSUME SessionInv, NEW s \in Streams, FilterDestroyed(s)
  PROVE  Kept
<1> DEFINE T == [Now EXCEPT !.conn = [Now.conn EXCEPT ![s] = "down"],
                            !.wire = [Now.wire EXCEPT ![s] = wire[s]],
                            !.ex = [Now.ex EXCEPT ![s] = ex[s]]]
           D == [Now EXCEPT !.conn[s] = "down"]
           d == ex[s].disp
<1>1. setting \in Settings /\ Fine(Now) /\ Now \in GoodStates /\ Now \in ServerStates /\ Alone(Now)
  BY DEF SessionInv, Fine, Sound, GoodStates
<1>2. /\ ex \in [Streams -> Exchange] /\ Len(ex[s].replay) <= ReplayLimit
      /\ wire \in [Streams -> Seq(Events)]
  BY <1>1, NowIs DEF GoodStates, ServerStates
<1>3. [Now.wire EXCEPT ![s] = wire[s]] = Now.wire /\ [Now.ex EXCEPT ![s] = ex[s]] = Now.ex
  BY <1>2, NowIs
<1>4. D = T
  BY <1>3 DEF Now
<1>5. Fine(T)
  <2>1. ex[s].disp = Now.ex[s].disp /\ ex[s] \in Exchange /\ wire[s] \in Seq(Events)
    BY <1>2, NowIs
  <2> QED BY <1>1, <1>2, <2>1, Gone
<1>6. ByItself => d = Owner
  BY <1>1, NowIs DEF Alone
<1>7. Become(IF s = Answer THEN D ELSE withSessionOnOwner(D, d, "detach", s))
  BY DEF FilterDestroyed
<1> HIDE DEF D, T, d
<1>8. Fine(withSessionOnOwner(D, d, "detach", s))
  BY <1>1, <1>4, <1>5, <1>6, VisitAsked
<1> QED BY <1>4, <1>5, <1>7, <1>8, Became

LEMMA UnsolicitedKeeps ==
  ASSUME SessionInv, routeUnsolicited
  PROVE  Kept /\ noted' \in 0..Notes
<1>1. /\ setting \in Settings /\ Fine(Now) /\ Now \in GoodStates /\ Now \in ServerStates /\ Sound(Now)
      /\ Notes \in Nat /\ PendingLimit \in Nat \ {0} /\ noted \in 0..Notes /\ noted < Notes
  BY SettingIs DEF SessionInv, Fine, GoodStates, routeUnsolicited
<1>2. Note(noted + 1) \in Messages /\ noted' \in 0..Notes
  BY <1>1 DEF Messages, routeUnsolicited
<1> DEFINE m == Note(noted + 1)
           q == IF Len(pending) >= PendingLimit THEN Tail(pending) ELSE pending
           p == Append(q, m)
           T == [Now EXCEPT !.pending = p]
<1> HIDE DEF m
<1>3. CASE \E i \in liveGets : IsCurrent(i) /\ Become(writeToStream(Now, streams[i], m))
  <2>1. PICK i \in liveGets : Become(writeToStream(Now, streams[i], m))
    BY <1>3
  <2>2. streams[i] \in Streams
    BY <1>1, NowIs, StateIs DEF liveGets, Range
  <2>3. Fine(writeToStream(Now, streams[i], m))
    BY <1>1, <1>2, <2>2, Written, StillFine DEF m
  <2> QED BY <1>2, <2>1, <2>3, Became
<1>4. CASE liveGets = {} /\ Become(T)
  <2>1. pending \in Seq(Messages) /\ Len(pending) <= PendingLimit
    BY <1>1, NowIs DEF GoodStates, ServerStates
  <2>2. q \in Seq(Messages) /\ Len(q) < PendingLimit
    <3>1. CASE Len(pending) >= PendingLimit
      <4>1. pending # <<>>
        BY <1>1, <2>1, <3>1
      <4>2. Tail(pending) \in Seq(Messages) /\ Len(Tail(pending)) = Len(pending) - 1
        BY <2>1, <4>1, HeadTailProperties
      <4> QED BY <1>1, <2>1, <3>1, <4>2
    <3>2. CASE ~(Len(pending) >= PendingLimit)
      BY <1>1, <2>1, <3>2
    <3> QED BY <3>1, <3>2
  <2> HIDE DEF q
  <2>3. p \in Seq(Messages) /\ Len(p) <= PendingLimit
    BY <1>1, <1>2, <2>2 DEF m
  <2> HIDE DEF p
  <2>4. T \in ServerStates
    BY <1>1, <2>3 DEF ServerStates
  <2>5. /\ T.streams = streams /\ T.stream_ids = Now.stream_ids /\ T.ctx = ctx /\ T.pending = p
        /\ T.queue = Now.queue /\ T.conn = Now.conn /\ T.ex = Now.ex
    BY <1>1, NowIs DEF ServerStates
  <2> HIDE DEF T
  <2>6. T \in GoodStates
    BY <1>1, <2>3, <2>4, <2>5 DEF GoodStates
  <2>7. NoneWaits(T)
    <3>1. \A s \in Range(streams) : kind(s) = "Get" => ~live(Now, s)
      BY <1>4 DEF liveGets, Range
    <3> QED BY <2>5, <3>1, NowIs DEF NoneWaits, live
  <2>8. openGets(T) = openGets(Now)
    BY <2>5, NowIs DEF openGets
  <2>9. Books(T)
    <3>1. T.streams = Now.streams
      BY <2>5, NowIs
    <3> QED BY <1>1, <2>5, <3>1 DEF Sound, Books, OpenedOnce, Reserved, Placed
  <2>10. Alone(T) /\ Few(T)
    BY <1>1, <2>5, <2>8 DEF Sound, Alone, Few
  <2>11. Fine(T)
    BY <2>6, <2>7, <2>9, <2>10 DEF Fine, Sound
  <2> QED BY <1>2, <1>4, <2>11, Became
<1>5. \/ \E i \in liveGets : IsCurrent(i) /\ Become(writeToStream(Now, streams[i], m))
      \/ liveGets = {} /\ Become(T)
  BY NowIs DEF routeUnsolicited, m
<1> QED BY <1>3, <1>4, <1>5

LEMMA EndStreamKeeps ==
  ASSUME SessionInv, endStream
  PROVE  Kept
<1>1. setting \in Settings /\ Fine(Now) /\ Now \in GoodStates
  BY DEF SessionInv, Fine
<1> DEFINE Ended(s) == [Now EXCEPT !.ctx[s].conn = FALSE, !.ctx[s].producing = FALSE]
           task(s) == [op |-> "end", stream |-> s]
<1>2. PICK i \in liveGets : Become(OnExchange(Ended(streams[i]), task(streams[i])))
  BY DEF endStream
<1> DEFINE s == streams[i]
           x == [ctx[s] EXCEPT !.conn = FALSE, !.producing = FALSE]
           M == [Now EXCEPT !.ctx = [Now.ctx EXCEPT ![s] = x]]
<1>3. s \in Streams
  BY <1>1, <1>2, NowIs, StateIs DEF liveGets, Range
<1> HIDE DEF s
<1>4. ctx[s] \in StreamCtx
  BY <1>1, <1>3, NowIs DEF GoodStates, ServerStates
<1>5. x \in StreamCtx /\ ~x.conn /\ ~x.producing
  BY <1>4 DEF StreamCtx
<1>6. Fine(M)
  <2> HIDE DEF x
  <2> QED BY <1>1, <1>3, <1>5, NotedOfStream
<1>7. Ended(s) = M
  BY DEF Now
<1>8. task(s) \in Writes \cup Ends
  BY <1>3 DEF Ends
<1> HIDE DEF M, task
<1>9. Fine(OnExchange(M, task(s)))
  <2>1. M \in GoodStates
    BY <1>6 DEF Fine
  <2> QED BY <1>1, <1>6, <1>8, <2>1, Reached, StillFine
<1>10. Become(OnExchange(M, task(s)))
  <2> HIDE DEF Ended
  <2> QED BY <1>2, <1>7 DEF s
<1> QED BY <1>9, <1>10, Became

\* sweepFor(): marking changes nothing but the marks.
LEMMA RetireKeeps ==
  ASSUME SessionInv, retireStreams
  PROVE  Kept
<1>1. /\ setting \in Settings /\ Fine(Now) /\ Now \in GoodStates /\ Now \in ServerStates /\ Sound(Now)
      /\ Books(Now)
  BY DEF SessionInv, Fine, GoodStates, Sound
<1>2. PICK due : Become(closeDue(Marked, streams, due))
  BY DEF retireStreams
<1> DEFINE c == [s \in Streams |->
                   IF s \in Range(streams) THEN [ctx[s] EXCEPT !.retiring = finished(s)] ELSE ctx[s]]
<1>3. Marked = [Now EXCEPT !.ctx = c]
  BY DEF Marked
<1>4. ctx \in [Streams -> StreamCtx]
  BY <1>1, NowIs DEF ServerStates
<1>5. ASSUME NEW s \in Streams
      PROVE  c[s] \in StreamCtx /\ c[s].conn = ctx[s].conn /\ c[s].producing = ctx[s].producing
  <2>1. ctx[s] \in StreamCtx
    BY <1>4
  <2>2. finished(s) \in BOOLEAN
    BY <2>1 DEF finished, StreamCtx
  <2> DEFINE y == [ctx[s] EXCEPT !.retiring = finished(s)]
  <2>3. y \in StreamCtx /\ y.conn = ctx[s].conn /\ y.producing = ctx[s].producing
    BY <2>1, <2>2 DEF StreamCtx
  <2>4. c[s] = IF s \in Range(streams) THEN y ELSE ctx[s]
    OBVIOUS
  <2> HIDE DEF y, c
  <2> QED BY <2>1, <2>3, <2>4
<1>6. c \in [Streams -> StreamCtx]
  <2>1. c = [s \in Streams |-> c[s]]
    OBVIOUS
  <2> HIDE DEF c
  <2> QED BY <1>5, <2>1
<1> HIDE DEF c
<1>7. Marked \in ServerStates
  BY <1>1, <1>3, <1>6 DEF ServerStates
<1>8. /\ Marked.streams = Now.streams /\ Marked.stream_ids = Now.stream_ids /\ Marked.ctx = c
      /\ Marked.pending = Now.pending /\ Marked.queue = Now.queue /\ Marked.conn = Now.conn
      /\ Marked.ex = Now.ex /\ Now.ctx = ctx /\ Now.streams = streams
  BY <1>1, <1>3, NowIs DEF ServerStates
<1>9. Marked \in GoodStates
  BY <1>1, <1>7, <1>8 DEF GoodStates
<1>10. Range(streams) \subseteq Streams /\ streams \in Seq(Streams) /\ DOMAIN streams = 1..Len(streams)
  BY <1>1, <1>8, StateIs
<1>11. Lessens(Now, Marked)
  <2>1. NoneOpened(Now, Marked)
    BY <1>8 DEF NoneOpened
  <2>2. Alone(Marked)
    BY <1>1, <1>8 DEF Sound, Alone
  <2>3. \A s \in Range(streams) : /\ live(Marked, s) => live(Now, s)
                                  /\ Marked.ctx[s].producing => Now.ctx[s].producing
    BY <1>5, <1>8, <1>10 DEF live
  <2>4. \A i, j \in DOMAIN streams : streams[i] = streams[j] => i = j
    BY <1>1, <1>8 DEF Books, Placed
  <2> QED BY <1>8, <2>1, <2>2, <2>3, <2>4 DEF Lessens
<1>12. Fine(Marked)
  BY <1>1, <1>9, <1>11, StillSound
<1>13. /\ \A i, j \in 1..Len(streams) : streams[i] = streams[j] => i = j
       /\ \A i \in 1..Len(streams) : streams[i] \in Range(Marked.streams)
  BY <1>1, <1>8, <1>10 DEF Books, Placed, Range
<1>14. Fine(closeDue(Marked, streams, due))
  BY <1>1, <1>10, <1>12, <1>13, DueClosed
<1> QED BY <1>2, <1>14, Became

LEMMA SessionGoneKeeps ==
  ASSUME SessionInv, SessionExpires \/ SessionDeleted
  PROVE  Kept
<1>1. Fine(removeOwned(Now))
  BY AllRemoved DEF SessionInv
<1>2. Become(removeOwned(Now))
  BY DEF SessionExpires, SessionDeleted
<1> QED BY <1>1, <1>2, Became

LEMMA RunNextKeeps ==
  ASSUME SessionInv, NEW d \in Dispatchers, RunNext(d)
  PROVE  Kept
<1> DEFINE P == [Now EXCEPT !.queue = [Now.queue EXCEPT ![d] = Tail(Now.queue[d])]]
           h == Head(Now.queue[d])
<1>1. setting \in Settings /\ Fine(Now) /\ Now.queue[d] # <<>>
  BY NowIs DEF SessionInv, RunNext
<1>2. /\ Fine(P) /\ h \in Tasks /\ (Opens(h) => Coming(P, h.stream))
      /\ (h.op \in {"collect", "deliver", "attach"} => h.stream \in P.stream_ids)
      /\ (~OfBytes(h) => ~ByItself)
  BY <1>1, Taken
<1>3. [Now EXCEPT !.queue[d] = Tail(@)] = P /\ h = Head(queue[d])
  BY NowIs
<1>4. Become(RunTask(P, d, h))
  <2> HIDE DEF P, h
  <2> QED BY <1>3 DEF RunNext
<1> HIDE DEF P, h
<1>5. Fine(RunTask(P, d, h))
  BY <1>1, <1>2, TaskRan
<1> QED BY <1>4, <1>5, Became

LEMMA ClientKeeps ==
  ASSUME SessionInv, Read \/ Leave \/ ReadEnd
  PROVE  /\ Kept /\ at' \in Streams \cup {None} /\ cursor' \in Ids /\ received' \in Seq(Messages)
         /\ noted' = noted
<1>1. /\ setting \in Settings /\ Fine(Now) /\ Now \in GoodStates /\ Now \in ServerStates
      /\ at \in Streams /\ None \notin Streams /\ cursor \in Ids /\ received \in Seq(Messages)
  BY SettingIs DEF SessionInv, Fine, GoodStates, Read, Leave, ReadEnd
<1>2. /\ wire \in [Streams -> Seq(Events)] /\ ex[at] \in Exchange /\ Len(ex[at].replay) <= ReplayLimit
      /\ conn \in [Streams -> Conns] /\ ex \in [Streams -> Exchange]
  BY <1>1, NowIs DEF GoodStates, ServerStates
<1> DEFINE E == [Now.ex EXCEPT ![at] = ex[at]]
           V(w) == [Now EXCEPT !.ex = E, !.wire = [Now.wire EXCEPT ![at] = w]]
           C(w) == [Now EXCEPT !.conn = [Now.conn EXCEPT ![at] = "left"],
                               !.wire = [Now.wire EXCEPT ![at] = w], !.ex = E]
           Others(T) == /\ T.known = known /\ T.streams = streams /\ T.ctx = ctx
                        /\ T.pending = pending /\ T.stream_ids = stream_ids /\ T.ex = ex
                        /\ T.queue = queue
<1>3. E = ex
  BY <1>2, NowIs
<1> HIDE DEF E
<1>4. ASSUME NEW w \in Seq(Events)
      PROVE  Fine(V(w)) /\ Others(V(w)) /\ V(w).conn = conn /\ V(w).wire = [wire EXCEPT ![at] = w]
  <2>1. Others(V(w)) /\ V(w).conn = conn /\ V(w).wire = [wire EXCEPT ![at] = w]
    BY <1>1, <1>3, NowIs DEF ServerStates
  <2>2. V(w) \in GoodStates /\ BooksAlike(Now, V(w))
    BY <1>1, <1>2, Exchanged, NowIs DEF E
  <2> HIDE DEF V, Others
  <2> QED BY <1>1, <2>1, <2>2, StillFine
<1>5. ASSUME NEW w \in Seq(Events)
      PROVE  /\ Fine(C(w)) /\ Others(C(w)) /\ C(w).conn = [conn EXCEPT ![at] = "left"]
             /\ C(w).wire = [wire EXCEPT ![at] = w]
  <2>1. /\ Others(C(w)) /\ C(w).conn = [conn EXCEPT ![at] = "left"]
        /\ C(w).wire = [wire EXCEPT ![at] = w]
    BY <1>1, <1>3, NowIs DEF ServerStates
  <2>2. ex[at].disp = Now.ex[at].disp
    BY NowIs
  <2>3. Fine(C(w))
    BY <1>1, <1>2, <2>2, Gone DEF E
  <2> HIDE DEF C, Others
  <2> QED BY <2>1, <2>3
<1>6. CASE Read
  <2>1. wire[at] \in Seq(Events) /\ wire[at] # <<>>
    BY <1>1, <1>2, <1>6 DEF Read
  <2>2. Head(wire[at]) \in Events /\ Tail(wire[at]) \in Seq(Events)
    BY <2>1
  <2> DEFINE T == V(Tail(wire[at]))
  <2>3. Fine(T) /\ Others(T) /\ T.conn = conn /\ T.wire = [wire EXCEPT ![at] = Tail(wire[at])]
    <3> HIDE DEF V, Others
    <3> QED BY <1>4, <2>2
  <2> HIDE DEF T
  <2>4. Become(T)
    BY <1>6, <2>3 DEF Read, Become
  <2>5. cursor' \in Ids /\ received' \in Seq(Messages) /\ at' = at /\ noted' = noted
    <3>1. Head(wire[at]).id \in Ids /\ Head(wire[at]).msg \in Messages
      BY <2>2 DEF Events
    <3> QED BY <1>1, <1>6, <3>1 DEF Read
  <2> QED BY <1>1, <2>3, <2>4, <2>5, Became
<1>7. CASE Leave
  <2> DEFINE T == C(<<>>)
  <2>1. /\ Fine(T) /\ Others(T) /\ T.conn = [conn EXCEPT ![at] = "left"]
        /\ T.wire = [wire EXCEPT ![at] = <<>>]
    <3>1. <<>> \in Seq(Events)
      OBVIOUS
    <3> HIDE DEF C, Others
    <3> QED BY <1>5, <3>1
  <2> HIDE DEF T
  <2>2. Become(T)
    BY <1>7, <2>1 DEF Leave, Become
  <2>3. at' = None /\ cursor' = cursor /\ received' = received /\ noted' = noted
    BY <1>7 DEF Leave
  <2> QED BY <1>1, <2>1, <2>2, <2>3, Became
<1>8. CASE ReadEnd
  <2> DEFINE T == C(wire[at])
  <2>1. /\ Fine(T) /\ Others(T) /\ T.conn = [conn EXCEPT ![at] = "left"] /\ T.wire = wire
    <3>1. wire[at] \in Seq(Events) /\ [wire EXCEPT ![at] = wire[at]] = wire
      BY <1>1, <1>2
    <3> HIDE DEF C, Others
    <3> QED BY <1>5, <3>1
  <2> HIDE DEF T
  <2>2. Become(T)
    BY <1>8, <2>1 DEF ReadEnd, Become
  <2>3. at' = None /\ cursor' = cursor /\ received' = received /\ noted' = noted
    BY <1>8 DEF ReadEnd
  <2> QED BY <1>1, <2>1, <2>2, <2>3, Became
<1> QED BY <1>6, <1>7, <1>8

\* Where nothing has happened yet the books are in order.
LEMMA SessionInvInit ==
  ASSUME SessionInit
  PROVE  SessionInv
<1>1. setting \in Settings /\ Owner \in Dispatchers /\ PendingLimit \in Nat /\ ReplayLimit \in Nat
      /\ MaxGetStreams \in Nat
  BY SettingIs DEF SessionInit
<1>2. \A X : <<>> \in Seq(X) /\ Range(<<>>) = {}
  BY DEF Range
<1>3. NewExchange(Owner) \in Exchange /\ NewExchange(Owner).replay = <<>> /\ NewExchange(Owner).disp = Owner
  BY <1>1, <1>2 DEF NewExchange, Exchange
<1>4. NewCtx \in StreamCtx
  BY DEF NewCtx, StreamCtx
<1>5. /\ Now.streams = <<>> /\ Now.ctx \in [Streams -> StreamCtx] /\ Now.pending = <<>>
      /\ Now.stream_ids = {} /\ Now.queue = [d \in Dispatchers |-> <<>>]
      /\ Now.ex = [s \in Streams |-> NewExchange(Owner)] /\ Now.conn \in [Streams -> Conns]
      /\ Now.wire \in [Streams -> Seq(Events)] /\ Now.known \in BOOLEAN
  BY <1>2, <1>4, NowIs DEF SessionInit, Conns
<1>6. Now \in ServerStates
  <2>1. Now.queue \in [Dispatchers -> Seq(Tasks)] /\ Now.streams \in Seq(Streams)
        /\ Now.pending \in Seq(Messages)
    BY <1>2, <1>5
  <2>2. Now.ex \in [Streams -> Exchange] /\ Now.stream_ids \in SUBSET Streams
    BY <1>3, <1>5
  <2> QED BY <1>5, <2>1, <2>2, NowIs DEF ServerStates, Now
<1>7. Now \in GoodStates
  <2>1. Len(Now.pending) <= PendingLimit
    BY <1>1, <1>5
  <2>2. \A s \in Streams : Len(Now.ex[s].replay) <= ReplayLimit
    BY <1>1, <1>3, <1>5
  <2> QED BY <1>6, <2>1, <2>2 DEF GoodStates
<1>8. /\ \A d \in Dispatchers : Len(Now.queue[d]) = 0
      /\ Range(Now.streams) = {} /\ DOMAIN Now.streams = {}
  BY <1>2, <1>5
<1>9. Books(Now)
  BY <1>8 DEF Books, OpenedOnce, Reserved, Placed
<1>10. NoneWaits(Now)
  BY <1>5 DEF NoneWaits
<1>11. Alone(Now)
  BY <1>3, <1>5, <1>8 DEF Alone
<1>12. Few(Now)
  <2>1. openGets(Now) = Cardinality({})
    BY <1>8 DEF openGets
  <2> QED BY <1>1, <2>1, FS_EmptySet DEF Few
<1>13. at \in Streams \cup {None} /\ cursor \in Ids /\ received \in Seq(Messages) /\ noted \in 0..Notes
  BY <1>1, <1>2, SettingIs DEF SessionInit, Ids
<1> QED BY <1>1, <1>7, <1>9, <1>10, <1>11, <1>12, <1>13 DEF SessionInv, Fine, Sound

LEMMA SessionInvStep ==
  ASSUME SessionInv, [SessionNext]_sessionVars
  PROVE  SessionInv'
<1>1. setting \in Settings
  BY DEF SessionInv
<1>2. ASSUME Kept, at' \in Streams \cup {None}, cursor' \in Ids, received' \in Seq(Messages),
             noted' \in 0..Notes
      PROVE  SessionInv'
  <2>1. Fine(Now)' /\ setting' = setting
    BY <1>1, <1>2, KeptFine DEF Kept
  <2>2. Messages' = Messages /\ Notes' = Notes
    BY <2>1 DEF Messages, AnswerEvents, Notes
  <2> QED BY <1>1, <1>2, <2>1, <2>2 DEF SessionInv
<1>3. ASSUME Kept, cursor' = cursor, received' = received, noted' \in 0..Notes,
             at' \in Streams \cup {None}
      PROVE  SessionInv'
  BY <1>2, <1>3 DEF SessionInv
<1>4. CASE \E d \in setting.dispatchers : OpenAnswer(d)
  <2>1. Kept
    BY <1>4, OpenAnswerKeeps
  <2>2. cursor' = cursor /\ received' = received /\ noted' = noted /\ at' = Answer
    BY <1>4 DEF OpenAnswer
  <2> QED BY <1>3, <2>1, <2>2 DEF SessionInv, Streams
<1>5. CASE \E d \in setting.dispatchers, s \in setting.gets : GetArrives(d, s)
  <2>1. PICK d \in setting.dispatchers, s \in setting.gets : GetArrives(d, s)
    BY <1>5
  <2>2. Kept
    BY <2>1, GetArrivesKeeps
  <2>3. cursor' = cursor /\ received' = received /\ noted' = noted /\ at' = s /\ s \in Streams
    BY <1>1, <2>1, SettingIs DEF GetArrives, Streams
  <2> QED BY <1>3, <2>2, <2>3 DEF SessionInv
<1>6. CASE sendNotification \/ sendResponse
  <2>1. Kept
    BY <1>6, AnsweringKeeps
  <2>2. UNCHANGED <<client, noted>>
    BY <1>6 DEF sendNotification, sendResponse
  <2> QED BY <1>3, <2>1, <2>2 DEF SessionInv, client
<1>7. CASE \E s \in Streams : ConnectionGone(s) \/ FilterDestroyed(s)
  <2>1. Kept
    BY <1>7, ConnectionGoneKeeps, FilterDestroyedKeeps
  <2>2. UNCHANGED <<client, noted>>
    BY <1>7 DEF ConnectionGone, FilterDestroyed
  <2> QED BY <1>3, <2>1, <2>2 DEF SessionInv, client
<1>8. CASE routeUnsolicited
  <2>1. Kept /\ noted' \in 0..Notes
    BY <1>8, UnsolicitedKeeps
  <2>2. UNCHANGED client
    BY <1>8 DEF routeUnsolicited
  <2> QED BY <1>3, <2>1, <2>2 DEF SessionInv, client
<1>9. CASE endStream \/ retireStreams \/ SessionExpires \/ SessionDeleted
  <2>1. Kept
    BY <1>9, EndStreamKeeps, RetireKeeps, SessionGoneKeeps
  <2>2. UNCHANGED <<client, noted>>
    BY <1>9 DEF endStream, retireStreams, SessionExpires, SessionDeleted
  <2> QED BY <1>3, <2>1, <2>2 DEF SessionInv, client
<1>10. CASE \E d \in Dispatchers : RunNext(d)
  <2>1. Kept
    BY <1>10, RunNextKeeps
  <2>2. UNCHANGED <<client, noted>>
    BY <1>10 DEF RunNext
  <2> QED BY <1>3, <2>1, <2>2 DEF SessionInv, client
<1>11. CASE Read \/ Leave \/ ReadEnd
  BY <1>2, <1>11, ClientKeeps DEF SessionInv
<1>12. CASE UNCHANGED sessionVars
  <2>1. /\ setting' = setting /\ Now' = Now /\ at' = at /\ cursor' = cursor /\ received' = received
        /\ noted' = noted
    BY <1>12 DEF sessionVars, server, client, Now
  <2>2. Kept
    BY <2>1 DEF Kept, SessionInv
  <2> QED BY <1>3, <2>1, <2>2 DEF SessionInv
<1> QED BY <1>4, <1>5, <1>6, <1>7, <1>8, <1>9, <1>10, <1>11, <1>12 DEF SessionNext

\* Whatever the interleaving of its dispatchers, the session and everything
\* under way for it are in order.
THEOREM SessionInvariant == SessionSpec => []SessionInv
BY SessionInvInit, SessionInvStep, PTL DEF SessionSpec

LEMMA SessionInvSound ==
  ASSUME SessionInv
  PROVE  StreamsSound /\ NothingWaitsBehindALiveStream
<1>1. Now \in GoodStates /\ Now \in ServerStates /\ Sound(Now) /\ Books(Now)
  BY DEF SessionInv, Fine, GoodStates, Sound
<1>2. SessionTypeOK
  <2>1. /\ known \in BOOLEAN /\ streams \in Seq(Streams) /\ ctx \in [Streams -> StreamCtx]
        /\ pending \in Seq(Messages) /\ stream_ids \subseteq Streams /\ ex \in [Streams -> Exchange]
        /\ conn \in [Streams -> Conns] /\ wire \in [Streams -> Seq(Events)]
        /\ queue \in [Dispatchers -> Seq(Tasks)]
    BY <1>1, NowIs DEF ServerStates
  <2>2. Len(pending) <= PendingLimit /\ \A s \in Streams : Len(ex[s].replay) <= ReplayLimit
    BY <1>1, NowIs DEF GoodStates
  <2> QED BY <2>1, <2>2 DEF SessionTypeOK, SessionInv, Conns
<1>3. HeldIdsReserved
  BY <1>1, NowIs DEF HeldIdsReserved, Books, Reserved
<1>4. GetStreamsBounded
  BY <1>1 DEF GetStreamsBounded, Sound, Few, ByItself
<1>5. NothingWaitsBehindALiveStream
  BY <1>1, NowIs DEF NothingWaitsBehindALiveStream, Sound, NoneWaits
<1> QED BY <1>2, <1>3, <1>4, <1>5 DEF StreamsSound

\* The streams a session holds keep their ids, its own dispatcher lets in no
\* more open standalone streams than there may be, and no buffer keeps more
\* than its limit (openStream, closeStream, nameThisStream, openEventStream).
THEOREM SessionStreamsSound == SessionSpec => []StreamsSound
BY SessionInvariant, SessionInvSound, PTL

\* Nothing the server says waits in a session that has a live standalone
\* stream (openStream's flush, routeUnsolicited).
THEOREM SessionNothingWaits == SessionSpec => []NothingWaitsBehindALiveStream
BY SessionInvariant, SessionInvSound, PTL
=============================================================================
