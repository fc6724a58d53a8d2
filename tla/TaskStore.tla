------------------------------ MODULE TaskStore ------------------------------
(***************************************************************************)
(* The tasks a server is running: TaskStore and TaskHandle of              *)
(* src/server/task_store.cc.                                               *)
(*                                                                         *)
(* Every operation has two halves.  The first runs under mutex_ and is one *)
(* atomic step here.  The second runs after the unlock: it tells changed_  *)
(* the snapshot taken under the lock and calls the callbacks moved out of  *)
(* the entry.  Those calls are queued on the calling thread and made one   *)
(* by one, interleaved with whatever other threads do in between.  A       *)
(* callback may call back into the store (that is what the unlock is for), *)
(* so an operation started in the middle of a second half puts its own     *)
(* calls in front of the ones still owed.                                  *)
(*                                                                         *)
(* Abstractions.  A task id is drawn from 128 random bits, so an id is     *)
(* never drawn twice.  The steady clock is the set of ids whose deadline   *)
(* has passed.  lastUpdatedAt is the number of touch() calls.  The         *)
(* on_answered callback is named by the set of keys of the question that   *)
(* installed it, {} when there is none.  Results, errors and messages      *)
(* carry no information the properties need.                               *)
(***************************************************************************)
EXTENDS Naturals, Sequences, FiniteSets

CONSTANTS
  Tasks,          \* task ids that newTaskId() can draw
  Owners,         \* authenticated callers
  Keys,           \* keys a task can name its input requests by
  Observers,      \* cancellation observers, one per onCancelled() call
  Threads,        \* threads that call into the store
  MaxPerCaller,   \* Config::max_per_caller
  Expires,        \* whether Config::ttl is positive
  MaxUpdates,     \* bound: touch() calls in one task's life
  MaxOwed         \* bound: calls one thread may owe when it starts another

ASSUME ConfigAssumption ==
  /\ MaxPerCaller \in Nat
  /\ Expires \in BOOLEAN
  /\ MaxUpdates \in Nat
  /\ MaxOwed \in Nat
  /\ IsFiniteSet(Tasks)

VARIABLES
  drawn,     \* ids handed out so far
  held,      \* the ids in entries_
  entry,     \* entries_[id]; for an id no longer held, what it last was
  due,       \* ids whose deadline has passed
  owed,      \* per thread: calls still to make outside the lock
  inside,    \* threads that are inside such a call, with more to make
  heard,     \* per task: the snapshots changed_ was told, oldest first
  placed,    \* per observer: the task it was given to, or NoTask
  informed,  \* per observer: how often it was called
  answered   \* per task: the keys whose answers reached a callback

vars == <<drawn, held, entry, due, owed, inside, heard, placed, informed, answered>>

-----------------------------------------------------------------------------
NoTask == "no task"
NoOwner == "no owner"

\* protocol::tasks::Status and isTerminal().
Status == {"working", "input_required", "completed", "failed", "cancelled"}
Terminal == {"completed", "failed", "cancelled"}
isTerminal(status) == status \in Terminal

Entry == [owner       : Owners \cup {NoOwner},
          status      : Status,
          updated     : Nat,
          asked       : SUBSET Keys,     \* keys of task.inputRequests
          outstanding : SUBSET Keys,
          used_keys   : SUBSET Keys,
          on_answered : SUBSET Keys,
          cancel_requested : BOOLEAN,
          on_cancelled     : Seq(Observers)]

NewEntry(owner) ==
  [owner |-> owner, status |-> "working", updated |-> 0,
   asked |-> {}, outstanding |-> {}, used_keys |-> {}, on_answered |-> {},
   cancel_requested |-> FALSE, on_cancelled |-> <<>>]

\* The calls a thread makes after the unlock.
TellCall(t, n)       == [call |-> "tell", task |-> t, n |-> n]
AnswerCall(t, q, ks) == [call |-> "answer", task |-> t, asker |-> q, keys |-> ks]
InformCall(t, o)     == [call |-> "inform", task |-> t, observer |-> o]

Calls == [call : {"tell"}, task : Tasks, n : Nat]
         \cup [call : {"answer"}, task : Tasks, asker : SUBSET Keys, keys : SUBSET Keys]
         \cup [call : {"inform"}, task : Tasks, observer : Observers]

Init ==
  /\ drawn = {}
  /\ held = {}
  /\ entry = [t \in Tasks |-> NewEntry(NoOwner)]
  /\ due = {}
  /\ owed = [th \in Threads |-> <<>>]
  /\ inside = {}
  /\ heard = [t \in Tasks |-> <<>>]
  /\ placed = [o \in Observers |-> NoTask]
  /\ informed = [o \in Observers |-> 0]
  /\ answered = [t \in Tasks |-> {}]

-----------------------------------------------------------------------------
(* Helpers that run with the lock held. *)

\* find(): this caller's, still held, not past its deadline.
find(owner, t) == t \in held /\ t \notin due /\ entry[t].owner = owner

\* A handle looks its task up by id alone.
Unfinished(t) == t \in held /\ ~isTerminal(entry[t].status)

\* touch(): bounded so that setStatusMessage cannot run for ever.
touch(e) == [e EXCEPT !.updated = @ + 1]
CanTouch(t) == entry[t].updated < MaxUpdates

\* A thread calls the store when it owes nothing, or from inside a call.
CanStart(th) == owed[th] = <<>> \/ (th \in inside /\ Len(owed[th]) <= MaxOwed)

Owe(th, calls) ==
  /\ owed' = [owed EXCEPT ![th] = calls \o @]
  /\ inside' = inside \ {th}

\* What the operations make of an entry.  An answer closes the keys it names;
\* with the last one the question is over and its callback is moved out.
Left(e, responses) == e.outstanding \ responses
Changed(e, responses) == Left(e, responses) # {} \/ e.status = "input_required"

\* Variant: the keys are answered but not erased until all of them are.
Answered_AllOrNothing(e, responses) ==
  [e EXCEPT !.outstanding = IF Left(e, responses) = {} THEN {} ELSE e.outstanding,
            !.on_answered = IF Left(e, responses) = {} THEN {} ELSE e.on_answered,
            !.status = IF Left(e, responses) = {} THEN "working" ELSE e.status,
            !.asked = IF Left(e, responses) = {} THEN {} ELSE e.asked]

Answered(e, responses) ==
  [e EXCEPT !.outstanding = Left(e, responses),
            !.on_answered = IF Left(e, responses) = {} THEN {} ELSE e.on_answered,
            !.status = IF Left(e, responses) = {} /\ Changed(e, responses)
                       THEN "working" ELSE e.status,
            !.asked = IF Changed(e, responses)
                      THEN e.asked \cap Left(e, responses) ELSE e.asked]

\* Variant: a finished task keeps what it was waiting for.
Finished_KeepsQuestion(e, status) == [e EXCEPT !.status = status, !.asked = {}]

Finished(e, status) ==
  [e EXCEPT !.status = status, !.asked = {}, !.outstanding = {}, !.on_answered = {}]

\* Variant: the observers are copied out of the entry, not moved.
Cancelled_NoMove(e) ==
  [Finished(e, "cancelled") EXCEPT !.cancel_requested = TRUE]

Cancelled(e) ==
  [Finished(e, "cancelled") EXCEPT !.cancel_requested = TRUE, !.on_cancelled = <<>>]

Watched(e, o) == [e EXCEPT !.on_cancelled = Append(e.on_cancelled, o)]

Asked(e, requests) ==
  [e EXCEPT !.used_keys = e.used_keys \cup requests,
            !.outstanding = e.outstanding \cup requests,
            !.asked = e.asked \cup requests,
            !.status = "input_required",
            !.on_answered = requests]

-----------------------------------------------------------------------------
(* TaskStore, from a request. *)

sweepLocked == held \ due

\* Variant: the count is taken before the sweep's result is known, one too late.
create_OverShare(th, owner) ==
  /\ CanStart(th)
  /\ \E t \in Tasks \ drawn :
       /\ Cardinality({u \in sweepLocked : entry[u].owner = owner}) <= MaxPerCaller
       /\ drawn' = drawn \cup {t}
       /\ held' = sweepLocked \cup {t}
       /\ entry' = [entry EXCEPT ![t] = NewEntry(owner)]
  /\ UNCHANGED <<due, owed, inside, heard, placed, informed, answered>>

\* create(): the sweep happens even when the caller holds too many.
create(th, owner) ==
  /\ CanStart(th)
  /\ \/ /\ Cardinality({t \in sweepLocked : entry[t].owner = owner}) < MaxPerCaller
        /\ \E t \in Tasks \ drawn :
             /\ drawn' = drawn \cup {t}
             /\ held' = sweepLocked \cup {t}
             /\ entry' = [entry EXCEPT ![t] = NewEntry(owner)]
     \/ /\ Cardinality({t \in sweepLocked : entry[t].owner = owner}) >= MaxPerCaller
        /\ held' = sweepLocked
        /\ UNCHANGED <<drawn, entry>>
  /\ UNCHANGED <<due, owed, inside, heard, placed, informed, answered>>

\* update(): only outstanding keys count; nothing newly answered, nothing
\* happens.  The last answer moves the callback out of the entry, an earlier
\* one copies it.
update(th, owner, t, responses) ==
  /\ CanStart(th)
  /\ find(owner, t)
  /\ LET e == entry[t]
         answers == responses \cap e.outstanding
         changed == Changed(e, responses)
     IN /\ answers # {}
        /\ CanTouch(t)
        /\ entry' = [entry EXCEPT ![t] = IF changed THEN touch(Answered(e, responses))
                                                   ELSE Answered(e, responses)]
        /\ Owe(th, (IF changed THEN << TellCall(t, e.updated + 1) >> ELSE <<>>)
                   \o << AnswerCall(t, e.on_answered, answers) >>)
  /\ UNCHANGED <<drawn, held, due, heard, placed, informed, answered>>

\* cancel(): nothing changes for a task finished or cancelled before.  The
\* observers are taken out of the entry and called after the unlock.
cancel(th, owner, t) ==
  /\ CanStart(th)
  /\ find(owner, t)
  /\ ~entry[t].cancel_requested
  /\ ~isTerminal(entry[t].status)
  /\ CanTouch(t)
  /\ entry' = [entry EXCEPT ![t] = touch(Cancelled(entry[t]))]
  /\ LET watchers == entry[t].on_cancelled
     IN Owe(th, << TellCall(t, entry[t].updated + 1) >>
                \o [i \in DOMAIN watchers |-> InformCall(t, watchers[i])])
  /\ UNCHANGED <<drawn, held, due, heard, placed, informed, answered>>

sweep(th) ==
  /\ CanStart(th)
  /\ held' = sweepLocked
  /\ UNCHANGED <<drawn, entry, due, owed, inside, heard, placed, informed, answered>>

-----------------------------------------------------------------------------
(* TaskHandle, from the work.  The deadline plays no part here. *)

\* Variant: always queued, although the cancellation is over.
onCancelled_NeverAtOnce(th, t, o) ==
  /\ CanStart(th)
  /\ t \in held
  /\ placed[o] = NoTask
  /\ placed' = [placed EXCEPT ![o] = t]
  /\ entry' = [entry EXCEPT ![t] = Watched(entry[t], o)]
  /\ UNCHANGED <<drawn, held, due, owed, inside, heard, informed, answered>>

\* onCancelled(): told at once, outside the lock, when it was cancelled
\* already; dropped when the task is gone.
onCancelled(th, t, o) ==
  /\ CanStart(th)
  /\ t \in drawn
  /\ placed[o] = NoTask
  /\ placed' = [placed EXCEPT ![o] = t]
  /\ \/ /\ t \in held
        /\ ~entry[t].cancel_requested
        /\ entry' = [entry EXCEPT ![t] = Watched(entry[t], o)]
        /\ UNCHANGED <<owed, inside>>
     \/ /\ t \in held
        /\ entry[t].cancel_requested
        /\ Owe(th, << InformCall(t, o) >>)
        /\ UNCHANGED entry
     \/ /\ t \notin held
        /\ UNCHANGED <<entry, owed, inside>>
  /\ UNCHANGED <<drawn, held, due, heard, informed, answered>>

setStatusMessage(th, t) ==
  /\ CanStart(th)
  /\ Unfinished(t)
  /\ CanTouch(t)
  /\ entry' = [entry EXCEPT ![t] = touch(entry[t])]
  /\ Owe(th, << TellCall(t, entry[t].updated + 1) >>)
  /\ UNCHANGED <<drawn, held, due, heard, placed, informed, answered>>

\* Variant: work that ends after a cancellation still has its say.
finish_TooLate(th, t, status) ==
  /\ CanStart(th)
  /\ t \in held
  /\ CanTouch(t)
  /\ entry' = [entry EXCEPT ![t] = touch(Finished(entry[t], status))]
  /\ Owe(th, << TellCall(t, entry[t].updated + 1) >>)
  /\ UNCHANGED <<drawn, held, due, heard, placed, informed, answered>>

\* finish(), from complete() and fail().
finish(th, t, status) ==
  /\ CanStart(th)
  /\ Unfinished(t)
  /\ CanTouch(t)
  /\ entry' = [entry EXCEPT ![t] = touch(Finished(entry[t], status))]
  /\ Owe(th, << TellCall(t, entry[t].updated + 1) >>)
  /\ UNCHANGED <<drawn, held, due, heard, placed, informed, answered>>

\* askForInput(): one question at a time, and a key once in a task's life.
askForInput(th, t, requests) ==
  /\ CanStart(th)
  /\ requests # {}
  /\ Unfinished(t)
  /\ entry[t].outstanding = {}
  /\ requests \cap entry[t].used_keys = {}
  /\ CanTouch(t)
  /\ entry' = [entry EXCEPT ![t] = touch(Asked(entry[t], requests))]
  /\ Owe(th, << TellCall(t, entry[t].updated + 1) >>)
  /\ UNCHANGED <<drawn, held, due, heard, placed, informed, answered>>

-----------------------------------------------------------------------------
(* The calls made after the unlock, and time. *)

NextCall(th, call) ==
  /\ owed[th] # <<>>
  /\ Head(owed[th]).call = call
  /\ owed' = [owed EXCEPT ![th] = Tail(@)]
  /\ inside' = IF Tail(owed[th]) = <<>> THEN inside \ {th} ELSE inside \cup {th}

\* tell(): the snapshot goes to changed_.
tell(th) ==
  /\ NextCall(th, "tell")
  /\ LET c == Head(owed[th]) IN heard' = [heard EXCEPT ![c.task] = Append(@, c.n)]
  /\ UNCHANGED <<drawn, held, entry, due, placed, informed, answered>>

\* on_answered(answers)
CallOnAnswered(th) ==
  /\ NextCall(th, "answer")
  /\ LET c == Head(owed[th]) IN answered' = [answered EXCEPT ![c.task] = @ \cup c.keys]
  /\ UNCHANGED <<drawn, held, entry, due, heard, placed, informed>>

\* observer()
CallObserver(th) ==
  /\ NextCall(th, "inform")
  /\ LET c == Head(owed[th]) IN informed' = [informed EXCEPT ![c.observer] = @ + 1]
  /\ UNCHANGED <<drawn, held, entry, due, heard, placed, answered>>

\* The steady clock passes a task's deadline.
DeadlinePasses(t) ==
  /\ Expires
  /\ t \in held \ due
  /\ due' = due \cup {t}
  /\ UNCHANGED <<drawn, held, entry, owed, inside, heard, placed, informed, answered>>

Deliver(th) == tell(th) \/ CallOnAnswered(th) \/ CallObserver(th)

Next ==
  \/ \E th \in Threads :
       \/ \E owner \in Owners : create(th, owner)
       \/ \E owner \in Owners, t \in Tasks, ks \in SUBSET Keys : update(th, owner, t, ks)
       \/ \E owner \in Owners, t \in Tasks : cancel(th, owner, t)
       \/ sweep(th)
       \/ \E t \in Tasks, o \in Observers : onCancelled(th, t, o)
       \/ \E t \in Tasks : setStatusMessage(th, t)
       \/ \E t \in Tasks, s \in {"completed", "failed"} : finish(th, t, s)
       \/ \E t \in Tasks, ks \in SUBSET Keys : askForInput(th, t, ks)
       \/ Deliver(th)
  \/ \E t \in Tasks : DeadlinePasses(t)

\* A thread that left the store goes on to make the calls it owes.
Fairness == \A th \in Threads : WF_vars(Deliver(th))

Spec == Init /\ [][Next]_vars /\ Fairness

-----------------------------------------------------------------------------
(* Properties *)

TypeOK ==
  /\ drawn \subseteq Tasks
  /\ held \subseteq drawn
  /\ entry \in [Tasks -> Entry]
  /\ due \subseteq drawn
  /\ owed \in [Threads -> Seq(Calls)]
  /\ inside \subseteq Threads
  /\ heard \in [Tasks -> Seq(Nat)]
  /\ placed \in [Observers -> Tasks \cup {NoTask}]
  /\ informed \in [Observers -> Nat]
  /\ answered \in [Tasks -> SUBSET Keys]

\* A task waits for input exactly while something it asked is unanswered; what
\* it shows a polling client is what is outstanding, every such key was asked
\* under this task, and exactly then a callback is waiting for it.  (update,
\* cancel, finish and askForInput each maintain these fields separately.)
InputOK(e) ==
  /\ (e.status = "input_required") <=> (e.outstanding # {})
  /\ e.asked = e.outstanding
  /\ e.outstanding \subseteq e.on_answered
  /\ (e.outstanding = {}) => (e.on_answered = {})
  /\ e.on_answered \subseteq e.used_keys

InputConsistent == \A t \in drawn : InputOK(entry[t])

\* An answer goes to the callback of the question that asked for it, whichever thread delivers it and whatever the
\* task has become by then (task_store.cc: "a second would take the first
\* one's answers").
AnswerReachesAsker ==
  \A th \in Threads : \A i \in DOMAIN owed[th] :
    LET c == owed[th][i] IN
      c.call = "answer" => /\ c.keys # {}
                           /\ c.keys \subseteq c.asker
                           /\ c.asker \subseteq entry[c.task].used_keys

\* A key is answered once in a task's life: no two calls carry it, pending or
\* made, and none carries one that is still outstanding.
AnsweredOnce ==
  \A th \in Threads : \A i \in DOMAIN owed[th] :
    LET c == owed[th][i] IN
      c.call = "answer" =>
        /\ c.keys \cap answered[c.task] = {}
        /\ c.keys \cap entry[c.task].outstanding = {}
        /\ \A ot \in Threads : \A j \in DOMAIN owed[ot] :
             LET d == owed[ot][j] IN
               (<<ot, j>> # <<th, i>> /\ d.call = "answer" /\ d.task = c.task)
                 => c.keys \cap d.keys = {}

\* However its tasks end, a caller never holds more than its share.
WithinShare ==
  \A o \in Owners : Cardinality({t \in held : entry[t].owner = o}) <= MaxPerCaller

\* An observer is called at most once, and only for a task that was cancelled,
\* even when it is registered while the cancellation is being carried out.
ObserverOnce ==
  \A o \in Observers :
    /\ informed[o] <= 1
    /\ informed[o] = 1 => entry[placed[o]].cancel_requested

\* "Once final, a task never changes": not its status, not what it shows.
FinalStep ==
  \A t \in held : isTerminal(entry[t].status) =>
    /\ entry'[t].status = entry[t].status
    /\ entry'[t].updated = entry[t].updated
    /\ entry'[t].outstanding = {}

FinalIsFinal == [][FinalStep]_vars

\* Every change made under the lock is told to changed_ in the end: again and
\* again there is a moment when all that were made have been.
EveryChangeTold ==
  []<>\A t \in Tasks : \A n \in 1..MaxUpdates :
    t \in drawn /\ entry[t].updated >= n
      => \E i \in DOMAIN heard[t] : heard[t][i] = n

\* An observer given to a task that is, or later is, cancelled is told.
CancellationReachesObservers ==
  \A o \in Observers, t \in Tasks :
    (placed[o] = t /\ t \in held /\ entry[t].cancel_requested) ~> (informed[o] = 1)

\* What the store shows of a task is sound: every call owed after an unlock
\* names a task of the store and carries keys of its own, and a task waits for
\* input exactly while a question of its own is unanswered.
TasksSound == TypeOK /\ InputConsistent

\* Every answer goes once, and to the callback of the question that asked for
\* it, whichever threads deliver, finish or ask again meanwhile.
AnswersFindTheirQuestion == AnswerReachesAsker /\ AnsweredOnce

\* What happens under the lock is told after it: every change to the listener,
\* every cancellation to its observers, and to each of them once.
EveryoneIsTold ==
  /\ []ObserverOnce
  /\ EveryChangeTold
  /\ CancellationReachesObservers
=============================================================================
