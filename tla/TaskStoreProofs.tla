-------------------------- MODULE TaskStoreProofs --------------------------
(* What TLAPS proves about TaskStore, for every value of its constants. *)
EXTENDS TaskStore, SequenceTheorems, FiniteSetTheorems, TLAPS

\* The sequence of observer calls that cancel() queues is a sequence of calls.
LEMMA InformCallsType ==
  ASSUME NEW t \in Tasks, NEW w \in Seq(Observers)
  PROVE  [i \in DOMAIN w |-> InformCall(t, w[i])] \in Seq(Calls)
<1>1. \A i \in 1..Len(w) : InformCall(t, w[i]) \in Calls
  <2>1. \A i \in 1..Len(w) : w[i] \in Observers
    OBVIOUS
  <2>2. QED BY <2>1 DEF InformCall, Calls
<1>2. Len(w) \in Nat /\ DOMAIN w = 1..Len(w)
  OBVIOUS
<1>3. [i \in 1..Len(w) |-> InformCall(t, w[i])] \in Seq(Calls)
  BY <1>1, <1>2, IsASeq
<1>4. QED BY <1>2, <1>3

\* touch() keeps an entry an entry.
LEMMA TouchType ==
  ASSUME NEW e \in Entry
  PROVE  touch(e) \in Entry
BY DEF Entry, touch

\* So does everything else the operations make of it.
LEMMA AnsweredType ==
  ASSUME NEW e \in Entry, NEW ks \in SUBSET Keys
  PROVE  Answered(e, ks) \in Entry
<1>1. /\ Left(e, ks) \in SUBSET Keys
      /\ (IF Left(e, ks) = {} THEN {} ELSE e.on_answered) \in SUBSET Keys
      /\ (IF Left(e, ks) = {} /\ Changed(e, ks) THEN "working" ELSE e.status) \in Status
      /\ (IF Changed(e, ks) THEN e.asked \cap Left(e, ks) ELSE e.asked) \in SUBSET Keys
  BY DEF Entry, Left, Changed, Status
<1>2. QED BY <1>1 DEF Entry, Answered

LEMMA FinishedType ==
  ASSUME NEW e \in Entry, NEW s \in Status
  PROVE  Finished(e, s) \in Entry
BY DEF Entry, Finished

LEMMA CancelledType ==
  ASSUME NEW e \in Entry
  PROVE  Cancelled(e) \in Entry
<1>1. Finished(e, "cancelled") \in Entry
  BY FinishedType DEF Status
<1>2. ASSUME NEW f \in Entry
      PROVE  [f EXCEPT !.cancel_requested = TRUE, !.on_cancelled = <<>>] \in Entry
  <2>1. <<>> \in Seq(Observers)
    OBVIOUS
  <2>2. QED BY <2>1 DEF Entry
<1>3. QED BY <1>1, <1>2 DEF Cancelled

LEMMA WatchedType ==
  ASSUME NEW e \in Entry, NEW o \in Observers
  PROVE  Watched(e, o) \in Entry
<1>1. Append(e.on_cancelled, o) \in Seq(Observers)
  BY AppendProperties DEF Entry
<1>2. QED BY <1>1 DEF Entry, Watched

LEMMA AskedType ==
  ASSUME NEW e \in Entry, NEW ks \in SUBSET Keys
  PROVE  Asked(e, ks) \in Entry
<1>1. /\ e.used_keys \cup ks \in SUBSET Keys
      /\ e.outstanding \cup ks \in SUBSET Keys
      /\ e.asked \cup ks \in SUBSET Keys
      /\ "input_required" \in Status
  BY DEF Entry, Status
<1>2. QED BY <1>1 DEF Entry, Asked

\* Each kind of call carries what the code passes to it.
LEMMA CallFields ==
  ASSUME NEW c \in Calls
  PROVE  /\ c.task \in Tasks
         /\ c.call = "tell" => c.n \in Nat
         /\ c.call = "answer" => c.asker \in SUBSET Keys /\ c.keys \in SUBSET Keys
         /\ c.call = "inform" => c.observer \in Observers
BY DEF Calls

\* What a thread owes stays a sequence of calls when calls are put in front.
LEMMA OweType ==
  ASSUME TypeOK, NEW th \in Threads, NEW calls \in Seq(Calls), Owe(th, calls)
  PROVE  owed' \in [Threads -> Seq(Calls)] /\ inside' \subseteq Threads
<1>1. owed[th] \in Seq(Calls)
  BY DEF TypeOK
<1>2. calls \o owed[th] \in Seq(Calls)
  BY <1>1, ConcatProperties
<1>3. QED BY <1>2 DEF TypeOK, Owe

\* Type correctness: every call a thread owes names a task of the store and
\* carries keys of it, and no id is held that was never drawn.
THEOREM TypeCorrect == Spec => []TypeOK
<1>1. Init => TypeOK
  <2>1. NewEntry(NoOwner) \in Entry
    BY DEF NewEntry, Entry, Status
  <2>2. QED BY <2>1 DEF Init, TypeOK
<1>2. TypeOK /\ [Next]_vars => TypeOK'
  <2> SUFFICES ASSUME TypeOK, [Next]_vars PROVE TypeOK'
    OBVIOUS
  <2> USE DEF TypeOK
  <2>1. ASSUME NEW th \in Threads, NEW owner \in Owners, create(th, owner)
        PROVE  TypeOK'
    <3>1. NewEntry(owner) \in Entry
      BY DEF NewEntry, Entry, Status
    <3>2. QED BY <2>1, <3>1 DEF create, sweepLocked
  <2>2. ASSUME NEW th \in Threads, NEW owner \in Owners, NEW t \in Tasks,
               NEW ks \in SUBSET Keys, update(th, owner, t, ks)
        PROVE  TypeOK'
    <3> DEFINE answers == ks \cap entry[t].outstanding
               changed == Changed(entry[t], ks)
               e == Answered(entry[t], ks)
               calls == (IF changed THEN << TellCall(t, entry[t].updated + 1) >> ELSE <<>>)
                        \o << AnswerCall(t, entry[t].on_answered, answers) >>
    <3>1. entry[t] \in Entry
      OBVIOUS
    <3>2. e \in Entry /\ touch(e) \in Entry
      BY <3>1, AnsweredType, TouchType
    <3>3. entry' = [entry EXCEPT ![t] = IF changed THEN touch(e) ELSE e]
      BY <2>2 DEF update
    <3>4. entry' \in [Tasks -> Entry]
      BY <3>2, <3>3
    <3>5. /\ TellCall(t, entry[t].updated + 1) \in Calls
          /\ AnswerCall(t, entry[t].on_answered, answers) \in Calls
      BY <3>1 DEF Entry, Calls, TellCall, AnswerCall
    <3>6. calls \in Seq(Calls)
      BY <3>5, ConcatProperties
    <3>7. Owe(th, calls)
      BY <2>2 DEF update
    <3>8. owed' \in [Threads -> Seq(Calls)] /\ inside' \subseteq Threads
      BY <3>6, <3>7, OweType
    <3>9. QED BY <2>2, <3>4, <3>8 DEF update
  <2>3. ASSUME NEW th \in Threads, NEW owner \in Owners, NEW t \in Tasks,
               cancel(th, owner, t)
        PROVE  TypeOK'
    <3>1. entry[t] \in Entry
      OBVIOUS
    <3>2. entry' \in [Tasks -> Entry]
      <4>1. touch(Cancelled(entry[t])) \in Entry
        BY <3>1, CancelledType, TouchType
      <4>2. QED BY <2>3, <4>1 DEF cancel
    <3> DEFINE w == entry[t].on_cancelled
               informs == [i \in DOMAIN w |-> InformCall(t, w[i])]
               calls == << TellCall(t, entry[t].updated + 1) >> \o informs
    <3>3. informs \in Seq(Calls)
      BY <3>1, InformCallsType DEF Entry
    <3>4. << TellCall(t, entry[t].updated + 1) >> \in Seq(Calls)
      BY <3>1 DEF Entry, Calls, TellCall
    <3>5. calls \in Seq(Calls)
      BY <3>3, <3>4, ConcatProperties
    <3>6. Owe(th, calls)
      BY <2>3 DEF cancel
    <3>7. owed' \in [Threads -> Seq(Calls)] /\ inside' \subseteq Threads
      BY <3>5, <3>6, OweType
    <3>8. QED BY <2>3, <3>2, <3>7 DEF cancel
  <2>4. ASSUME NEW th \in Threads, sweep(th) PROVE TypeOK'
    BY <2>4 DEF sweep, sweepLocked
  <2>5. ASSUME NEW th \in Threads, NEW t \in Tasks, NEW o \in Observers,
               onCancelled(th, t, o)
        PROVE  TypeOK'
    <3>1. entry[t] \in Entry
      OBVIOUS
    <3>2. Watched(entry[t], o) \in Entry
      BY <3>1, WatchedType
    <3>3. InformCall(t, o) \in Calls
      BY DEF Calls, InformCall
    <3>4. ASSUME Owe(th, << InformCall(t, o) >>)
          PROVE  owed' \in [Threads -> Seq(Calls)] /\ inside' \subseteq Threads
      <4>1. << InformCall(t, o) >> \in Seq(Calls)
        BY <3>3
      <4>2. QED BY <3>4, <4>1, OweType
    <3>5. owed' \in [Threads -> Seq(Calls)] /\ inside' \subseteq Threads /\ entry' \in [Tasks -> Entry]
      BY <2>5, <3>2, <3>4 DEF onCancelled
    <3>6. QED BY <2>5, <3>5 DEF onCancelled
  <2>6. ASSUME NEW th \in Threads, NEW t \in Tasks, setStatusMessage(th, t)
        PROVE  TypeOK'
    <3>1. entry[t] \in Entry
      OBVIOUS
    <3>2. entry' \in [Tasks -> Entry]
      <4>1. touch(entry[t]) \in Entry
        BY <3>1, TouchType
      <4>2. QED BY <2>6, <4>1 DEF setStatusMessage
    <3>3. << TellCall(t, entry[t].updated + 1) >> \in Seq(Calls)
      BY <3>1 DEF Entry, Calls, TellCall
    <3>4. owed' \in [Threads -> Seq(Calls)] /\ inside' \subseteq Threads
      BY <2>6, <3>3, OweType DEF setStatusMessage
    <3>5. QED BY <2>6, <3>2, <3>4 DEF setStatusMessage
  <2>7. ASSUME NEW th \in Threads, NEW t \in Tasks, NEW s \in {"completed", "failed"},
               finish(th, t, s)
        PROVE  TypeOK'
    <3>1. entry[t] \in Entry
      OBVIOUS
    <3>2. entry' \in [Tasks -> Entry]
      <4>1. touch(Finished(entry[t], s)) \in Entry
        BY <3>1, FinishedType, TouchType DEF Status
      <4>2. QED BY <2>7, <4>1 DEF finish
    <3>3. << TellCall(t, entry[t].updated + 1) >> \in Seq(Calls)
      BY <3>1 DEF Entry, Calls, TellCall
    <3>4. owed' \in [Threads -> Seq(Calls)] /\ inside' \subseteq Threads
      BY <2>7, <3>3, OweType DEF finish
    <3>5. QED BY <2>7, <3>2, <3>4 DEF finish
  <2>8. ASSUME NEW th \in Threads, NEW t \in Tasks, NEW ks \in SUBSET Keys,
               askForInput(th, t, ks)
        PROVE  TypeOK'
    <3>1. entry[t] \in Entry
      OBVIOUS
    <3>2. entry' \in [Tasks -> Entry]
      <4>1. touch(Asked(entry[t], ks)) \in Entry
        BY <3>1, AskedType, TouchType
      <4>2. QED BY <2>8, <4>1 DEF askForInput
    <3>3. << TellCall(t, entry[t].updated + 1) >> \in Seq(Calls)
      BY <3>1 DEF Entry, Calls, TellCall
    <3>4. owed' \in [Threads -> Seq(Calls)] /\ inside' \subseteq Threads
      BY <2>8, <3>3, OweType DEF askForInput
    <3>5. QED BY <2>8, <3>2, <3>4 DEF askForInput
  <2>9. ASSUME NEW th \in Threads, Deliver(th) PROVE TypeOK'
    <3>1. owed[th] # <<>> /\ owed' = [owed EXCEPT ![th] = Tail(@)]
      BY <2>9 DEF Deliver, tell, CallOnAnswered, CallObserver, NextCall
    <3>2. Head(owed[th]) \in Calls /\ Tail(owed[th]) \in Seq(Calls)
      BY <3>1
    <3>3. owed' \in [Threads -> Seq(Calls)] /\ inside' \subseteq Threads
      BY <2>9, <3>1, <3>2 DEF Deliver, tell, CallOnAnswered, CallObserver, NextCall
    <3>4. CASE tell(th)
      BY <3>2, <3>3, <3>4, CallFields DEF tell, NextCall
    <3>5. CASE CallOnAnswered(th)
      BY <3>2, <3>3, <3>5, CallFields DEF CallOnAnswered, NextCall
    <3>6. CASE CallObserver(th)
      BY <3>2, <3>3, <3>6, CallFields DEF CallObserver, NextCall
    <3>7. QED BY <2>9, <3>4, <3>5, <3>6 DEF Deliver
  <2>10. ASSUME NEW t \in Tasks, DeadlinePasses(t) PROVE TypeOK'
    BY <2>10 DEF DeadlinePasses
  <2>11. CASE UNCHANGED vars
    BY <2>11 DEF vars
  <2>12. QED
    BY <2>1, <2>2, <2>3, <2>4, <2>5, <2>6, <2>7, <2>8, <2>9, <2>10, <2>11 DEF Next
<1>3. QED BY <1>1, <1>2, PTL DEF Spec

-----------------------------------------------------------------------------
(* Input bookkeeping. *)

\* Each thing the operations make of an entry keeps its input fields in step.
LEMMA AnsweredInput ==
  ASSUME NEW e \in Entry, NEW ks \in SUBSET Keys, InputOK(e)
  PROVE  InputOK(Answered(e, ks))
<1> DEFINE f == Answered(e, ks)
<1>1. /\ f.outstanding = Left(e, ks)
      /\ f.on_answered = IF Left(e, ks) = {} THEN {} ELSE e.on_answered
      /\ f.status = IF Left(e, ks) = {} /\ Changed(e, ks) THEN "working" ELSE e.status
      /\ f.asked = IF Changed(e, ks) THEN e.asked \cap Left(e, ks) ELSE e.asked
      /\ f.used_keys = e.used_keys
  BY DEF Entry, Answered
<1>2. Left(e, ks) \subseteq e.outstanding
  BY DEF Left
<1>3. CASE Left(e, ks) = {}
  BY <1>1, <1>3 DEF InputOK, Changed
<1>4. CASE Left(e, ks) # {}
  <2>1. Changed(e, ks) /\ e.status = "input_required"
    BY <1>2, <1>4 DEF Changed, InputOK
  <2>2. QED BY <1>1, <1>2, <1>4, <2>1 DEF InputOK
<1>5. QED BY <1>3, <1>4

LEMMA FinishedInput ==
  ASSUME NEW e \in Entry, NEW s \in Terminal, InputOK(e)
  PROVE  InputOK(Finished(e, s))
BY DEF Entry, Finished, InputOK, Terminal

LEMMA CancelledInput ==
  ASSUME NEW e \in Entry, InputOK(e)
  PROVE  InputOK(Cancelled(e))
<1> DEFINE f == Finished(e, "cancelled")
<1>1. f \in Entry /\ InputOK(f)
  BY FinishedType, FinishedInput DEF Terminal, Status
<1>2. QED BY <1>1 DEF Cancelled, InputOK, Entry

LEMMA AskedInput ==
  ASSUME NEW e \in Entry, NEW ks \in SUBSET Keys, InputOK(e),
         e.outstanding = {}, ks # {}
  PROVE  InputOK(Asked(e, ks))
BY DEF Entry, Asked, InputOK

LEMMA TouchInput ==
  ASSUME NEW e \in Entry, InputOK(e)
  PROVE  InputOK(touch(e))
BY DEF Entry, touch, InputOK

LEMMA WatchedInput ==
  ASSUME NEW e \in Entry, NEW o \in Observers, InputOK(e)
  PROVE  InputOK(Watched(e, o))
BY DEF Entry, Watched, InputOK

\* A step that puts a good entry in the place of one task's keeps the rest.
LEMMA OneEntryInput ==
  ASSUME TypeOK, InputConsistent, drawn' = drawn, NEW t \in Tasks,
         NEW e \in Entry, t \in drawn => InputOK(e),
         entry' = [entry EXCEPT ![t] = e]
  PROVE  InputConsistent'
BY DEF TypeOK, InputConsistent

LEMMA InputStep == TypeOK /\ InputConsistent /\ [Next]_vars => InputConsistent'
<1> SUFFICES ASSUME TypeOK, InputConsistent, [Next]_vars PROVE InputConsistent'
  OBVIOUS
<1>0. \A t \in drawn : t \in Tasks /\ entry[t] \in Entry /\ InputOK(entry[t])
  BY DEF TypeOK, InputConsistent
<1>1. ASSUME NEW th \in Threads, NEW owner \in Owners, create(th, owner)
      PROVE  InputConsistent'
  <2>1. InputOK(NewEntry(owner))
    BY DEF NewEntry, InputOK
  <2>2. QED BY <1>1, <2>1 DEF create, InputConsistent, TypeOK
<1>2. ASSUME NEW th \in Threads, NEW owner \in Owners, NEW t \in Tasks,
             NEW ks \in SUBSET Keys, update(th, owner, t, ks)
      PROVE  InputConsistent'
  <2> DEFINE e == Answered(entry[t], ks)
             f == IF Changed(entry[t], ks) THEN touch(e) ELSE e
  <2>1. t \in drawn /\ drawn' = drawn /\ entry' = [entry EXCEPT ![t] = f]
    BY <1>2 DEF update, find, TypeOK
  <2>2. e \in Entry /\ InputOK(e)
    BY <1>0, <2>1, AnsweredType, AnsweredInput
  <2>3. f \in Entry /\ InputOK(f)
    BY <2>2, TouchType, TouchInput
  <2>4. QED BY <2>1, <2>3, OneEntryInput
<1>3. ASSUME NEW th \in Threads, NEW owner \in Owners, NEW t \in Tasks,
             cancel(th, owner, t)
      PROVE  InputConsistent'
  <2> DEFINE e == Cancelled(entry[t])
  <2>1. t \in drawn /\ drawn' = drawn /\ entry' = [entry EXCEPT ![t] = touch(e)]
    BY <1>3 DEF cancel, find, TypeOK
  <2>2. e \in Entry /\ InputOK(e)
    BY <1>0, <2>1, CancelledType, CancelledInput
  <2>3. QED BY <2>1, <2>2, TouchType, TouchInput, OneEntryInput
<1>4. ASSUME NEW th \in Threads, sweep(th) PROVE InputConsistent'
  BY <1>4 DEF sweep, InputConsistent
<1>5. ASSUME NEW th \in Threads, NEW t \in Tasks, NEW o \in Observers,
             onCancelled(th, t, o)
      PROVE  InputConsistent'
  <2>1. t \in drawn /\ drawn' = drawn
    BY <1>5 DEF onCancelled
  <2>2. Watched(entry[t], o) \in Entry /\ InputOK(Watched(entry[t], o))
    BY <1>0, <2>1, WatchedType, WatchedInput
  <2>3. CASE entry' = [entry EXCEPT ![t] = Watched(entry[t], o)]
    BY <2>1, <2>2, <2>3, OneEntryInput
  <2>4. CASE entry' = entry
    BY <2>1, <2>4 DEF InputConsistent
  <2>5. QED BY <1>5, <2>3, <2>4 DEF onCancelled
<1>6. ASSUME NEW th \in Threads, NEW t \in Tasks, setStatusMessage(th, t)
      PROVE  InputConsistent'
  <2>1. t \in drawn /\ drawn' = drawn /\ entry' = [entry EXCEPT ![t] = touch(entry[t])]
    BY <1>6 DEF setStatusMessage, Unfinished, TypeOK
  <2>2. QED BY <1>0, <2>1, TouchType, TouchInput, OneEntryInput
<1>7. ASSUME NEW th \in Threads, NEW t \in Tasks, NEW s \in {"completed", "failed"},
             finish(th, t, s)
      PROVE  InputConsistent'
  <2> DEFINE e == Finished(entry[t], s)
  <2>1. t \in drawn /\ drawn' = drawn /\ entry' = [entry EXCEPT ![t] = touch(e)]
    BY <1>7 DEF finish, Unfinished, TypeOK
  <2>2. s \in Status /\ s \in Terminal
    BY DEF Status, Terminal
  <2>3. e \in Entry /\ InputOK(e)
    BY <1>0, <2>1, <2>2, FinishedType, FinishedInput
  <2>4. QED BY <2>1, <2>3, TouchType, TouchInput, OneEntryInput
<1>8. ASSUME NEW th \in Threads, NEW t \in Tasks, NEW ks \in SUBSET Keys,
             askForInput(th, t, ks)
      PROVE  InputConsistent'
  <2> DEFINE e == Asked(entry[t], ks)
  <2>1. /\ t \in drawn /\ drawn' = drawn /\ entry' = [entry EXCEPT ![t] = touch(e)]
        /\ ks # {} /\ entry[t].outstanding = {}
    BY <1>8 DEF askForInput, Unfinished, TypeOK
  <2>2. e \in Entry /\ InputOK(e)
    BY <1>0, <2>1, AskedType, AskedInput
  <2>3. QED BY <2>1, <2>2, TouchType, TouchInput, OneEntryInput
<1>9. ASSUME UNCHANGED <<drawn, entry>> PROVE InputConsistent'
  BY <1>9 DEF InputConsistent
<1>10. ASSUME NEW th \in Threads, Deliver(th) PROVE UNCHANGED <<drawn, entry>>
  BY <1>10 DEF Deliver, tell, CallOnAnswered, CallObserver
<1>11. ASSUME NEW t \in Tasks, DeadlinePasses(t) PROVE UNCHANGED <<drawn, entry>>
  BY <1>11 DEF DeadlinePasses
<1>12. CASE UNCHANGED vars
  BY <1>9, <1>12 DEF vars
<1>13. QED
  BY <1>1, <1>2, <1>3, <1>4, <1>5, <1>6, <1>7, <1>8, <1>9, <1>10, <1>11, <1>12 DEF Next

\* Whatever order requests and work reach a task in, it waits for input exactly
\* while a question of its own is unanswered, and shows exactly what is
\* unanswered (update, cancel, finish and askForInput of task_store.cc).
THEOREM InputCorrect == Spec => []InputConsistent
<1>1. Init => InputConsistent
  BY DEF Init, InputConsistent
<1>2. QED BY <1>1, InputStep, TypeCorrect, PTL DEF Spec

\* Both hold of every reachable state: what the store shows a polling client of
\* a task agrees with the questions and calls the handlers left behind.
THEOREM StoreCorrect == Spec => []TasksSound
BY TypeCorrect, InputCorrect, PTL DEF TasksSound

-----------------------------------------------------------------------------
(* A finished task stays as it is. *)

\* Only tasks that are not final have anything outstanding.
LEMMA FinalHasNothingOutstanding ==
  ASSUME TypeOK, InputConsistent, NEW t \in drawn, isTerminal(entry[t].status)
  PROVE  entry[t].outstanding = {}
BY DEF InputConsistent, InputOK, isTerminal, Terminal

\* A step that changes no entry, or that of one unfinished task, or puts a new
\* entry where none is held, leaves every finished task alone.
LEMMA OtherEntriesKept ==
  ASSUME TypeOK, InputConsistent, NEW t \in Tasks, NEW e,
         t \notin held \/ ~isTerminal(entry[t].status),
         entry' = [entry EXCEPT ![t] = e]
  PROVE  FinalStep
<1> SUFFICES ASSUME NEW u \in held, isTerminal(entry[u].status)
             PROVE  entry'[u] = entry[u] /\ entry[u].outstanding = {}
  BY DEF FinalStep
<1>1. u \in Tasks /\ u \in drawn /\ u # t
  BY DEF TypeOK
<1>2. QED BY <1>1, FinalHasNothingOutstanding DEF TypeOK

\* Once a task has finished or been cancelled no request, no work and no
\* deadline changes it, for any number of threads: finish(), cancel(),
\* setStatusMessage(), askForInput() and update() of task_store.cc.
THEOREM FinalCorrect == Spec => FinalIsFinal
<1>1. TypeOK /\ InputConsistent /\ [Next]_vars => [FinalStep]_vars
  <2> SUFFICES ASSUME TypeOK, InputConsistent, Next PROVE FinalStep
    OBVIOUS
  <2>1. ASSUME entry' = entry PROVE FinalStep
    <3> SUFFICES ASSUME NEW u \in held, isTerminal(entry[u].status)
                 PROVE  entry'[u] = entry[u] /\ entry[u].outstanding = {}
      BY DEF FinalStep
    <3>1. QED BY <2>1, FinalHasNothingOutstanding DEF TypeOK
  <2>2. ASSUME NEW th \in Threads, NEW owner \in Owners, create(th, owner)
        PROVE  FinalStep
    <3>1. CASE entry' = entry
      BY <2>1, <3>1
    <3>2. CASE \E t \in Tasks \ drawn : entry' = [entry EXCEPT ![t] = NewEntry(owner)]
      BY <3>2, OtherEntriesKept DEF TypeOK
    <3>3. QED BY <2>2, <3>1, <3>2 DEF create
  <2>3. ASSUME NEW th \in Threads, NEW owner \in Owners, NEW t \in Tasks,
               NEW ks \in SUBSET Keys, update(th, owner, t, ks)
        PROVE  FinalStep
    <3> DEFINE e == IF Changed(entry[t], ks) THEN touch(Answered(entry[t], ks))
                                             ELSE Answered(entry[t], ks)
    <3>1. /\ t \in drawn /\ entry[t].outstanding # {}
          /\ entry' = [entry EXCEPT ![t] = e]
      BY <2>3 DEF update, find, TypeOK
    <3>2. ~isTerminal(entry[t].status)
      BY <3>1, FinalHasNothingOutstanding
    <3>3. QED BY <3>1, <3>2, OtherEntriesKept
  <2>4. ASSUME NEW th \in Threads, NEW owner \in Owners, NEW t \in Tasks,
               cancel(th, owner, t)
        PROVE  FinalStep
    BY <2>4, OtherEntriesKept DEF cancel
  <2>5. ASSUME NEW th \in Threads, sweep(th) PROVE FinalStep
    BY <2>1, <2>5 DEF sweep
  <2>6. ASSUME NEW th \in Threads, NEW t \in Tasks, NEW o \in Observers,
               onCancelled(th, t, o)
        PROVE  FinalStep
    <3>1. CASE entry' = entry
      BY <2>1, <3>1
    <3>2. CASE entry' = [entry EXCEPT ![t] = Watched(entry[t], o)]
      <4>1. entry[t] \in Entry
        BY DEF TypeOK
      <4>2. /\ Watched(entry[t], o).status = entry[t].status
            /\ Watched(entry[t], o).updated = entry[t].updated
            /\ Watched(entry[t], o).outstanding = entry[t].outstanding
        BY <4>1 DEF Watched, Entry
      <4>3. QED BY <3>2, <4>2, FinalHasNothingOutstanding DEF FinalStep, TypeOK
    <3>3. QED BY <2>6, <3>1, <3>2 DEF onCancelled
  <2>7. ASSUME NEW th \in Threads, NEW t \in Tasks, setStatusMessage(th, t)
        PROVE  FinalStep
    BY <2>7, OtherEntriesKept DEF setStatusMessage, Unfinished
  <2>8. ASSUME NEW th \in Threads, NEW t \in Tasks, NEW s \in {"completed", "failed"},
               finish(th, t, s)
        PROVE  FinalStep
    BY <2>8, OtherEntriesKept DEF finish, Unfinished
  <2>9. ASSUME NEW th \in Threads, NEW t \in Tasks, NEW ks \in SUBSET Keys,
               askForInput(th, t, ks)
        PROVE  FinalStep
    BY <2>9, OtherEntriesKept DEF askForInput, Unfinished
  <2>10. ASSUME NEW th \in Threads, Deliver(th) PROVE FinalStep
    BY <2>1, <2>10 DEF Deliver, tell, CallOnAnswered, CallObserver
  <2>11. ASSUME NEW t \in Tasks, DeadlinePasses(t) PROVE FinalStep
    BY <2>1, <2>11 DEF DeadlinePasses
  <2>12. QED
    BY <2>2, <2>3, <2>4, <2>5, <2>6, <2>7, <2>8, <2>9, <2>10, <2>11 DEF Next
<1>2. QED BY <1>1, TypeCorrect, InputCorrect, PTL DEF Spec, FinalIsFinal

-----------------------------------------------------------------------------
(* The share of a caller. *)

\* What one caller holds among the tasks in S.
Mine(S, E, o) == {t \in S : E[t].owner = o}

\* Only create() gives a task an owner; nothing else changes it.
LEMMA OwnersKept ==
  ASSUME TypeOK, NEW th \in Threads,
         \/ \E owner \in Owners, t \in Tasks, ks \in SUBSET Keys : update(th, owner, t, ks)
         \/ \E owner \in Owners, t \in Tasks : cancel(th, owner, t)
         \/ \E t \in Tasks, o \in Observers : onCancelled(th, t, o)
         \/ \E t \in Tasks : setStatusMessage(th, t)
         \/ \E t \in Tasks, s \in {"completed", "failed"} : finish(th, t, s)
         \/ \E t \in Tasks, ks \in SUBSET Keys : askForInput(th, t, ks)
  PROVE  held' = held /\ \A t \in Tasks : entry'[t].owner = entry[t].owner
<1>1. \A e \in Entry :
        /\ touch(e).owner = e.owner
        /\ \A ks \in SUBSET Keys : Answered(e, ks).owner = e.owner
        /\ \A s \in Status : Finished(e, s).owner = e.owner
        /\ \A o \in Observers : Watched(e, o).owner = e.owner
        /\ \A ks \in SUBSET Keys : Asked(e, ks).owner = e.owner
  BY DEF Entry, touch, Answered, Finished, Watched, Asked
<1>2. \A e \in Entry : Cancelled(e).owner = e.owner
  <2> SUFFICES ASSUME NEW e \in Entry PROVE Cancelled(e).owner = e.owner
    OBVIOUS
  <2>1. Finished(e, "cancelled") \in Entry /\ Finished(e, "cancelled").owner = e.owner
    BY <1>1, FinishedType DEF Status
  <2>2. \A f \in Entry :
          [f EXCEPT !.cancel_requested = TRUE, !.on_cancelled = <<>>].owner = f.owner
    BY DEF Entry
  <2>3. QED BY <2>1, <2>2 DEF Cancelled
<1>3. ASSUME NEW t \in Tasks, NEW e, e.owner = entry[t].owner,
             entry' = [entry EXCEPT ![t] = e]
      PROVE  \A u \in Tasks : entry'[u].owner = entry[u].owner
  BY <1>3 DEF TypeOK
<1>4. \A t \in Tasks : entry[t] \in Entry
  BY DEF TypeOK
<1>5. ASSUME NEW owner \in Owners, NEW t \in Tasks, NEW ks \in SUBSET Keys,
             update(th, owner, t, ks)
      PROVE  \A u \in Tasks : entry'[u].owner = entry[u].owner
  <2> DEFINE e == Answered(entry[t], ks)
             f == IF Changed(entry[t], ks) THEN touch(e) ELSE e
  <2>1. entry' = [entry EXCEPT ![t] = f]
    BY <1>5 DEF update
  <2>2. e \in Entry /\ f.owner = entry[t].owner
    BY <1>1, <1>4, AnsweredType
  <2>3. QED BY <1>3, <2>1, <2>2
<1>6. ASSUME NEW owner \in Owners, NEW t \in Tasks, cancel(th, owner, t)
      PROVE  \A u \in Tasks : entry'[u].owner = entry[u].owner
  <2>1. touch(Cancelled(entry[t])).owner = entry[t].owner
    BY <1>1, <1>2, <1>4, CancelledType
  <2>2. QED BY <1>3, <1>6, <2>1 DEF cancel
<1>7. ASSUME NEW t \in Tasks, NEW o \in Observers, onCancelled(th, t, o)
      PROVE  \A u \in Tasks : entry'[u].owner = entry[u].owner
  <2>1. Watched(entry[t], o).owner = entry[t].owner
    BY <1>1, <1>4
  <2>2. CASE entry' = [entry EXCEPT ![t] = Watched(entry[t], o)]
    BY <1>3, <2>1, <2>2
  <2>3. QED BY <1>7, <2>2 DEF onCancelled
<1>8. ASSUME NEW t \in Tasks, setStatusMessage(th, t)
      PROVE  \A u \in Tasks : entry'[u].owner = entry[u].owner
  <2>1. touch(entry[t]).owner = entry[t].owner
    BY <1>1, <1>4
  <2>2. QED BY <1>3, <1>8, <2>1 DEF setStatusMessage
<1>9. ASSUME NEW t \in Tasks, NEW s \in {"completed", "failed"}, finish(th, t, s)
      PROVE  \A u \in Tasks : entry'[u].owner = entry[u].owner
  <2>1. s \in Status /\ Finished(entry[t], s) \in Entry
    BY <1>4, FinishedType DEF Status
  <2>2. touch(Finished(entry[t], s)).owner = entry[t].owner
    BY <1>1, <1>4, <2>1
  <2>3. QED BY <1>3, <1>9, <2>2 DEF finish
<1>10. ASSUME NEW t \in Tasks, NEW ks \in SUBSET Keys, askForInput(th, t, ks)
       PROVE  \A u \in Tasks : entry'[u].owner = entry[u].owner
  <2>1. touch(Asked(entry[t], ks)).owner = entry[t].owner
    BY <1>1, <1>4, AskedType
  <2>2. QED BY <1>3, <1>10, <2>1 DEF askForInput
<1>11. held' = held
  BY DEF update, cancel, onCancelled, setStatusMessage, finish, askForInput
<1>12. QED BY <1>5, <1>6, <1>7, <1>8, <1>9, <1>10, <1>11

\* Holding less is holding no more.
LEMMA FewerHeld ==
  ASSUME TypeOK, WithinShare, held' \subseteq held,
         \A t \in held : entry'[t].owner = entry[t].owner
  PROVE  WithinShare'
<1> SUFFICES ASSUME NEW o \in Owners
             PROVE  Cardinality(Mine(held', entry', o)) <= MaxPerCaller
  BY DEF WithinShare, Mine
<1>1. IsFiniteSet(Mine(held, entry, o))
  BY ConfigAssumption, FS_Subset DEF TypeOK, Mine
<1>2. Mine(held', entry', o) \subseteq Mine(held, entry, o)
  BY DEF Mine
<1>3. /\ Cardinality(Mine(held', entry', o)) <= Cardinality(Mine(held, entry, o))
      /\ Cardinality(Mine(held', entry', o)) \in Nat
      /\ Cardinality(Mine(held, entry, o)) \in Nat
  BY <1>1, <1>2, FS_Subset, FS_CardinalityType
<1>4. Cardinality(Mine(held, entry, o)) <= MaxPerCaller
  BY DEF WithinShare, Mine
<1>5. QED BY <1>3, <1>4, ConfigAssumption

LEMMA ShareStep == TypeOK /\ WithinShare /\ [Next]_vars => WithinShare'
<1> SUFFICES ASSUME TypeOK, WithinShare, [Next]_vars PROVE WithinShare'
  OBVIOUS
<1>1. ASSUME NEW th \in Threads, NEW owner \in Owners, create(th, owner)
      PROVE  WithinShare'
  <2>1. CASE held' = sweepLocked /\ entry' = entry
    BY <2>1, FewerHeld DEF sweepLocked
  <2>2. ASSUME NEW t \in Tasks \ drawn, held' = sweepLocked \cup {t},
               entry' = [entry EXCEPT ![t] = NewEntry(owner)],
               Cardinality({u \in sweepLocked : entry[u].owner = owner}) < MaxPerCaller
        PROVE  WithinShare'
    <3> SUFFICES ASSUME NEW o \in Owners
                 PROVE  Cardinality(Mine(held', entry', o)) <= MaxPerCaller
      BY DEF WithinShare, Mine
    <3>1. IsFiniteSet(Mine(held, entry, o)) /\ IsFiniteSet(Mine(sweepLocked, entry, o))
      BY ConfigAssumption, FS_Subset DEF TypeOK, Mine, sweepLocked
    <3>2. /\ Cardinality(Mine(sweepLocked, entry, o)) <= Cardinality(Mine(held, entry, o))
          /\ Cardinality(Mine(sweepLocked, entry, o)) \in Nat
          /\ Cardinality(Mine(held, entry, o)) \in Nat
      <4>1. Mine(sweepLocked, entry, o) \subseteq Mine(held, entry, o)
        BY DEF Mine, sweepLocked
      <4>2. QED BY <3>1, <4>1, FS_Subset, FS_CardinalityType
    <3>3. Cardinality(Mine(held, entry, o)) <= MaxPerCaller
      BY DEF WithinShare, Mine
    <3>4. t \notin sweepLocked /\ sweepLocked \subseteq Tasks
      BY DEF TypeOK, sweepLocked
    <3>5. /\ \A u \in sweepLocked : entry'[u] = entry[u]
          /\ entry'[t].owner = owner
      BY <2>2, <3>4 DEF TypeOK, NewEntry
    <3>6. CASE o = owner
      <4>1. Mine(held', entry', o) = Mine(sweepLocked, entry, o) \cup {t}
        BY <2>2, <3>5, <3>6 DEF Mine
      <4>2. t \notin Mine(sweepLocked, entry, o)
        BY <3>4 DEF Mine
      <4>3. Cardinality(Mine(held', entry', o)) = Cardinality(Mine(sweepLocked, entry, o)) + 1
        BY <3>1, <4>1, <4>2, FS_AddElement
      <4>4. Cardinality(Mine(sweepLocked, entry, o)) < MaxPerCaller
        BY <2>2, <3>6 DEF Mine
      <4>5. QED BY <3>2, <4>3, <4>4, ConfigAssumption
    <3>7. CASE o # owner
      <4>1. Mine(held', entry', o) = Mine(sweepLocked, entry, o)
        BY <2>2, <3>5, <3>7 DEF Mine
      <4>2. QED BY <3>2, <3>3, <4>1, ConfigAssumption
    <3>8. QED BY <3>6, <3>7
  <2>3. QED BY <1>1, <2>1, <2>2 DEF create
<1>2. ASSUME NEW th \in Threads, sweep(th) PROVE WithinShare'
  BY <1>2, FewerHeld DEF sweep, sweepLocked
<1>3. ASSUME held' = held, \A t \in Tasks : entry'[t].owner = entry[t].owner
      PROVE  WithinShare'
  BY <1>3, FewerHeld DEF TypeOK
<1>4. ASSUME NEW th \in Threads, Deliver(th) PROVE held' = held /\ entry' = entry
  BY <1>4 DEF Deliver, tell, CallOnAnswered, CallObserver
<1>5. ASSUME NEW t \in Tasks, DeadlinePasses(t) PROVE held' = held /\ entry' = entry
  BY <1>5 DEF DeadlinePasses
<1>6. CASE UNCHANGED vars
  BY <1>3, <1>6 DEF vars
<1>7. QED BY <1>1, <1>2, <1>3, <1>4, <1>5, <1>6, OwnersKept DEF Next

\* However its tasks end, expire or are swept, a caller never holds more than
\* max_per_caller of them at a time (create() and sweepLocked() of task_store.cc).
THEOREM ShareCorrect == Spec => []WithinShare
<1>1. Init => WithinShare
  <2> SUFFICES ASSUME Init, NEW o \in Owners
               PROVE  Cardinality(Mine(held, entry, o)) <= MaxPerCaller
    BY DEF WithinShare, Mine
  <2>1. Mine(held, entry, o) = {}
    BY DEF Init, Mine
  <2>2. QED BY <2>1, FS_EmptySet, ConfigAssumption
<1>2. QED BY <1>1, ShareStep, TypeCorrect, PTL DEF Spec

-----------------------------------------------------------------------------
(* Answers and the questions that asked for them. *)

IsAnswer(O, th, i) == i \in DOMAIN O[th] /\ O[th][i].call = "answer"

\* What was answered was asked, and is outstanding no longer; a task not yet
\* created has asked nothing.
AnsweredKeys ==
  \A t \in Tasks :
    /\ answered[t] \subseteq entry[t].used_keys
    /\ answered[t] \cap entry[t].outstanding = {}
    /\ t \notin drawn => entry[t].used_keys = {}

\* Each answer on its way, and any two of them, as AnswersFindTheirQuestion says.
OneAnswer(c, E, A) ==
  /\ c.task \in Tasks
  /\ c.keys # {}
  /\ c.keys \subseteq c.asker
  /\ c.asker \subseteq E[c.task].used_keys
  /\ c.keys \cap A[c.task] = {}
  /\ c.keys \cap E[c.task].outstanding = {}

EachAnswer == \A th \in Threads : \A i \in DOMAIN owed[th] :
                IsAnswer(owed, th, i) => OneAnswer(owed[th][i], entry, answered)

NoTwo == \A th, ot \in Threads : \A i \in DOMAIN owed[th], j \in DOMAIN owed[ot] :
           (/\ IsAnswer(owed, th, i) /\ IsAnswer(owed, ot, j)
            /\ <<ot, j>> # <<th, i>> /\ owed[ot][j].task = owed[th][i].task)
             => owed[th][i].keys \cap owed[ot][j].keys = {}

AnswersSound == AnsweredKeys /\ EachAnswer /\ NoTwo

LEMMA AnswersSoundIsEnough ==
  ASSUME TypeOK
  PROVE  AnswersSound => AnswersFindTheirQuestion
<1> SUFFICES ASSUME AnswersSound PROVE AnswerReachesAsker /\ AnsweredOnce
  BY DEF AnswersFindTheirQuestion
<1>1. \A th \in Threads : \A i \in DOMAIN owed[th] :
        owed[th][i].call = "answer" => OneAnswer(owed[th][i], entry, answered)
  BY DEF AnswersSound, EachAnswer, IsAnswer
<1>2. AnswerReachesAsker
  BY <1>1 DEF AnswerReachesAsker, OneAnswer
<1>3. AnsweredOnce
  BY <1>1 DEF AnsweredOnce, OneAnswer, AnswersSound, NoTwo, IsAnswer
<1>4. QED BY <1>2, <1>3

\* An answer owed after the step was owed before it, at the same distance from
\* the end of its thread's calls: d is what came in front.
Shifted(d) ==
  \A th \in Threads : \A i \in DOMAIN owed'[th] :
    IsAnswer(owed', th, i) =>
      i - d[th] \in DOMAIN owed[th] /\ owed'[th][i] = owed[th][i - d[th]]

\* Keys are spoken for once, and only keys that are new become outstanding.
EntriesGrow ==
  \A t \in Tasks :
    /\ entry[t].used_keys \subseteq entry'[t].used_keys
    /\ entry'[t].outstanding \cap entry[t].used_keys \subseteq entry[t].outstanding
    /\ t \notin drawn' => t \notin drawn /\ entry'[t].used_keys = entry[t].used_keys

\* Then what was sound stays so.
LEMMA AnswersKept ==
  ASSUME TypeOK, TypeOK', AnswersSound, answered' = answered, EntriesGrow,
         NEW d \in [Threads -> Int], Shifted(d)
  PROVE  AnswersSound'
<1>1. \A th \in Threads : DOMAIN owed[th] \subseteq Nat /\ DOMAIN owed'[th] \subseteq Nat
  <2>1. \A th \in Threads : owed[th] \in Seq(Calls) /\ owed'[th] \in Seq(Calls)
    BY DEF TypeOK
  <2>2. QED BY <2>1
<1>2. AnsweredKeys'
  BY DEF AnswersSound, AnsweredKeys, EntriesGrow
<1>3. ASSUME NEW th \in Threads, NEW i \in DOMAIN owed'[th], IsAnswer(owed', th, i)
      PROVE  /\ i - d[th] \in DOMAIN owed[th]
             /\ owed'[th][i] = owed[th][i - d[th]]
             /\ IsAnswer(owed, th, i - d[th])
             /\ OneAnswer(owed'[th][i], entry, answered)
  <2>1. i - d[th] \in DOMAIN owed[th] /\ owed'[th][i] = owed[th][i - d[th]]
    BY <1>3 DEF Shifted
  <2>2. QED BY <1>3, <2>1 DEF AnswersSound, EachAnswer, IsAnswer
<1>4. EachAnswer'
  <2> SUFFICES ASSUME NEW th \in Threads, NEW i \in DOMAIN owed'[th], IsAnswer(owed', th, i)
               PROVE  OneAnswer(owed'[th][i], entry', answered')
    BY DEF EachAnswer
  <2> DEFINE c == owed'[th][i]
  <2> HIDE DEF c
  <2>1. OneAnswer(c, entry, answered)
    BY <1>3 DEF c
  <2>2. OneAnswer(c, entry', answered')
    BY <2>1 DEF OneAnswer, EntriesGrow
  <2>3. QED BY <2>2 DEF c
<1>5. NoTwo'
  <2> SUFFICES ASSUME NEW th \in Threads, NEW ot \in Threads,
                      NEW i \in DOMAIN owed'[th], NEW j \in DOMAIN owed'[ot],
                      IsAnswer(owed', th, i), IsAnswer(owed', ot, j),
                      <<ot, j>> # <<th, i>>, owed'[ot][j].task = owed'[th][i].task
               PROVE  owed'[th][i].keys \cap owed'[ot][j].keys = {}
    BY DEF NoTwo
  <2>1. /\ i - d[th] \in DOMAIN owed[th] /\ owed'[th][i] = owed[th][i - d[th]]
        /\ IsAnswer(owed, th, i - d[th])
        /\ j - d[ot] \in DOMAIN owed[ot] /\ owed'[ot][j] = owed[ot][j - d[ot]]
        /\ IsAnswer(owed, ot, j - d[ot])
    BY <1>3
  <2>2. ot # th \/ j - d[ot] # i - d[th]
    <3>1. ot # th \/ j # i
      OBVIOUS
    <3>2. i \in Int /\ j \in Int /\ d[th] \in Int
      BY <1>1
    <3>3. QED BY <3>1, <3>2
  <2>3. QED BY <2>1, <2>2 DEF AnswersSound, NoTwo
<1>6. QED BY <1>2, <1>4, <1>5 DEF AnswersSound

\* The calls put in front hold no answer: what is owed has moved back.
LEMMA OweShifts ==
  ASSUME TypeOK, NEW th \in Threads, NEW calls \in Seq(Calls), Owe(th, calls),
         \A i \in 1..Len(calls) : calls[i].call # "answer"
  PROVE  \E d \in [Threads -> Int] : Shifted(d)
<1> DEFINE d == [x \in Threads |-> IF x = th THEN Len(calls) ELSE 0]
<1>1. \A x \in Threads : owed[x] \in Seq(Calls)
  BY DEF TypeOK
<1>2. d \in [Threads -> Int]
  OBVIOUS
<1>3. ASSUME NEW x \in Threads, NEW i \in DOMAIN owed'[x], IsAnswer(owed', x, i)
      PROVE  i - d[x] \in DOMAIN owed[x] /\ owed'[x][i] = owed[x][i - d[x]]
  <2>1. CASE x = th
    <3>1. owed'[x] = calls \o owed[x]
      BY <1>1, <2>1 DEF Owe, TypeOK
    <3>2. owed[x] \in Seq(Calls)
      BY <1>1
    <3>3. /\ Len(calls) \in Nat /\ Len(owed[x]) \in Nat
          /\ DOMAIN owed'[x] = 1..(Len(calls) + Len(owed[x]))
          /\ DOMAIN owed[x] = 1..Len(owed[x])
      BY <3>1, <3>2
    <3>4. i \in 1..(Len(calls) + Len(owed[x]))
      BY <3>3
    <3>5. owed'[x][i] = IF i <= Len(calls) THEN calls[i] ELSE owed[x][i - Len(calls)]
      BY <3>1, <3>2, <3>4
    <3>6. ~(i <= Len(calls))
      BY <1>3, <3>4, <3>5, <3>3 DEF IsAnswer
    <3>7. QED BY <2>1, <3>3, <3>4, <3>5, <3>6
  <2>2. CASE x # th
    <3>1. owed'[x] = owed[x] /\ d[x] = 0
      BY <2>2 DEF Owe, TypeOK
    <3>2. DOMAIN owed[x] = 1..Len(owed[x]) /\ Len(owed[x]) \in Nat
      BY <1>1
    <3>3. i \in 1..Len(owed[x])
      BY <3>1, <3>2
    <3>4. i - d[x] = i
      BY <3>1, <3>2, <3>3
    <3>5. QED BY <3>1, <3>2, <3>3, <3>4
  <2>3. QED BY <2>1, <2>2
<1>4. Shifted(d)
  BY <1>3 DEF Shifted
<1>5. QED BY <1>2, <1>4

\* Nothing put in front, nothing moves.
LEMMA StaysPut ==
  ASSUME TypeOK, owed' = owed
  PROVE  \E d \in [Threads -> Int] : Shifted(d)
<1> DEFINE d == [x \in Threads |-> 0]
<1>1. \A x \in Threads : DOMAIN owed[x] \subseteq Int
  <2>1. \A x \in Threads : owed[x] \in Seq(Calls)
    BY DEF TypeOK
  <2>2. QED BY <2>1
<1>2. d \in [Threads -> Int]
  OBVIOUS
<1>3. \A x \in Threads : \A i \in DOMAIN owed[x] : i - d[x] = i
  BY <1>1
<1>4. Shifted(d)
  BY <1>3 DEF Shifted
<1>5. QED BY <1>2, <1>4

\* A call that is made leaves the front.
LEMMA CallShifts ==
  ASSUME TypeOK, NEW th \in Threads, NEW k, NextCall(th, k)
  PROVE  Shifted([x \in Threads |-> IF x = th THEN 0 - 1 ELSE 0])
<1> DEFINE d == [x \in Threads |-> IF x = th THEN 0 - 1 ELSE 0]
<1>1. \A x \in Threads : owed[x] \in Seq(Calls)
  BY DEF TypeOK
<1>2. ASSUME NEW x \in Threads, NEW i \in DOMAIN owed'[x]
      PROVE  i - d[x] \in DOMAIN owed[x] /\ owed'[x][i] = owed[x][i - d[x]]
  <2>1. CASE x = th
    <3>1. owed'[x] = Tail(owed[x]) /\ owed[x] # <<>> /\ owed[x] \in Seq(Calls)
      BY <1>1, <2>1 DEF NextCall, TypeOK
    <3>2. i \in 1..(Len(owed[x]) - 1) /\ Len(owed[x]) \in Nat
      BY <3>1
    <3>3. i - d[x] = i + 1
      BY <2>1, <3>2
    <3>4. QED BY <3>1, <3>2, <3>3
  <2>2. CASE x # th
    <3>1. owed'[x] = owed[x] /\ owed[x] \in Seq(Calls)
      BY <1>1, <2>2 DEF NextCall, TypeOK
    <3>2. i \in Nat
      BY <3>1
    <3>3. i - d[x] = i
      BY <2>2, <3>2
    <3>4. QED BY <3>1, <3>3
  <2>3. QED BY <2>1, <2>2
<1>3. QED BY <1>2 DEF Shifted

\* What an operation makes of one task's entry: its keys grow, and only keys
\* never used become outstanding.
LEMMA OneEntryGrows ==
  ASSUME TypeOK, NEW t \in Tasks, NEW e, entry' = [entry EXCEPT ![t] = e],
         drawn' = drawn, t \in drawn,
         entry[t].used_keys \subseteq e.used_keys,
         e.outstanding \cap entry[t].used_keys \subseteq entry[t].outstanding
  PROVE  EntriesGrow
<1>1. \A u \in Tasks : entry'[u] = IF u = t THEN e ELSE entry[u]
  BY DEF TypeOK
<1>2. QED BY <1>1 DEF EntriesGrow

\* What each operation does to the two fields.
LEMMA KeysOfEntries ==
  ASSUME NEW e \in Entry
  PROVE  /\ touch(e).used_keys = e.used_keys /\ touch(e).outstanding = e.outstanding
         /\ \A s \in Status : /\ Finished(e, s).used_keys = e.used_keys
                              /\ Finished(e, s).outstanding = {}
         /\ \A o \in Observers : /\ Watched(e, o).used_keys = e.used_keys
                                 /\ Watched(e, o).outstanding = e.outstanding
         /\ \A ks \in SUBSET Keys :
              /\ Asked(e, ks).used_keys = e.used_keys \cup ks
              /\ Asked(e, ks).outstanding = e.outstanding \cup ks
              /\ Answered(e, ks).used_keys = e.used_keys
              /\ Answered(e, ks).outstanding = e.outstanding \ ks
BY DEF Entry, touch, Finished, Watched, Asked, Answered, Left

LEMMA KeysOfCancelled ==
  ASSUME NEW e \in Entry
  PROVE  touch(Cancelled(e)).used_keys = e.used_keys /\ touch(Cancelled(e)).outstanding = {}
<1>1. "cancelled" \in Status
  BY DEF Status
<1>2. /\ Finished(e, "cancelled") \in Entry
      /\ Finished(e, "cancelled").used_keys = e.used_keys
      /\ Finished(e, "cancelled").outstanding = {}
  BY <1>1, FinishedType, KeysOfEntries
<1>3. \A f \in Entry :
        LET g == [f EXCEPT !.cancel_requested = TRUE, !.on_cancelled = <<>>]
        IN g.used_keys = f.used_keys /\ g.outstanding = f.outstanding
  BY DEF Entry
<1>4. Cancelled(e).used_keys = e.used_keys /\ Cancelled(e).outstanding = {}
  BY <1>2, <1>3 DEF Cancelled
<1>5. QED BY <1>4, CancelledType, KeysOfEntries

\* An operation that leaves one snapshot to tell.
LEMMA TellOnly ==
  ASSUME TypeOK, TypeOK', AnswersSound, NEW th \in Threads, NEW t \in Tasks,
         NEW e, entry' = [entry EXCEPT ![t] = e], drawn' = drawn, t \in drawn,
         answered' = answered,
         entry[t].used_keys \subseteq e.used_keys,
         e.outstanding \cap entry[t].used_keys \subseteq entry[t].outstanding,
         Owe(th, << TellCall(t, entry[t].updated + 1) >>)
  PROVE  AnswersSound'
<1>1. << TellCall(t, entry[t].updated + 1) >> \in Seq(Calls)
  BY DEF TypeOK, Entry, Calls, TellCall
<1>2. \E d \in [Threads -> Int] : Shifted(d)
  <2> DEFINE calls == << TellCall(t, entry[t].updated + 1) >>
  <2>1. \A i \in 1..Len(calls) : calls[i].call # "answer"
    BY DEF TellCall
  <2>2. QED BY <1>1, <2>1, OweShifts
<1>3. EntriesGrow
  BY OneEntryGrows
<1>4. QED BY <1>2, <1>3, AnswersKept

LEMMA UpdateAnswers ==
  ASSUME TypeOK, TypeOK', InputConsistent, AnswersSound, NEW th \in Threads,
         NEW owner \in Owners, NEW t \in Tasks, NEW ks \in SUBSET Keys,
         update(th, owner, t, ks)
  PROVE  AnswersSound'
<1> DEFINE e == entry[t]
           answers == ks \cap e.outstanding
           f == IF Changed(e, ks) THEN touch(Answered(e, ks)) ELSE Answered(e, ks)
           told == IF Changed(e, ks) THEN << TellCall(t, e.updated + 1) >> ELSE <<>>
           c == AnswerCall(t, e.on_answered, answers)
           n == Len(told)
<1>1. /\ t \in drawn /\ drawn' = drawn /\ answered' = answered
      /\ answers # {} /\ entry' = [entry EXCEPT ![t] = f] /\ Owe(th, told \o << c >>)
  BY DEF update, find, TypeOK
<1>2. e \in Entry /\ InputOK(e)
  BY <1>1 DEF TypeOK, InputConsistent
<1>3. f.used_keys = e.used_keys /\ f.outstanding = e.outstanding \ ks
  BY <1>2, KeysOfEntries, AnsweredType
<1>4. \A u \in Tasks : entry'[u] = IF u = t THEN f ELSE entry[u]
  BY <1>1 DEF TypeOK
<1>5. n \in 0..1 /\ told \in Seq(Calls) /\ c \in Calls /\ \A i \in 1..n : told[i].call # "answer"
  <2>1. TellCall(t, e.updated + 1) \in Calls /\ c \in Calls
    BY <1>2 DEF Entry, Calls, TellCall, AnswerCall
  <2>2. TellCall(t, e.updated + 1).call # "answer"
    BY DEF TellCall
  <2> DEFINE x == TellCall(t, e.updated + 1)
  <2> HIDE DEF x, c
  <2>3. /\ <<>> \in Seq(Calls) /\ Len(<<>>) = 0
        /\ << x >> \in Seq(Calls) /\ Len(<< x >>) = 1 /\ << x >>[1] = x
    BY <2>1 DEF x
  <2>4. CASE Changed(e, ks)
    BY <2>1, <2>2, <2>3, <2>4 DEF x
  <2>5. CASE ~Changed(e, ks)
    BY <2>1, <2>3, <2>5
  <2>6. QED BY <2>4, <2>5
<1>6. c.call = "answer" /\ c.task = t /\ c.asker = e.on_answered /\ c.keys = answers
  BY DEF AnswerCall
<1> HIDE DEF f, told, c
<1>7. \A x \in Threads : owed[x] \in Seq(Calls)
  BY DEF TypeOK
<1>8. ASSUME NEW i \in DOMAIN owed'[th], IsAnswer(owed', th, i)
      PROVE  \/ i = n + 1 /\ owed'[th][i] = c
             \/ i > n + 1 /\ i - (n + 1) \in DOMAIN owed[th]
                /\ owed'[th][i] = owed[th][i - (n + 1)]
  <2> DEFINE s == told \o << c >>
  <2>1. s \in Seq(Calls) /\ Len(s) = n + 1 /\ \A k \in 1..(n + 1) : s[k] = IF k <= n THEN told[k] ELSE c
    BY <1>5
  <2>2. owed'[th] = s \o owed[th]
    BY <1>1, <1>7 DEF Owe, TypeOK
  <2> HIDE DEF s
  <2> DEFINE r == owed[th]
  <2>3. r \in Seq(Calls) /\ owed'[th] = s \o r
    BY <1>7, <2>2
  <2> HIDE DEF r, n
  <2>4. /\ DOMAIN (s \o r) = 1..(Len(s) + Len(r)) /\ Len(r) \in Nat
        /\ \A k \in 1..(Len(s) + Len(r)) :
              (s \o r)[k] = IF k <= Len(s) THEN s[k] ELSE r[k - Len(s)]
    BY <2>1, <2>3, ConcatProperties
  <2>5. i \in 1..(n + 1 + Len(owed[th])) /\ Len(owed[th]) \in Nat
    BY <2>1, <2>3, <2>4 DEF r
  <2>6. owed'[th][i] = IF i <= n + 1 THEN s[i] ELSE owed[th][i - (n + 1)]
    BY <2>1, <2>5, <2>3, <2>4 DEF r
  <2>7. CASE i <= n
    BY <1>5, <1>8, <2>1, <2>5, <2>6, <2>7 DEF IsAnswer
  <2>8. CASE i = n + 1
    BY <1>5, <2>1, <2>5, <2>6, <2>8
  <2>9. CASE i > n + 1
    <3>1. i - (n + 1) \in 1..Len(owed[th])
      <4> DEFINE m == Len(owed[th])
      <4>1. m \in Nat /\ i \in 1..(n + 1 + m)
        BY <2>5
      <4>2. n \in Int
        BY <1>5
      <4> HIDE DEF m
      <4>3. i > n + 1
        BY <2>9
      <4>4. i - (n + 1) \in 1..m
        BY <4>1, <4>2, <4>3
      <4>5. QED BY <4>4 DEF m
    <3>2. QED BY <1>5, <1>7, <2>5, <2>6, <2>9, <3>1
  <2>10. QED BY <1>5, <2>5, <2>7, <2>8, <2>9
<1>9. \A x \in Threads \ {th} : owed'[x] = owed[x]
  BY <1>1 DEF Owe, TypeOK
<1>10. AnsweredKeys'
  BY <1>1, <1>3, <1>4 DEF AnswersSound, AnsweredKeys
<1>11. OneAnswer(c, entry', answered')
  <2>1. answers \subseteq e.on_answered /\ e.on_answered \subseteq e.used_keys
    BY <1>2 DEF InputOK
  <2>2. answered[t] \cap e.outstanding = {}
    BY DEF AnswersSound, AnsweredKeys
  <2>3. QED BY <1>1, <1>3, <1>4, <1>6, <2>1, <2>2 DEF OneAnswer
<1>12. ASSUME NEW b, OneAnswer(b, entry, answered)
       PROVE  OneAnswer(b, entry', answered')
  BY <1>1, <1>3, <1>4, <1>12 DEF OneAnswer
<1>13. ASSUME NEW b, OneAnswer(b, entry, answered), b.task = t
       PROVE  b.keys \cap c.keys = {}
  BY <1>6, <1>13 DEF OneAnswer
<1>14. ASSUME NEW x \in Threads, NEW i \in DOMAIN owed'[x], IsAnswer(owed', x, i)
       PROVE  \/ x = th /\ i = n + 1 /\ owed'[x][i] = c
              \/ \E k \in DOMAIN owed[x] :
                   /\ k = IF x = th THEN i - (n + 1) ELSE i
                   /\ owed'[x][i] = owed[x][k]
                   /\ IsAnswer(owed, x, k)
                   /\ OneAnswer(owed'[x][i], entry, answered)
  <2>1. ASSUME NEW k \in DOMAIN owed[x], owed'[x][i] = owed[x][k]
        PROVE  IsAnswer(owed, x, k) /\ OneAnswer(owed'[x][i], entry, answered)
    BY <1>14, <2>1 DEF IsAnswer, AnswersSound, EachAnswer
  <2>2. CASE x = th
    BY <1>8, <1>14, <2>1, <2>2
  <2>3. CASE x # th
    BY <1>9, <2>1, <2>3
  <2>4. QED BY <2>2, <2>3
<1>15. EachAnswer'
  BY <1>11, <1>12, <1>14 DEF EachAnswer
<1>16. NoTwo'
  <2> SUFFICES ASSUME NEW x \in Threads, NEW y \in Threads,
                      NEW i \in DOMAIN owed'[x], NEW j \in DOMAIN owed'[y],
                      IsAnswer(owed', x, i), IsAnswer(owed', y, j),
                      <<y, j>> # <<x, i>>, owed'[y][j].task = owed'[x][i].task
               PROVE  owed'[x][i].keys \cap owed'[y][j].keys = {}
    BY DEF NoTwo
  <2>1. CASE x = th /\ i = n + 1 /\ owed'[x][i] = c
    <3>1. ~(y = th /\ j = n + 1)
      BY <2>1
    <3>2. OneAnswer(owed'[y][j], entry, answered)
      BY <1>14, <3>1
    <3>3. QED BY <1>6, <1>13, <2>1, <3>2
  <2>2. CASE y = th /\ j = n + 1 /\ owed'[y][j] = c
    <3>1. ~(x = th /\ i = n + 1)
      BY <2>2
    <3>2. OneAnswer(owed'[x][i], entry, answered)
      BY <1>14, <3>1
    <3>3. QED BY <1>6, <1>13, <2>2, <3>2
  <2>3. ASSUME NEW k \in DOMAIN owed[x], NEW l \in DOMAIN owed[y],
               k = (IF x = th THEN i - (n + 1) ELSE i),
               l = (IF y = th THEN j - (n + 1) ELSE j),
               owed'[x][i] = owed[x][k], owed'[y][j] = owed[y][l],
               IsAnswer(owed, x, k), IsAnswer(owed, y, l)
        PROVE  owed'[x][i].keys \cap owed'[y][j].keys = {}
    <3>1. i \in Int /\ j \in Int /\ n \in Int
      <4>1. owed'[x] \in Seq(Calls) /\ owed'[y] \in Seq(Calls)
        BY DEF TypeOK
      <4>2. QED BY <1>5, <4>1
    <3>2. <<y, l>> # <<x, k>>
      <4>1. y # x \/ j # i
        OBVIOUS
      <4>2. QED BY <2>3, <3>1, <4>1
    <3>3. QED BY <2>3, <3>2 DEF AnswersSound, NoTwo
  <2>4. QED BY <1>14, <2>1, <2>2, <2>3
<1>17. QED BY <1>10, <1>15, <1>16 DEF AnswersSound

LEMMA DeliverAnswers ==
  ASSUME TypeOK, TypeOK', AnswersSound, NEW th \in Threads, Deliver(th)
  PROVE  AnswersSound'
<1>1. EntriesGrow
  BY DEF Deliver, tell, CallOnAnswered, CallObserver, EntriesGrow
<1> DEFINE d == [x \in Threads |-> IF x = th THEN 0 - 1 ELSE 0]
<1>2. d \in [Threads -> Int]
  OBVIOUS
<1>3. Shifted(d)
  BY CallShifts DEF Deliver, tell, CallOnAnswered, CallObserver
<1>4. CASE tell(th) \/ CallObserver(th)
  BY <1>1, <1>2, <1>3, <1>4, AnswersKept DEF tell, CallObserver
<1>5. CASE CallOnAnswered(th)
  <2> DEFINE c == owed[th][1]
  <2>1. owed[th] \in Seq(Calls) /\ owed[th] # <<>> /\ 1 \in DOMAIN owed[th]
    BY <1>5 DEF TypeOK, CallOnAnswered, NextCall
  <2>2. IsAnswer(owed, th, 1) /\ Head(owed[th]) = c
    BY <1>5, <2>1 DEF CallOnAnswered, NextCall, IsAnswer
  <2>3. OneAnswer(c, entry, answered)
    BY <2>1, <2>2 DEF AnswersSound, EachAnswer
  <2>4. /\ answered' = [answered EXCEPT ![c.task] = @ \cup c.keys]
        /\ entry' = entry /\ drawn' = drawn
    BY <1>5, <2>2 DEF CallOnAnswered
  <2> HIDE DEF c, d
  <2>5. /\ c.task \in Tasks
        /\ \A u \in Tasks : answered'[u] = IF u = c.task THEN answered[u] \cup c.keys
                                                         ELSE answered[u]
    BY <2>3, <2>4 DEF OneAnswer, TypeOK
  <2>6. AnsweredKeys'
    BY <2>3, <2>4, <2>5 DEF AnswersSound, AnsweredKeys, OneAnswer
  <2>7. ASSUME NEW x \in Threads, NEW i \in DOMAIN owed'[x], IsAnswer(owed', x, i)
        PROVE  /\ i - d[x] \in DOMAIN owed[x] /\ owed'[x][i] = owed[x][i - d[x]]
               /\ IsAnswer(owed, x, i - d[x])
               /\ OneAnswer(owed'[x][i], entry, answered)
    <3>1. i - d[x] \in DOMAIN owed[x] /\ owed'[x][i] = owed[x][i - d[x]]
      BY <1>3, <2>7 DEF Shifted
    <3>2. QED BY <2>7, <3>1 DEF IsAnswer, AnswersSound, EachAnswer
  <2>8. \A x \in Threads : owed'[x] \in Seq(Calls)
    BY DEF TypeOK
  <2>9. ASSUME NEW x \in Threads, NEW i \in DOMAIN owed'[x], IsAnswer(owed', x, i)
        PROVE  <<x, i - d[x]>> # <<th, 1>>
    <3>1. i \in 1..Len(owed'[x]) /\ Len(owed'[x]) \in Nat
      BY <2>8
    <3>2. x = th => i - d[x] = i + 1
      BY <3>1 DEF d
    <3>3. QED BY <3>1, <3>2
  <2>10. EachAnswer'
    <3> SUFFICES ASSUME NEW x \in Threads, NEW i \in DOMAIN owed'[x], IsAnswer(owed', x, i)
                 PROVE  OneAnswer(owed'[x][i], entry', answered')
      BY DEF EachAnswer
    <3> DEFINE b == owed'[x][i]
    <3>1. OneAnswer(b, entry, answered)
      BY <2>7
    <3>2. b.task = c.task => c.keys \cap b.keys = {}
      <4>1. /\ i - d[x] \in DOMAIN owed[x] /\ b = owed[x][i - d[x]]
            /\ IsAnswer(owed, x, i - d[x]) /\ <<x, i - d[x]>> # <<th, 1>>
        BY <2>7, <2>9
      <4>2. QED BY <2>1, <2>2, <4>1 DEF AnswersSound, NoTwo, c
    <3> HIDE DEF b
    <3>3. OneAnswer(b, entry', answered')
      BY <2>4, <2>5, <3>1, <3>2 DEF OneAnswer
    <3>4. QED BY <3>3 DEF b
  <2>11. NoTwo'
    <3> SUFFICES ASSUME NEW x \in Threads, NEW y \in Threads,
                        NEW i \in DOMAIN owed'[x], NEW j \in DOMAIN owed'[y],
                        IsAnswer(owed', x, i), IsAnswer(owed', y, j),
                        <<y, j>> # <<x, i>>, owed'[y][j].task = owed'[x][i].task
                 PROVE  owed'[x][i].keys \cap owed'[y][j].keys = {}
      BY DEF NoTwo
    <3>1. /\ i - d[x] \in DOMAIN owed[x] /\ owed'[x][i] = owed[x][i - d[x]]
          /\ IsAnswer(owed, x, i - d[x])
          /\ j - d[y] \in DOMAIN owed[y] /\ owed'[y][j] = owed[y][j - d[y]]
          /\ IsAnswer(owed, y, j - d[y])
      BY <2>7
    <3>2. <<y, j - d[y]>> # <<x, i - d[x]>>
      <4>1. y # x \/ j # i
        OBVIOUS
      <4>2. i \in Int /\ j \in Int /\ d[x] \in Int
        BY <1>2, <2>8
      <4>3. QED BY <4>1, <4>2
    <3>3. QED BY <3>1, <3>2 DEF AnswersSound, NoTwo
  <2>12. QED BY <2>6, <2>10, <2>11 DEF AnswersSound
<1>6. QED BY <1>4, <1>5 DEF Deliver

LEMMA AnswersStep ==
  TypeOK /\ TypeOK' /\ InputConsistent /\ AnswersSound /\ [Next]_vars => AnswersSound'
<1> SUFFICES ASSUME TypeOK, TypeOK', InputConsistent, AnswersSound, [Next]_vars
             PROVE  AnswersSound'
  OBVIOUS
<1>1. \A t \in Tasks : entry[t] \in Entry
  BY DEF TypeOK
<1>2. ASSUME NEW th \in Threads, NEW owner \in Owners, create(th, owner)
      PROVE  AnswersSound'
  <2>1. answered' = answered /\ owed' = owed
    BY <1>2 DEF create
  <2>2. CASE entry' = entry /\ drawn' = drawn
    <3>1. EntriesGrow
      BY <2>2 DEF EntriesGrow
    <3>2. QED BY <2>1, <3>1, StaysPut, AnswersKept
  <2>3. ASSUME NEW t \in Tasks \ drawn, drawn' = drawn \cup {t},
               entry' = [entry EXCEPT ![t] = NewEntry(owner)]
        PROVE  AnswersSound'
    <3>1. entry[t].used_keys = {}
      BY <2>3 DEF AnswersSound, AnsweredKeys
    <3>2. \A u \in Tasks : entry'[u] = IF u = t THEN NewEntry(owner) ELSE entry[u]
      BY <2>3 DEF TypeOK
    <3>3. NewEntry(owner).used_keys = {} /\ NewEntry(owner).outstanding = {}
      BY DEF NewEntry
    <3>4. EntriesGrow
      BY <2>3, <3>1, <3>2, <3>3 DEF EntriesGrow
    <3>5. QED BY <2>1, <3>4, StaysPut, AnswersKept
  <2>4. QED BY <1>2, <2>2, <2>3 DEF create
<1>3. ASSUME NEW th \in Threads, NEW owner \in Owners, NEW t \in Tasks,
             NEW ks \in SUBSET Keys, update(th, owner, t, ks)
      PROVE  AnswersSound'
  BY <1>3, UpdateAnswers
<1>4. ASSUME NEW th \in Threads, NEW owner \in Owners, NEW t \in Tasks,
             cancel(th, owner, t)
      PROVE  AnswersSound'
  <2> DEFINE w == entry[t].on_cancelled
             informs == [i \in DOMAIN w |-> InformCall(t, w[i])]
             told == << TellCall(t, entry[t].updated + 1) >>
  <2>1. /\ t \in drawn /\ drawn' = drawn /\ answered' = answered
        /\ entry' = [entry EXCEPT ![t] = touch(Cancelled(entry[t]))]
        /\ Owe(th, told \o informs)
    BY <1>4 DEF cancel, find, TypeOK
  <2>2. EntriesGrow
    BY <1>1, <2>1, KeysOfCancelled, OneEntryGrows
  <2>3. w \in Seq(Observers) /\ informs \in Seq(Calls) /\ told \in Seq(Calls)
    <3>1. w \in Seq(Observers) /\ entry[t].updated + 1 \in Nat
      BY <1>1 DEF Entry
    <3>2. TellCall(t, entry[t].updated + 1) \in Calls
      BY <3>1 DEF TellCall, Calls
    <3>3. told \in Seq(Calls)
      BY <3>2
    <3> HIDE DEF w, told
    <3>4. informs \in Seq(Calls)
      BY <3>1, InformCallsType
    <3>5. QED BY <3>1, <3>3, <3>4
  <2>4. \A i \in DOMAIN informs : informs[i].call # "answer"
    BY DEF InformCall
  <2>5. Len(told) = 1 /\ told[1].call # "answer"
    BY DEF TellCall
  <2> HIDE DEF told, informs
  <2>6. told \o informs \in Seq(Calls)
    BY <2>3, ConcatProperties
  <2>7. \A i \in 1..Len(told \o informs) : (told \o informs)[i].call # "answer"
    <3>1. Len(informs) \in Nat /\ DOMAIN informs = 1..Len(informs)
      BY <2>3
    <3>2. Len(told \o informs) = 1 + Len(informs)
      BY <2>3, <2>5, ConcatProperties
    <3> SUFFICES ASSUME NEW i \in 1..(1 + Len(informs))
                 PROVE  (told \o informs)[i].call # "answer"
      BY <3>2
    <3>3. (told \o informs)[i] = IF i <= 1 THEN told[i] ELSE informs[i - 1]
      BY <2>3, <2>5, ConcatProperties
    <3>4. i = 1 \/ i - 1 \in 1..Len(informs)
      BY <3>1
    <3>5. QED BY <2>4, <2>5, <3>1, <3>3, <3>4
  <2>8. \E d \in [Threads -> Int] : Shifted(d)
    BY <2>1, <2>6, <2>7, OweShifts
  <2>9. QED BY <2>1, <2>2, <2>8, AnswersKept
<1>5. ASSUME UNCHANGED <<drawn, entry, owed, answered>> PROVE AnswersSound'
  <2>1. EntriesGrow
    BY <1>5 DEF EntriesGrow
  <2>2. QED BY <1>5, <2>1, StaysPut, AnswersKept
<1>6. ASSUME NEW th \in Threads, sweep(th) PROVE AnswersSound'
  BY <1>5, <1>6 DEF sweep
<1>7. ASSUME NEW th \in Threads, NEW t \in Tasks, NEW o \in Observers,
             onCancelled(th, t, o)
      PROVE  AnswersSound'
  <2>1. drawn' = drawn /\ t \in drawn /\ answered' = answered
    BY <1>7 DEF onCancelled
  <2>2. entry' = entry \/ entry' = [entry EXCEPT ![t] = Watched(entry[t], o)]
    BY <1>7 DEF onCancelled
  <2>3. EntriesGrow
    <3>1. CASE entry' = entry
      BY <2>1, <3>1 DEF EntriesGrow
    <3>2. CASE entry' = [entry EXCEPT ![t] = Watched(entry[t], o)]
      <4> DEFINE e == Watched(entry[t], o)
      <4>1. e.used_keys = entry[t].used_keys /\ e.outstanding = entry[t].outstanding
        BY <1>1, KeysOfEntries
      <4> HIDE DEF e
      <4>2. entry' = [entry EXCEPT ![t] = e]
        BY <3>2 DEF e
      <4>3. QED BY <2>1, <4>1, <4>2, OneEntryGrows
    <3>3. QED BY <2>2, <3>1, <3>2
  <2>4. \E d \in [Threads -> Int] : Shifted(d)
    <3>1. CASE owed' = owed
      BY <3>1, StaysPut
    <3>2. CASE Owe(th, << InformCall(t, o) >>)
      <4> DEFINE calls == << InformCall(t, o) >>
      <4>1. calls \in Seq(Calls)
        BY DEF InformCall, Calls
      <4>2. \A i \in 1..Len(calls) : calls[i].call # "answer"
        BY DEF InformCall
      <4>3. QED BY <3>2, <4>1, <4>2, OweShifts
    <3>3. QED BY <1>7, <3>1, <3>2 DEF onCancelled
  <2>5. QED BY <2>1, <2>3, <2>4, AnswersKept
<1>8. ASSUME NEW th \in Threads, NEW t \in Tasks, setStatusMessage(th, t)
      PROVE  AnswersSound'
  <2> DEFINE e == touch(entry[t])
  <2>1. e.used_keys = entry[t].used_keys /\ e.outstanding = entry[t].outstanding
    BY <1>1, KeysOfEntries
  <2>2. /\ t \in drawn /\ drawn' = drawn /\ answered' = answered
        /\ entry' = [entry EXCEPT ![t] = e]
        /\ Owe(th, << TellCall(t, entry[t].updated + 1) >>)
    BY <1>8 DEF setStatusMessage, Unfinished, TypeOK
  <2> HIDE DEF e
  <2>3. QED BY <2>1, <2>2, TellOnly
<1>9. ASSUME NEW th \in Threads, NEW t \in Tasks, NEW s \in {"completed", "failed"},
             finish(th, t, s)
      PROVE  AnswersSound'
  <2> DEFINE e == touch(Finished(entry[t], s))
  <2>1. s \in Status /\ Finished(entry[t], s) \in Entry
    BY <1>1, FinishedType DEF Status
  <2>2. e.used_keys = entry[t].used_keys /\ e.outstanding = {}
    BY <1>1, <2>1, KeysOfEntries
  <2>3. /\ t \in drawn /\ drawn' = drawn /\ answered' = answered
        /\ entry' = [entry EXCEPT ![t] = e]
        /\ Owe(th, << TellCall(t, entry[t].updated + 1) >>)
    BY <1>9 DEF finish, Unfinished, TypeOK
  <2> HIDE DEF e
  <2>4. QED BY <2>2, <2>3, TellOnly
<1>10. ASSUME NEW th \in Threads, NEW t \in Tasks, NEW ks \in SUBSET Keys,
              askForInput(th, t, ks)
       PROVE  AnswersSound'
  <2> DEFINE e == touch(Asked(entry[t], ks))
  <2>1. /\ e.used_keys = entry[t].used_keys \cup ks
        /\ e.outstanding = entry[t].outstanding \cup ks
    BY <1>1, KeysOfEntries, AskedType
  <2>2. /\ t \in drawn /\ drawn' = drawn /\ answered' = answered
        /\ ks \cap entry[t].used_keys = {}
        /\ entry' = [entry EXCEPT ![t] = e]
        /\ Owe(th, << TellCall(t, entry[t].updated + 1) >>)
    BY <1>10 DEF askForInput, Unfinished, TypeOK
  <2> HIDE DEF e
  <2>3. QED BY <2>1, <2>2, TellOnly
<1>11. ASSUME NEW th \in Threads, Deliver(th) PROVE AnswersSound'
  BY <1>11, DeliverAnswers
<1>12. ASSUME NEW t \in Tasks, DeadlinePasses(t) PROVE AnswersSound'
  BY <1>5, <1>12 DEF DeadlinePasses
<1>13. CASE UNCHANGED vars
  BY <1>5, <1>13 DEF vars
<1>14. QED
  BY <1>2, <1>3, <1>4, <1>6, <1>7, <1>8, <1>9, <1>10, <1>11, <1>12, <1>13 DEF Next

\* For any number of threads, tasks and questions: every answer goes to the
\* callback of the question that asked for it, and no key is answered twice,
\* whatever threads finish, cancel, ask again or call back in between the unlock
\* and the call ("a second would take the first one's answers").
THEOREM AnswersCorrect == Spec => []AnswersFindTheirQuestion
<1>1. Init => AnswersSound
  <2> SUFFICES ASSUME Init PROVE AnswersSound
    OBVIOUS
  <2>1. \A t \in Tasks : /\ entry[t].used_keys = {} /\ entry[t].outstanding = {}
                         /\ answered[t] = {}
    BY DEF Init, NewEntry
  <2>2. \A th \in Threads : DOMAIN owed[th] = {}
    BY DEF Init
  <2>3. QED BY <2>1, <2>2 DEF AnswersSound, AnsweredKeys, EachAnswer, NoTwo
<1>2. QED
  BY <1>1, AnswersStep, AnswersSoundIsEnough, TypeCorrect, InputCorrect, PTL DEF Spec
============================================================================
