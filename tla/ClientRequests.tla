---------------------------- MODULE ClientRequests ----------------------------
(***************************************************************************)
(* What becomes of a request McpClient sends: tracked under an id, sent    *)
(* over the shared connection or one of its own, timed, cancelled, asked   *)
(* back about, refused for its session or its headers, turned into a task, *)
(* and always, in the end, settled.                                        *)
(*                                                                         *)
(* The fields of McpClient and its tracker are one record, client, and the *)
(* code's functions are operators from it to it, composed as the code      *)
(* calls them.  The dispatcher runs one callback at a time; callers' own   *)
(* threads only begin requests and ask for cancellations.                  *)
(*                                                                         *)
(* An id is a number.  A call is known to its caller by the id it was      *)
(* first given, its origin; ids of what the client sends by itself are     *)
(* used again once nothing refers to them.  Time is counted in ticks.      *)
(***************************************************************************)
EXTENDS Naturals, Sequences, FiniteSets

CONSTANTS
  MaxCalls,    \* calls are numbered 1..MaxCalls
  MaxIds,      \* bound: ids in use at a time
  Worlds,      \* eras, callers and networks
  Timeout,     \* request_timeout, in ticks
  MaxTime,     \* request_timeout_max, in ticks
  MaxRedials,  \* max_reconnect_retries
  MaxRounds,   \* mrtr_max_rounds
  MaxResumes   \* resume_attempts

Calls == 1..MaxCalls
RequestIds == 1..MaxIds

\* era: 2026-07-28 over Streamable HTTP, an earlier revision of it with
\* sessions, or stdio.  threads: calls are made off the dispatcher's thread.
\* steady: the connection is never lost and servers keep what they open.
World == [era : {"modern", "session", "stdio"}, threads : BOOLEAN, steady : BOOLEAN,
          calls : Calls]

ASSUME RequestsAssumption ==
  /\ MaxCalls \in Nat \ {0} /\ MaxIds \in Nat /\ MaxCalls <= MaxIds
  /\ Worlds \subseteq World
  /\ Timeout \in Nat \ {0} /\ MaxTime \in Nat /\ Timeout <= MaxTime
  /\ MaxRedials \in Nat \ {0} /\ MaxRounds \in Nat /\ MaxResumes \in Nat

VARIABLES world, client

requestVars == <<world, client>>

-----------------------------------------------------------------------------
Works == {"none", "call", "initialize", "poll", "list", "cancel"}

\* RequestContext.  on_response is there for all work but calls.
Context ==
  [work       : Works,
   origin     : RequestIds,      \* origin_id
   after      : RequestIds \cup {0}, \* the call this work is carried on for
   apart      : BOOLEAN,
   sent_apart : BOOLEAN,
   extends    : BOOLEAN,         \* options.progress_resets_timeout
   settled    : BOOLEAN,
   told       : BOOLEAN,         \* on_response was called
   retries    : 0..MaxRedials + 1,
   session_retried : BOOLEAN,
   header_retried  : BOOLEAN,
   rounds     : 0..MaxRounds,    \* input_rounds
   resumes    : 0..MaxResumes,   \* resume_attempts
   task       : BOOLEAN]         \* task_id

NewContext(work, origin, after) ==
  [work |-> work, origin |-> origin, after |-> after, apart |-> FALSE, sent_apart |-> FALSE,
   extends |-> FALSE, settled |-> FALSE, told |-> FALSE, retries |-> 0,
   session_retried |-> FALSE, header_retried |-> FALSE, rounds |-> 0, resumes |-> 0,
   task |-> FALSE]

\* All that is read of a context once it is settled.
Over(r) == [NewContext(r.work, r.origin, r.after) EXCEPT !.settled = TRUE, !.told = r.told]

Off == MaxTime + 1     \* no clock; and the age past which none is told apart

Answers == {"unsent", "waiting", "answered", "failed", "cancelled", "timed out"}
Post == [do : {"start", "stop", "send", "abandon", "close"}, of : RequestIds]

Client ==
  [request : [RequestIds -> Context],
   tracked : SUBSET RequestIds,       \* RequestTracker
   answer  : [Calls -> Answers],      \* the callers' promises
   age     : [RequestIds -> 0..Off],  \* ticks since start_time, by origin
   clock   : [RequestIds -> 0..Off],  \* request_timers_, by origin
   queue   : Seq(Post),               \* posted to the dispatcher
   waiting : SUBSET RequestIds,       \* retry_timer
   polling : SUBSET RequestIds,       \* poll_timer
   net     : {"up", "down", "dialing"},
   wire    : SUBSET RequestIds,       \* requests a server may still answer
   own     : SUBSET RequestIds,       \* connections of their own
   held    : Seq(RequestIds),         \* held_for_new_session_
   session : BOOLEAN,                 \* the session has an id
   reinitializing : BOOLEAN,
   begun   : SUBSET Calls]            \* not tracked yet: the caller is between two lines

RequestsInit ==
  /\ world \in Worlds
  /\ client = [request |-> [i \in RequestIds |-> NewContext("none", i, 0)],
               tracked |-> {}, answer |-> [c \in Calls |-> "unsent"],
               age |-> [i \in RequestIds |-> 0], clock |-> [i \in RequestIds |-> Off],
               queue |-> <<>>, waiting |-> {}, polling |-> {}, net |-> "up",
               wire |-> {}, own |-> {}, held |-> <<>>,
               session |-> world.era = "session", reinitializing |-> FALSE, begun |-> {}]

Modern == world.era = "modern"
Put(s, do, i) == [s EXCEPT !.queue = Append(@, [do |-> do, of |-> i])]

\* RequestTracker::findByOrigin.
Known(s, o) == {i \in s.tracked : s.request[i].origin = o}

\* An id nothing refers to, for what the client sends by itself.
Free(s) ==
  {i \in RequestIds \ Calls :
     /\ s.request[i].work = "none" \/ s.request[i].settled
     /\ i \notin s.tracked \cup s.wire \cup s.own \cup s.waiting \cup s.polling
     /\ s.clock[i] = Off
     /\ \A n \in 1..Len(s.queue) : s.queue[n].of # i
     /\ \A n \in 1..Len(s.held) : s.held[n] # i
     /\ \A j \in RequestIds : s.request[j].after = i => s.request[j].settled}
Fresh(s) == CHOOSE i \in Free(s) : \A j \in Free(s) : i <= j
-----------------------------------------------------------------------------
\* The clock of a request stops by a posted callback, and a connection of
\* its own is closed by another.
OnSettled(s, i) ==
  LET r == s.request[i]
      stopped == IF r.work \in {"call", "poll", "cancel"} THEN Put(s, "stop", r.origin) ELSE s
  IN IF r.sent_apart THEN Put(stopped, "close", i) ELSE stopped

\* RequestContext::finish.
Finish(s, i, how) ==
  IF s.request[i].settled THEN s
  ELSE LET t == [OnSettled(s, i) EXCEPT !.request[i] = Over(@)]
       IN IF s.request[i].work = "call" THEN [t EXCEPT !.answer[s.request[i].origin] = how] ELSE t

Untracked(s, i) == [s EXCEPT !.tracked = @ \ {i}, !.polling = @ \ {i}, !.waiting = @ \ {i}]

\* A request is over; whoever carries on after it has not been told.
EndedWith(s, i, how) == Untracked(Finish(s, i, how), i)

\* RequestTracker::getTimedOutRequests, and what a close does with them.
FailedByClose(s) ==
  LET old == {i \in s.tracked : s.age[s.request[i].origin] >= Timeout}
      failed[n \in 0..MaxIds] ==
        IF n = 0 THEN s
        ELSE IF n \in old THEN EndedWith(failed[n - 1], n, "failed") ELSE failed[n - 1]
  IN failed[MaxIds]

\* The shared connection is gone: what is on connections of their own is not.
Closed(s, net) ==
  IF s.net = "down" THEN [s EXCEPT !.net = net]
  ELSE FailedByClose([s EXCEPT !.net = net, !.wire = @ \cap s.own])

\* reconnectInternal: the manager goes, and every connection with it.
Redialled(s) == [Closed(s, "dialing") EXCEPT !.own = {}, !.wire = {}]
-----------------------------------------------------------------------------
\* What the moment of a send decides: the connection has been idle for too
\* long, dialling again can begin, and the connection takes the request.
Luck(stale, dials, takes) == [stale |-> stale, dials |-> dials, takes |-> takes]
Lucky == Luck(FALSE, TRUE, TRUE)
Lucks ==
  {Lucky} \cup (IF world.steady THEN {} ELSE {Luck(TRUE, TRUE, TRUE), Luck(TRUE, FALSE, TRUE)})
          \cup (IF world.steady \/ ~(Modern \/ world.threads) THEN {}
                ELSE {Luck(FALSE, TRUE, FALSE)})

\* A request that must be cancellable alone is sent so or not at all.  The
\* shared connection refuses one only when it went while another thread sent.
Written(s, i, luck) ==
  LET alone == s.request[i].apart /\ Modern
      t == [s EXCEPT !.wire = @ \cup {i}]
  IN IF ~luck.takes /\ (alone \/ world.threads) THEN EndedWith(s, i, "failed")
     ELSE IF alone THEN [t EXCEPT !.own = @ \cup {i}, !.request[i].sent_apart = TRUE]
     ELSE t

\* Variant: what was settled while it waited is sent all the same.
sendRequestInternal_Settled(s, i, luck) ==
  IF s.net = "up" THEN Written(s, i, luck) ELSE EndedWith(s, i, "failed")

\* sendRequestInternal.
sendRequestInternal(s, i, luck) ==
  LET r == s.request[i]
      up == s.net = "up"
  IN CASE r.settled -> s
       [] ~r.settled /\ up /\ (r.retries \in 1..MaxRedials \/ ~luck.stale) -> Written(s, i, luck)
       [] ~r.settled /\ ~up /\ r.retries \in 1..MaxRedials ->
            [s EXCEPT !.request[i].retries = @ + 1, !.waiting = @ \cup {i}]
       [] ~r.settled /\ (~up \/ luck.stale) /\ r.retries > MaxRedials -> EndedWith(s, i, "failed")
       [] ~r.settled /\ (~up \/ luck.stale) /\ r.retries = 0 ->
            LET t == Redialled(s)
            IN IF luck.dials THEN Put([t EXCEPT !.request[i].retries = 1], "send", i)
               ELSE EndedWith(t, i, "failed")

\* sendInternalRequest, and sendInternalJson when timed.
SendInternal(s, work, after, timed, luck) ==
  LET i == Fresh(s)
      t == [s EXCEPT !.request[i] = NewContext(work, i, after), !.tracked = @ \cup {i},
                     !.age[i] = 0]
  IN sendRequestInternal(IF timed THEN Put(t, "start", i) ELSE t, i, luck)

\* carryOver: the same call, under an id of its own; its clock runs on.
CarryOver(s, i) ==
  LET j == Fresh(s)
      t == IF s.request[i].sent_apart THEN Put(s, "close", i) ELSE s
  IN [t EXCEPT !.request[j] = [s.request[i] EXCEPT !.retries = 0, !.sent_apart = FALSE,
                                                  !.session_retried = FALSE, !.resumes = 0],
               !.request[i] = Over(@),
               !.tracked = (@ \ {i}) \cup {j}]
-----------------------------------------------------------------------------
\* What was held for a handshake is sent when it succeeded, and failed else.
ResumeHeld(s, held, ok, luck) ==
  LET one(t, i) == IF ok THEN sendRequestInternal(t, i, luck) ELSE EndedWith(t, i, "failed")
      resumed[n \in 0..Len(held)] == IF n = 0 THEN s ELSE one(resumed[n - 1], held[n])
  IN resumed[Len(held)]

\* on_response of each kind of work.  more: the task still works.
Continue(s, i, ok, more, luck) ==
  LET r == s.request[i]
      t == [s EXCEPT !.request[i].told = TRUE]
      over == r.after = 0 \/ s.request[r.after].settled
  IN CASE r.work \in {"call", "cancel"} -> t
       [] r.work = "initialize" ->
            ResumeHeld([t EXCEPT !.reinitializing = FALSE, !.held = <<>>, !.session = @ \/ ok],
                       s.held, ok, luck)
       [] r.work = "poll" /\ ~over ->
            IF ok /\ more THEN [t EXCEPT !.polling = @ \cup {r.after}]
            ELSE EndedWith(t, r.after, IF ok THEN "answered" ELSE "failed")
       [] r.work = "list" /\ ~over -> sendRequestInternal(CarryOver(t, r.after), Fresh(t), luck)
       [] r.work \in {"poll", "list"} /\ over -> t

\* completeRequest and completeRequestWithError.
Complete(s, i, how, more, luck) ==
  Continue(EndedWith(s, i, how), i, how = "answered", more, luck)

\* Variant: work the client carries on with does not hear of the end.
Abandon_Untold(s, i, how) == client' = IF s.request[i].settled THEN s ELSE EndedWith(s, i, how)

\* abandonRequest; the cancellation of a task is a request of its own.
Abandon(s, i, how) ==
  IF s.request[i].settled THEN client' = s
  ELSE \E luck \in Lucks, t \in {Untracked(s, i)} :
         \E u \in {IF s.request[i].task THEN SendInternal(t, "cancel", 0, TRUE, luck) ELSE t} :
           \E v \in {EndedWith(u, i, how)} : client' = Continue(v, i, FALSE, FALSE, luck)

startReinitialize(s, luck) ==
  IF s.reinitializing THEN s
  ELSE SendInternal([s EXCEPT !.reinitializing = TRUE], "initialize", 0, FALSE, luck)
-----------------------------------------------------------------------------
\* What a server may say to one request.
Says(r) ==
  {"result", "error"}
    \cup (IF Modern /\ r.work = "call"
          THEN {"question", "task", "mismatch", "severed"} ELSE {})
    \cup (IF world.era = "session" THEN {"severed"} ELSE {})
    \cup (IF world.era = "session" /\ (r.work = "call" \/ ~world.steady) THEN {"not found"} ELSE {})

\* handleTransportStatus of a 404.
NotFound(s, i, luck) ==
  IF (s.session \/ s.reinitializing) /\ ~s.request[i].session_retried
  THEN startReinitialize([s EXCEPT !.request[i].session_retried = TRUE, !.session = FALSE,
                                   !.held = Append(@, i)], luck)
  ELSE Complete(s, i, "failed", FALSE, luck)

\* resumeAnswer.  kept: the answer is still to come, over the stream asked
\* for; a server that serves none leaves the request to its clock.
Severed(s, i, kept, luck) ==
  IF Modern \/ s.request[i].resumes >= MaxResumes THEN Complete(s, i, "failed", FALSE, luck)
  ELSE [s EXCEPT !.request[i].resumes = @ + 1, !.wire = IF kept THEN @ \cup {i} ELSE @]

\* followTask, onTaskState.
BecameTask(s, i, more) ==
  LET t == [s EXCEPT !.request[i].task = TRUE, !.clock[s.request[i].origin] = Off]
  IN IF more THEN [t EXCEPT !.polling = @ \cup {i}] ELSE EndedWith(t, i, "answered")

\* handleResponse, handleTransportStatus, handleClientStreamEvent.
Hear(s, i, says, more, luck) ==
  LET r == s.request[i]
  IN CASE says \in {"result", "error"} ->
            Complete(s, i, IF says = "result" THEN "answered" ELSE "failed", more, luck)
       [] says = "not found" -> NotFound(s, i, luck)
       [] says = "severed" -> Severed(s, i, more, luck)
       [] says = "task" -> BecameTask(s, i, more)
       [] says = "mismatch" ->
            IF r.header_retried THEN Complete(s, i, "failed", FALSE, luck)
            ELSE SendInternal([s EXCEPT !.request[i].header_retried = TRUE], "list", i, FALSE, luck)
       [] says = "question" ->
            IF r.rounds >= MaxRounds THEN Complete(s, i, "failed", FALSE, luck)
            ELSE LET j == Fresh(s)
                     t == CarryOver(s, i)
                 IN sendRequestInternal([t EXCEPT !.request[j].rounds = @ + 1], j, luck)

Heard ==
  \E i \in client.wire :
    LET s == [client EXCEPT !.wire = @ \ {i}]
    IN IF i \notin s.tracked THEN client' = s
       ELSE /\ Cardinality(Free(s)) >= 2
            /\ \E says \in Says(s.request[i]), more \in BOOLEAN, luck \in Lucks :
                 client' = Hear(s, i, says, more, luck)
-----------------------------------------------------------------------------
\* sendRequest, and sendCancellableRequest when apart: the clock is asked
\* for before the request is tracked.
Began(s, c, apart, extends) ==
  Put([s EXCEPT !.answer[c] = "waiting",
                !.request[c] = [NewContext("call", c, 0) EXCEPT !.apart = apart,
                                                                !.extends = extends]],
      "start", c)

Tracked(s, c, luck) ==
  LET t == [s EXCEPT !.tracked = @ \cup {c}]
  IN IF s.request[c].apart THEN Put(t, "send", c) ELSE sendRequestInternal(t, c, luck)

\* On the dispatcher a call is made between two callbacks; on any other
\* thread callbacks run between the two lines.
Call ==
  \E c \in 1..world.calls, apart, extends \in BOOLEAN, luck \in Lucks :
    /\ client.answer[c] = "unsent" /\ \A d \in Calls : d < c => client.answer[d] # "unsent"
    /\ extends => apart
    /\ LET s == Began(client, c, apart, extends)
       IN client' = IF world.threads THEN [s EXCEPT !.begun = @ \cup {c}] ELSE Tracked(s, c, luck)

CallGoesOn ==
  \E c \in client.begun, luck \in Lucks :
    client' = Tracked([client EXCEPT !.begun = @ \ {c}], c, luck)

\* cancelRequest, on the caller's thread.
cancelRequest ==
  \E c \in Calls :
    /\ Known(client, c) # {}
    /\ \A n \in 1..Len(client.queue) : client.queue[n] # [do |-> "abandon", of |-> c]
    /\ client' = Put(client, "abandon", c)

\* armRequestTimeout: never past the overall maximum.
Armed(s, o, after) == IF MaxTime - s.age[o] < after THEN MaxTime - s.age[o] ELSE after

\* A posted callback runs.
Posted ==
  /\ client.queue # <<>> /\ Free(client) # {}
  /\ \E p \in {Head(client.queue)}, s \in {[client EXCEPT !.queue = Tail(@)]} :
       \/ /\ p.do = "start" /\ Known(s, p.of) # {}
          /\ client' = [s EXCEPT !.clock[p.of] = Armed(s, p.of, Timeout)]
       \/ p.do = "stop" /\ client' = [s EXCEPT !.clock[p.of] = Off]
       \/ p.do = "close" /\ client' = [s EXCEPT !.own = @ \ {p.of}, !.wire = @ \ {p.of}]
       \/ p.do = "send" /\ \E luck \in Lucks : client' = sendRequestInternal(s, p.of, luck)
       \/ p.do = "abandon" /\ \E i \in Known(s, p.of) : Abandon(s, i, "cancelled")
       \/ p.do \in {"start", "abandon"} /\ Known(s, p.of) = {} /\ client' = s

\* routeProgress, of a request whose progress starts its clock again.
Progress ==
  \E i \in client.tracked \cap client.wire :
    LET r == client.request[i]
    IN /\ r.extends /\ ~r.settled /\ client.clock[r.origin] # Off
       /\ client' = [client EXCEPT !.clock[r.origin] = Armed(client, r.origin, Timeout)]

\* Variant: the timer looks for the request by its id, not its origin's.
onRequestTimedOut_ById(s, o) == s.tracked \cap {o}

\* Whom onRequestTimedOut finds.
onRequestTimedOut(s, o) == Known(s, o)

TimerFires ==
  /\ Free(client) # {}
  /\ \E o \in {o \in RequestIds : client.clock[o] = 0} :
       \E s \in {[client EXCEPT !.clock[o] = Off]} :
         \/ onRequestTimedOut(s, o) = {} /\ client' = s
         \/ \E i \in onRequestTimedOut(s, o) : Abandon(s, i, "timed out")

\* A timer that waited for the connection, or for the next poll of a task.
RetryFires ==
  \E i \in client.waiting, luck \in Lucks :
    client' = sendRequestInternal([client EXCEPT !.waiting = @ \ {i}], i, luck)

PollFires ==
  \E i \in client.polling, luck \in Lucks :
    /\ Free(client) # {}
    /\ LET s == [client EXCEPT !.polling = @ \ {i}]
       IN client' = IF s.request[i].settled THEN s ELSE SendInternal(s, "poll", i, TRUE, luck)

Reconnected == client.net = "dialing" /\ client' = [client EXCEPT !.net = "up"]
Lost ==
  /\ ~world.steady /\ client.net # "down"
  /\ client' = Closed(client, "down")

\* The dispatcher is prompt: timers that are due and posted callbacks run,
\* and a reconnect is waited for, within a tick.
Tick ==
  /\ client.queue = <<>> /\ client.waiting = {} /\ \A o \in RequestIds : client.clock[o] # 0
  /\ \E c \in Calls : client.answer[c] = "waiting"
  /\ client' =
       [client EXCEPT
          !.age = [o \in RequestIds |->
                     IF Known(client, o) = {} /\ o \notin client.begun THEN 0
                     ELSE IF @[o] < Off THEN @[o] + 1 ELSE Off],
          !.clock = [o \in RequestIds |-> IF @[o] = Off THEN Off ELSE @[o] - 1]]

Step == \/ Call \/ CallGoesOn \/ cancelRequest \/ Heard \/ Posted \/ Progress \/ TimerFires
        \/ RetryFires \/ PollFires \/ Reconnected \/ Lost \/ Tick

RequestsNext == Step /\ UNCHANGED world

\* The dispatcher goes round and time passes.  A server owes no answer and
\* the network no connection.
RequestsFairness ==
  /\ WF_requestVars(Posted /\ UNCHANGED world) /\ WF_requestVars(TimerFires /\ UNCHANGED world)
  /\ WF_requestVars(RetryFires /\ UNCHANGED world) /\ WF_requestVars(CallGoesOn /\ UNCHANGED world)
  /\ SF_requestVars(Tick /\ UNCHANGED world)

RequestsSpec == RequestsInit /\ [][RequestsNext]_requestVars /\ RequestsFairness
-----------------------------------------------------------------------------
Waiting(c) == client.answer[c] = "waiting"
IsTask(c) == \E i \in Known(client, c) : client.request[i].task
UnderWay(i) == i \in client.tracked /\ ~client.request[i].settled

\* Every field stays in its range.
RequestsTypeOK == world \in Worlds /\ client \in Client

\* A caller's promise is kept once: whatever comes after the answer, the
\* failure, the cancellation or the timeout changes nothing, under any id
\* (RequestContext::finish, carryOver).
AnsweredOnce ==
  \A c \in Calls : client.answer[c] \notin {"unsent", "waiting"}
                     => client'.answer[c] = client.answer[c]

\* No request goes out once whoever made it has been told that it ended:
\* not from a retry, a posted send, or a handshake it was held for
\* (sendRequestInternal).
NothingSentAfterItsEnd ==
  \A i \in client'.wire \ client.wire : ~client.request[i].settled \/ ~client'.request[i].settled

\* "The longest any request waits, however often progress extends it": kept
\* across every id a call is sent under, for calls made on the dispatcher;
\* made elsewhere, the clock may be asked for before there is a request
\* to find (startClock, armRequestTimeout).
WithinMaximum ==
  ~world.threads => \A c \in Calls : Waiting(c) /\ ~IsTask(c) => client.age[c] <= MaxTime

\* While connections hold, work the client carries on with hears of its end,
\* whichever way it ends, and a task's caller is never waiting on nothing:
\* a poll is due or under way (abandonRequest, completeRequestWithError,
\* pollTaskLater).
WorkGoesOn ==
  world.steady =>
    /\ \A i \in RequestIds :
         client.request[i].work \in {"initialize", "poll", "list"} /\ client.request[i].settled
           => client.request[i].told
    /\ \A i \in client.tracked : client.request[i].task =>
         i \in client.polling
           \/ \E j \in client.tracked :
                client.request[j].work = "poll" /\ client.request[j].after = i

\* A connection opened for one request does not outlive it: while it is open
\* the request waits, or closing it has been posted (carryOver, on_settled).
OwnConnectionsEnd ==
  \A i \in client.own :
    UnderWay(i) \/ \E n \in 1..Len(client.queue) : client.queue[n] = [do |-> "close", of |-> i]

\* One handshake at a time, begun by the first request refused for its
\* session, and while connections hold it is really under way for as long as
\* requests wait for it; they are those of the old session, each once
\* (startReinitialize, handleTransportStatus).
OneHandshake ==
  /\ Cardinality({i \in client.tracked : client.request[i].work = "initialize"}) <= 1
  /\ client.held # <<>> => client.reinitializing
  /\ world.steady /\ client.reinitializing =>
       \E i \in client.tracked : client.request[i].work = "initialize"
  /\ \A m, n \in 1..Len(client.held) : client.held[m] = client.held[n] => m = n

\* Every call made on the dispatcher ends, or becomes a task: through
\* reconnects, rounds of questions, listings and lost sessions its clock
\* finds it (startClock, onRequestTimedOut).
CallsEnd ==
  []<>(world.threads \/ \A c \in Calls : Waiting(c) => IsTask(c))

\* The end of a request is its end: its caller's promise is not kept again, and
\* nothing more is sent of it, under any id it was carried over to.
EndIsFinal == [][AnsweredOnce /\ NothingSentAfterItsEnd]_requestVars

\* Nothing waits for what is not coming, and nothing outlasts what it is for:
\* while connections hold, work carried on with hears of its end and requests
\* held for a handshake have one under way; no call outlasts the longest it may
\* wait, and no connection of its own the request it was dialled for.
NothingIsStranded ==
  RequestsTypeOK /\ WorkGoesOn /\ OneHandshake /\ WithinMaximum /\ OwnConnectionsEnd
================================================================================
