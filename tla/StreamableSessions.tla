------------------------- MODULE StreamableSessions -------------------------
(***************************************************************************)
(* One Streamable HTTP session: StreamableSessionManager, the exchanges    *)
(* behind its streams (RequestExchange), and the parts of                  *)
(* StreamableHttpFilter that open, resume and lose them.                   *)
(*                                                                         *)
(* A session belongs to the dispatcher that accepted its initialize.  An   *)
(* exchange belongs to the dispatcher of its connection.  A thread reaches *)
(* what it does not own by posting to the owner, so every dispatcher has a *)
(* queue of posted closures, run in order, and each closure, timer and     *)
(* socket callback is one atomic step.  A visit to the session made on its *)
(* own dispatcher runs inline (withSessionOnOwner).                        *)
(*                                                                         *)
(* The client makes one request answered by a stream, stream Answer, and   *)
(* comes back with a GET naming the last event it read whenever it lost    *)
(* its connection.  It can leave without the server noticing for a while.  *)
(*                                                                         *)
(* Abstractions.  A stream, its exchange and its connection share a name;  *)
(* ids are random and never drawn twice.  An event is its id and the       *)
(* message it carries.  A retention window ends at some sweep after the    *)
(* one that started it, an idle session expires at some sweep.             *)
(***************************************************************************)
EXTENDS Integers, Sequences, FiniteSets, SequencesExt

CONSTANTS
  Dispatchers,      \* threads connections are accepted on
  Owner,            \* the one that owns the session
  Answer,           \* the stream answering the client's request
  GetStreams,       \* streams that GET requests can open
  None,             \* no stream
  PendingLimit,     \* pending_limit_
  MaxGetStreams,    \* max_get_streams_per_session
  Settings          \* what the clients, the server and the configuration do

\* One of the settings holds for a whole behaviour.
Setting ==
  [dispatchers   : SUBSET Dispatchers,  \* connections are accepted on these
   gets          : SUBSET GetStreams,   \* GET requests open these
   answer_events : Nat,                 \* events the handler writes, the last is the response
   notes         : Nat,                 \* bound: unsolicited messages the server sends
   replay_limit  : Nat \ {0},           \* replay_buffer_events
   sweeps        : BOOLEAN]             \* whether sweeps, expiry and DELETE happen

ASSUME SessionAssumption ==
  /\ Owner \in Dispatchers
  /\ Answer \notin GetStreams /\ None \notin GetStreams \cup {Answer}
  /\ PendingLimit \in Nat \ {0} /\ MaxGetStreams \in Nat
  /\ \A s \in Settings : s \in Setting /\ Owner \in s.dispatchers

Streams == GetStreams \cup {Answer}

VARIABLES
  setting,     \* chosen once
  known,       \* whether directory_ holds the session
  streams,     \* SessionCtx::streams, in the order they opened
  ctx,         \* per stream: its StreamCtx
  pending,     \* SessionCtx::pending
  stream_ids,  \* stream_ids_, every id spoken for
  ex,          \* per stream: its RequestExchange
  conn,        \* per stream: its connection
  wire,        \* per stream: events written, not yet read by the client
  queue,       \* per dispatcher: closures posted to it
  at,          \* the stream the client reads, or None
  cursor,      \* the id of the last event it read, or NoId
  received,    \* the messages it read, oldest first
  noted        \* unsolicited messages sent so far

server == <<known, streams, ctx, pending, stream_ids, ex, conn, wire, queue>>
client == <<at, cursor, received>>
sessionVars == <<setting, server, client, noted>>

AnswerEvents == setting.answer_events
Notes == setting.notes
ReplayLimit == setting.replay_limit

-----------------------------------------------------------------------------
NoId == <<"no id", 0>>
Ids == (Streams \X (Nat \ {0})) \cup {NoId}
AnswerMessage(n) == <<"answer", n>>
Note(n) == <<"note", n>>
Messages == {AnswerMessage(n) : n \in 1..AnswerEvents} \cup {Note(n) : n \in 1..Notes}
Events == [id : Ids, msg : Messages]
Unnumbered(m) == [id |-> NoId, msg |-> m]

StreamCtx == [conn : BOOLEAN, producing : BOOLEAN, retiring : BOOLEAN]
NewCtx == [conn |-> TRUE, producing |-> TRUE, retiring |-> FALSE]

Exchange == [mode : {"Open", "Stream", "Complete"}, disp : Dispatchers, detached : BOOLEAN,
             replay : Seq(Events), follower : Streams \cup {None}, next : Nat \ {0}]
NewExchange(d) == [mode |-> "Open", disp |-> d, detached |-> FALSE, replay |-> <<>>,
                   follower |-> None, next |-> 1]

\* What is posted to a dispatcher: a visit to the session, something for an
\* exchange, or a step of opening a stream that another dispatcher owns a part of.
Visits == [op : {"attach", "detach", "finish"}, stream : Streams]
Writes == [op : {"write", "forward"}, stream : Streams, event : Events]
Ends == [op : {"release", "end"}, stream : Streams]
Judgements == [op : {"judge"}, stream : Streams, cursor : Ids]
Verdicts == [op : {"judged"}, stream : Streams, found : BOOLEAN, gets : Nat,
             source : Streams \cup {None}, cursor : Ids]
Collections == [op : {"collect"}, stream : Streams, source : Streams, cursor : Ids]
Deliveries == [op : {"deliver"}, stream : Streams, missed : Seq(Events)]
Tasks == Visits \cup Writes \cup Ends \cup Judgements \cup Verdicts \cup Collections \cup Deliveries

kind(s) == IF s = Answer THEN "PostResponse" ELSE "Get"

SessionInit ==
  /\ setting \in Settings
  /\ known = TRUE
  /\ streams = <<>>
  /\ ctx = [s \in Streams |-> NewCtx]
  /\ pending = <<>>
  /\ stream_ids = {}
  /\ ex = [s \in Streams |-> NewExchange(Owner)]
  /\ conn = [s \in Streams |-> "unborn"]
  /\ wire = [s \in Streams |-> <<>>]
  /\ queue = [d \in Dispatchers |-> <<>>]
  /\ at = None
  /\ cursor = NoId
  /\ received = <<>>
  /\ noted = 0

-----------------------------------------------------------------------------
(* A callback is a chain of calls: each is an operator on the server's     *)
(* state, and the action installs the last one's result.                   *)

Now == [known |-> known, streams |-> streams, ctx |-> ctx, pending |-> pending,
        stream_ids |-> stream_ids, ex |-> ex, conn |-> conn, wire |-> wire, queue |-> queue]

Become(S) ==
  /\ setting' = setting
  /\ known' = S.known /\ streams' = S.streams /\ ctx' = S.ctx /\ pending' = S.pending
  /\ stream_ids' = S.stream_ids /\ ex' = S.ex /\ conn' = S.conn /\ wire' = S.wire
  /\ queue' = S.queue

Post(S, d, task) == [S EXCEPT !.queue[d] = Append(@, task)]

-----------------------------------------------------------------------------
(* RequestExchange *)

\* retainEvent(): the oldest goes when the buffer is full.
retainEvent(replay, e) ==
  Append(IF Len(replay) >= ReplayLimit THEN Tail(replay) ELSE replay, e)

\* Variant: the follower is written to at once, from whichever thread this is.
writeEvent_Inline(S, s, event) ==
  LET x == S.ex[s]
      minted == event.id = NoId
      e == IF minted THEN [event EXCEPT !.id = <<s, x.next>>] ELSE event
      readers == IF x.follower = None THEN {s} ELSE {s, x.follower}
  IN IF x.mode # "Stream" THEN S
     ELSE [S EXCEPT
       !.ex = [r \in Streams |->
         IF r \in readers
         THEN [S.ex[r] EXCEPT !.replay = retainEvent(@, e),
                              !.next = IF minted /\ r = s THEN @ + 1 ELSE @]
         ELSE S.ex[r]],
       !.wire = [r \in Streams |->
         IF r \in readers /\ ~S.ex[r].detached /\ S.conn[r] = "up"
         THEN Append(S.wire[r], e) ELSE S.wire[r]]]

\* writeEvent(): numbered unless it comes with an id, kept, reported to the
\* follower by a post to its dispatcher, and written unless nobody listens.
writeEvent(S, s, event) ==
  LET x == S.ex[s]
      minted == event.id = NoId
      e == IF minted THEN [event EXCEPT !.id = <<s, x.next>>] ELSE event
      W == [S EXCEPT !.ex[s].replay = retainEvent(@, e),
                     !.ex[s].next = IF minted THEN @ + 1 ELSE @,
                     !.wire[s] = IF x.detached \/ S.conn[s] # "up" THEN @ ELSE Append(@, e)]
  IN CASE x.mode # "Stream" -> S
       [] x.mode = "Stream" /\ x.follower = None -> W
       [] OTHER -> Post(W, S.ex[x.follower].disp,
                        [op |-> "forward", stream |-> x.follower, event |-> e])

complete(S, s) == [S EXCEPT !.ex[s].mode = "Complete"]

releaseReplay(S, s) == [S EXCEPT !.ex[s].replay = <<>>]

RunOnExchange(S, task) ==
  CASE task.op \in {"write", "forward"} -> writeEvent(S, task.stream, task.event)
    [] task.op = "release" -> releaseReplay(S, task.stream)
    [] task.op = "end" -> complete(S, task.stream)

-----------------------------------------------------------------------------
(* The session, on its owner. *)

live(S, s) == S.ctx[s].conn /\ S.ctx[s].producing

\* A call on an exchange from the owner: inline, or posted to its dispatcher.
OnExchange(S, task) ==
  LET d == S.ex[task.stream].disp
  IN IF d = Owner THEN RunOnExchange(S, task) ELSE Post(S, d, task)

writeToStream(S, s, m) ==
  OnExchange(S, [op |-> "write", stream |-> s, event |-> Unnumbered(m)])

openStream_NoFlush(S, s) == [S EXCEPT !.streams = Append(@, s), !.ctx[s] = NewCtx]

\* flushPending(): every message that waited, the oldest first.
flushPending(S, s, ms) ==
  LET T[n \in 0..Len(ms)] == IF n = 0 THEN S ELSE writeToStream(T[n - 1], s, ms[n])
  IN T[Len(ms)]

openStream(S, s) ==
  LET O == [S EXCEPT !.streams = Append(@, s), !.ctx[s] = NewCtx]
  IN IF kind(s) = "Get" THEN flushPending([O EXCEPT !.pending = <<>>], s, S.pending) ELSE O

closeStream(S, s) ==
  LET R == OnExchange(S, [op |-> "release", stream |-> s])
      i == CHOOSE i \in DOMAIN R.streams : R.streams[i] = s
  IN [R EXCEPT !.streams = RemoveAt(@, i), !.stream_ids = @ \ {s}]

detachConnection(S, s) ==
  [S EXCEPT !.ctx[s].conn = IF Contains(S.streams, s) THEN FALSE ELSE @]

finishStream_ReleasesId(S, s) ==
  IF Contains(S.streams, s) /\ S.ctx[s].producing
  THEN [S EXCEPT !.ctx[s] = [conn |-> FALSE, producing |-> FALSE, retiring |-> FALSE],
                 !.stream_ids = @ \ {s}]
  ELSE S

finishStream(S, s) ==
  IF Contains(S.streams, s) /\ S.ctx[s].producing
  THEN [S EXCEPT !.ctx[s] = [conn |-> FALSE, producing |-> FALSE, retiring |-> FALSE]]
  ELSE S

\* removeOwned(): the last stream goes through closeStream() until none is left.
removeOwned(S) ==
  LET T[n \in 0..Len(S.streams)] ==
        IF n = 0 THEN [S EXCEPT !.known = FALSE]
                 ELSE closeStream(T[n - 1], Last(T[n - 1].streams))
  IN T[Len(S.streams)]

\* resumeFrom(): only a stream this session holds.
resumeFrom(S, last) ==
  IF last # NoId /\ Contains(S.streams, last[1]) THEN last[1] ELSE None

openGets(S) == Cardinality({s \in Range(S.streams) : kind(s) = "Get" /\ S.ctx[s].producing})

\* withSessionOnOwner(): inline on the owner, posted from elsewhere; nothing
\* when the session is gone, now or when the visit is made.
RunVisit(S, op, s) ==
  CASE ~S.known -> S
    [] S.known /\ op = "attach" -> openStream(S, s)
    [] S.known /\ op = "detach" -> detachConnection(S, s)
    [] S.known /\ op = "finish" -> finishStream(S, s)

withSessionOnOwner(S, d, op, s) ==
  CASE ~S.known -> S
    [] S.known /\ d = Owner -> RunVisit(S, op, s)
    [] OTHER -> Post(S, Owner, [op |-> op, stream |-> s])

-----------------------------------------------------------------------------
(* StreamableHttpFilter, on the dispatcher of the connection. *)

\* deliver(): what was missed, under the ids it had, then the registration.
replayMissed(S, s, missed) ==
  LET T[n \in 0..Len(missed)] == IF n = 0 THEN S ELSE writeEvent(T[n - 1], s, missed[n])
  IN T[Len(missed)]

deliver(S, s, missed) ==
  withSessionOnOwner(replayMissed(S, s, missed), S.ex[s].disp, "attach", s)

\* collectAndFollow(): what comes after the cursor, if it is still kept, and
\* what an answering stream still produces from now on.
Missed(S, source, last) ==
  LET kept == S.ex[source].replay
      seen == {i \in DOMAIN kept : kept[i].id = last}
  IN IF seen = {} THEN <<>> ELSE SubSeq(kept, (CHOOSE i \in seen : TRUE) + 1, Len(kept))

Follow(S, source, s) ==
  IF kind(source) = "PostResponse" /\ S.ex[source].mode = "Stream"
  THEN [S EXCEPT !.ex[source].follower = s] ELSE S

\* replayThenRegister(): the buffer is read on the source's dispatcher.
replayThenRegister(S, s, source, last) ==
  LET d == S.ex[s].disp IN
  CASE source = None -> withSessionOnOwner(S, d, "attach", s)
    [] source # None /\ S.ex[source].disp = d ->
         deliver(Follow(S, source, s), s, Missed(S, source, last))
    [] OTHER -> Post(S, S.ex[source].disp,
                     [op |-> "collect", stream |-> s, source |-> source, cursor |-> last])

\* openEventStream(): refused over the bound, else named, begun and resumed.
openEventStream(S, s, gets, source, last) ==
  IF gets >= MaxGetStreams
  THEN [S EXCEPT !.ex[s].mode = "Complete"]
  ELSE replayThenRegister([S EXCEPT !.stream_ids = @ \cup {s}, !.ex[s].mode = "Stream"],
                          s, source, last)

\* resumeAfterValidation(): an unknown session is answered with an error.
resumeAfterValidation(S, s, found, gets, source, last) ==
  IF found THEN openEventStream(S, s, gets, source, last)
           ELSE [S EXCEPT !.ex[s].mode = "Complete"]

\* The filter is destroyed with its connection: what comes back for it then
\* finds alive_ expired.
alive(S, s) == S.conn[s] # "down"

-----------------------------------------------------------------------------
(* Closures, in the order they were posted. *)

judge_SilentWhenGone(S, s, last) ==
  IF ~S.known THEN S
  ELSE Post(S, S.ex[s].disp,
            [op |-> "judged", stream |-> s, found |-> TRUE, gets |-> openGets(S),
             source |-> resumeFrom(S, last), cursor |-> last])

\* withSession(): the visit reads the session, and the verdict goes back to
\* whoever asked, found or not.
judge(S, s, last) ==
  Post(S, S.ex[s].disp,
       [op |-> "judged", stream |-> s, found |-> S.known, gets |-> openGets(S),
        source |-> IF S.known THEN resumeFrom(S, last) ELSE None, cursor |-> last])

RunTask(S, d, task) ==
  LET s == task.stream IN
  CASE task.op \in {"attach", "detach", "finish"} -> RunVisit(S, task.op, s)
    [] task.op \in {"write", "forward", "release", "end"} -> RunOnExchange(S, task)
    [] task.op = "judge" -> judge(S, s, task.cursor)
    [] task.op = "judged" ->
         IF alive(S, s)
         THEN resumeAfterValidation(S, s, task.found, task.gets, task.source, task.cursor)
         ELSE S
    [] task.op = "collect" ->
         Post(Follow(S, task.source, s), S.ex[s].disp,
              [op |-> "deliver", stream |-> s, missed |-> Missed(S, task.source, task.cursor)])
    [] task.op = "deliver" ->
         IF alive(S, s) THEN deliver(S, s, task.missed) ELSE S

RunNext(d) ==
  /\ queue[d] # <<>>
  /\ Become(RunTask([Now EXCEPT !.queue[d] = Tail(@)], d, Head(queue[d])))
  /\ UNCHANGED <<client, noted>>

-----------------------------------------------------------------------------
(* What happens on a dispatcher of its own accord. *)

\* The request's handler opens its response stream when it first has something
\* to say, perhaps long after the request was let in: open(), nameThisStream(),
\* registerResponseStream().
OpenAnswer(d) ==
  /\ conn[Answer] = "unborn"
  /\ Become(withSessionOnOwner(
              [Now EXCEPT !.conn[Answer] = "up", !.stream_ids = @ \cup {Answer},
                          !.ex[Answer] = [NewExchange(d) EXCEPT !.mode = "Stream"]],
              d, "attach", Answer))
  /\ at' = Answer
  /\ UNCHANGED <<cursor, received, noted>>

\* sendNotification(), sendRequest()
sendNotification ==
  /\ ex[Answer].mode = "Stream"
  /\ ex[Answer].next < AnswerEvents
  /\ Become(writeEvent(Now, Answer, Unnumbered(AnswerMessage(ex[Answer].next))))
  /\ UNCHANGED <<client, noted>>

\* sendResponse(): the last event, complete(), noteFinished().
sendResponse ==
  /\ ex[Answer].mode = "Stream"
  /\ ex[Answer].next = AnswerEvents
  /\ LET W == writeEvent(Now, Answer, Unnumbered(AnswerMessage(AnswerEvents)))
     IN Become(withSessionOnOwner(complete(W, Answer), ex[Answer].disp, "finish", Answer))
  /\ UNCHANGED <<client, noted>>

\* A GET arrives, with the id of the last event its client read:
\* validateThenDispatch(), judged inline or by a visit.
GetArrives(d, s) ==
  /\ at = None
  /\ conn[Answer] # "unborn"
  /\ conn[s] = "unborn"
  /\ LET B == [Now EXCEPT !.conn[s] = "up", !.ex[s] = NewExchange(d)]
     IN Become(CASE ~known -> resumeAfterValidation(B, s, FALSE, 0, None, cursor)
                 [] known /\ d = Owner ->
                      openEventStream(B, s, openGets(B), resumeFrom(B, cursor), cursor)
                 [] OTHER -> Post(B, Owner, [op |-> "judge", stream |-> s, cursor |-> cursor]))
  /\ at' = s
  /\ UNCHANGED <<cursor, received, noted>>

\* The server learns that a connection is gone: onConnectionGone() detaches an
\* exchange that is still a stream, and an answering one tells the session.
ConnectionGone(s) ==
  /\ conn[s] \in {"up", "left"}
  /\ at # s
  /\ LET G == [Now EXCEPT !.conn[s] = "gone", !.wire[s] = <<>>,
                          !.ex[s].detached = ex[s].mode = "Stream"]
     IN Become(IF s = Answer THEN withSessionOnOwner(G, ex[s].disp, "detach", s) ELSE G)
  /\ UNCHANGED <<client, noted>>

\* Its filter is destroyed with it, which is put off until the calls under way
\* have returned: closures may run in between.  A standalone stream is detached
\* from the session only now.
FilterDestroyed(s) ==
  /\ conn[s] = "gone"
  /\ LET D == [Now EXCEPT !.conn[s] = "down"]
     IN Become(IF s = Answer THEN D ELSE withSessionOnOwner(D, ex[s].disp, "detach", s))
  /\ UNCHANGED <<client, noted>>

\* currentStream(): the newest live standalone stream, by its place.
liveGets == {i \in DOMAIN streams : kind(streams[i]) = "Get" /\ live(Now, streams[i])}
IsCurrent(i) == i \in liveGets /\ \A j \in liveGets : j <= i

\* routeUnsolicited(): to the current stream, else to the queue.
routeUnsolicited ==
  /\ noted < Notes
  /\ known
  /\ noted' = noted + 1
  /\ \/ \E i \in liveGets :
           IsCurrent(i) /\ Become(writeToStream(Now, streams[i], Note(noted + 1)))
     \/ /\ liveGets = {}
        /\ Become([Now EXCEPT !.pending =
             Append(IF Len(@) >= PendingLimit THEN Tail(@) ELSE @, Note(noted + 1))])
  /\ UNCHANGED client

\* endStream(): the server ends the current standalone stream, marking it on
\* the owner before the bytes go anywhere.
endStream ==
  /\ setting.sweeps
  /\ known
  /\ \E i \in liveGets :
       /\ IsCurrent(i)
       /\ LET s == streams[i]
              M == [Now EXCEPT !.ctx[s].conn = FALSE, !.ctx[s].producing = FALSE]
          IN Become(OnExchange(M, [op |-> "end", stream |-> s]))
  /\ UNCHANGED <<client, noted>>

\* sweepFor(): streams that nothing more is written to start their window at
\* one sweep and go at a later one.
finished(s) == IF kind(s) = "Get" THEN ~ctx[s].conn ELSE ~ctx[s].producing

Marked == [Now EXCEPT !.ctx = [s \in Streams |->
             IF s \in Range(streams) THEN [ctx[s] EXCEPT !.retiring = finished(s)] ELSE ctx[s]]]

\* Those due, one by one, in the order they opened.
closeDue(S, ss, due) ==
  LET T[n \in 0..Len(ss)] ==
        IF n = 0 THEN S ELSE IF ss[n] \in due THEN closeStream(T[n - 1], ss[n]) ELSE T[n - 1]
  IN T[Len(ss)]

retireStreams ==
  /\ setting.sweeps
  /\ known
  /\ \E due \in SUBSET {s \in Range(streams) : finished(s) /\ ctx[s].retiring} :
       Become(closeDue(Marked, streams, due))
  /\ UNCHANGED <<client, noted>>

\* The session goes: expired at a sweep, which spares one with a live
\* standalone stream, or ended by the client's DELETE.
SessionExpires ==
  /\ setting.sweeps
  /\ known
  /\ \A s \in Range(streams) : kind(s) = "Get" => ~live(Now, s)
  /\ Become(removeOwned(Now))
  /\ UNCHANGED <<client, noted>>

SessionDeleted ==
  /\ setting.sweeps
  /\ known
  /\ Become(removeOwned(Now))
  /\ UNCHANGED <<client, noted>>

-----------------------------------------------------------------------------
(* The client. *)

Read ==
  /\ at # None
  /\ wire[at] # <<>>
  /\ received' = Append(received, Head(wire[at]).msg)
  /\ cursor' = Head(wire[at]).id
  /\ wire' = [wire EXCEPT ![at] = Tail(@)]
  /\ UNCHANGED <<setting, known, streams, ctx, pending, stream_ids, ex, conn, queue, at, noted>>

\* It loses the connection, with what was still under way.
Leave ==
  /\ at # None
  /\ conn' = [conn EXCEPT ![at] = "left"]
  /\ wire' = [wire EXCEPT ![at] = <<>>]
  /\ at' = None
  /\ UNCHANGED <<setting, known, streams, ctx, pending, stream_ids, ex, queue, cursor, received, noted>>

\* It reads to the end of an answer that is over.
ReadEnd ==
  /\ at # None
  /\ ex[at].mode = "Complete"
  /\ wire[at] = <<>>
  /\ conn' = [conn EXCEPT ![at] = "left"]
  /\ at' = None
  /\ UNCHANGED <<setting, known, streams, ctx, pending, stream_ids, ex, wire, queue, cursor, received,
                 noted>>

SessionNext ==
  \/ \E d \in setting.dispatchers : OpenAnswer(d)
  \/ \E d \in setting.dispatchers, s \in setting.gets : GetArrives(d, s)
  \/ sendNotification
  \/ sendResponse
  \/ \E s \in Streams : ConnectionGone(s) \/ FilterDestroyed(s)
  \/ routeUnsolicited
  \/ endStream
  \/ retireStreams
  \/ SessionExpires
  \/ SessionDeleted
  \/ \E d \in Dispatchers : RunNext(d)
  \/ Read
  \/ Leave
  \/ ReadEnd

\* A step of RunNext(d), told by the queue: nothing else takes from it, and no
\* closure posts itself again.
TakesOne(d) == ~IsPrefix(queue[d], queue'[d])

\* Every dispatcher runs what is posted to it, and a client reads what arrives.
SessionFairness ==
  /\ \A d \in Dispatchers :
       []<>(queue[d] = <<>>) \/ []<><<TakesOne(d)>>_sessionVars
  /\ WF_sessionVars(Read)

SessionSpec == SessionInit /\ [][SessionNext]_sessionVars /\ SessionFairness

-----------------------------------------------------------------------------
(* Properties *)

SessionTypeOK ==
  /\ setting \in Settings
  /\ known \in BOOLEAN
  /\ streams \in Seq(Streams)
  /\ ctx \in [Streams -> StreamCtx]
  /\ pending \in Seq(Messages) /\ Len(pending) <= PendingLimit
  /\ stream_ids \subseteq Streams
  /\ ex \in [Streams -> Exchange] /\ \A s \in Streams : Len(ex[s].replay) <= ReplayLimit
  /\ conn \in [Streams -> {"unborn", "up", "left", "gone", "down"}]
  /\ wire \in [Streams -> Seq(Events)]
  /\ queue \in [Dispatchers -> Seq(Tasks)]
  /\ at \in Streams \cup {None}
  /\ cursor \in Ids
  /\ received \in Seq(Messages)
  /\ noted \in 0..Notes

\* No message reaches the client twice, whichever streams it was written to,
\* kept on, replayed from or forwarded over.  ("a message delivered twice is
\* worse than one delivered late")
NoDuplicate == IsInjective(received)

\* The answer arrives in the order it was produced: a forwarded event never
\* overtakes the replay it comes after.
AnswerPart == SelectSeq(received, LAMBDA m : m[1] = "answer")
AnswerInOrder ==
  \A i, j \in DOMAIN AnswerPart : i < j => AnswerPart[i][2] < AnswerPart[j][2]

\* ... and without a hole, while the session stands and its buffers are large
\* enough.  (A resume that finds its buffer released still follows the stream.)
AnswerWithoutGap ==
  known => \A i \in DOMAIN AnswerPart : AnswerPart[i][2] = i

\* Unsolicited messages arrive in the order they were sent, whether written,
\* queued while nothing was connected, or replayed: what was waiting is handed
\* over after what was missed.
NotesInOrder ==
  \A i, j \in DOMAIN received :
    (i < j /\ received[i][1] = "note" /\ received[j][1] = "note")
      => received[i][2] < received[j][2]

\* A message waits in the session only while there is no stream it could have
\* gone to.  ("Whatever the server had to say while nothing was connected has
\* been waiting for exactly this")
NothingWaitsBehindALiveStream ==
  pending # <<>> => \A s \in Range(streams) : kind(s) = "Get" => ~live(Now, s)

\* A session never holds more open standalone streams than it may, while its
\* connections are on its own dispatcher.  (From another one a GET is admitted
\* on a count that may be stale when its stream is opened.)
GetStreamsBounded == setting.dispatchers = {Owner} => openGets(Now) <= MaxGetStreams

\* A stream the session holds keeps its id reserved: no other stream can draw
\* the id that a returning client's cursor names.
HeldIdsReserved == Range(streams) \subseteq stream_ids

\* When nothing is under way any more ...
Quiet ==
  /\ \A d \in Dispatchers : queue[d] = <<>>
  /\ \A s \in Streams : wire[s] = <<>>
  /\ \A s \in Streams : conn[s] = "up" => at = s

\* ... a client that read part of the answer, came back and is connected has
\* the whole of it once it is finished.  ("a client that comes back is owed whatever
\* it missed": not always, one message read in between is enough.  The cursor then
\* names a standalone stream, which is replayed and not followed.)
AnswerReachesReturningClient ==
  (Quiet /\ at \in GetStreams /\ ex[at].mode = "Stream" /\ AnswerPart # <<>>
     /\ ex[Answer].mode = "Complete")
  => \E i \in DOMAIN received : received[i] = AnswerMessage(AnswerEvents)

\* ... which holds of a session on one thread that is not swept away and sends
\* nothing unsolicited.
AnswerReachesLoneReader ==
  (setting.dispatchers = {Owner} /\ setting.notes = 0 /\ ~setting.sweeps)
    => AnswerReachesReturningClient

\* A GET whose session another thread owns is answered in the end, one way or
\* the other, unless its connection goes first.
ParkedIsAnswered ==
  []<>\A s \in GetStreams : conn[s] = "up" => ex[s].mode # "Open"

\* The session's books are sound under every interleaving of its dispatchers:
\* the streams it holds keep their ids, its dispatcher lets in no more open
\* standalone streams than there may be, and no buffer keeps more than its limit.
StreamsSound == SessionTypeOK /\ HeldIdsReserved /\ GetStreamsBounded

\* A client that is cut off and comes back reads what the server wrote: nothing
\* twice, the answer and the unsolicited messages each in their order, the
\* answer without a hole and, where nothing else is going on, to its end.
ReadAsWritten ==
  /\ NoDuplicate
  /\ AnswerInOrder
  /\ AnswerWithoutGap
  /\ NotesInOrder
  /\ AnswerReachesLoneReader
=============================================================================
