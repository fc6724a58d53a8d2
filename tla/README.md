# A TLA+ verification of gopher-mcp

gopher-mcp is a C++ SDK for the Model Context Protocol: a client, a server, the
transports between them and the filter chains on each connection. This
directory holds TLA+ modules translated from its source, the TLC configurations
that model-check them on small instances, and TLAPS proofs of what matters most
for every instance. Paths such as `server/task_store.cc` are under `src/src/` or
`src/include/mcp/`.

To run it: `tlc -config MCTaskStore.cfg MCTaskStore` for a run (the table in
section 5 gives module and configuration), `tlapm TaskStoreProofs.tla` for the
proofs of a module.

Contents

1. The system and its parts (the inventory)
2. The plan
3. What the parts rely on
4. The modules and the code they model
5. The runs: what each shows, its bounds, its fairness
6. What is proved, and how
7. What the checks found in the code
8. Hazards that no property covers
9. What is not modelled, and why

## 1. The system and its parts

Threads. An event dispatcher owns a thread; connections, filters, sessions and
the client's state belong to one dispatcher and are touched only on it. Other
threads reach them by posting a closure. The exceptions are the classes with a
mutex of their own, which any thread may call: the task store, the circuit
breaker, the protocol state machine and the request tracker. Two patterns recur
and carry most of the difficulty:

* *mutate under the lock, call back after the unlock* (task store, exchange
  registry, cancellation tokens): the callback sees a state that has moved on;
* *copy on one thread, act on another* (session resume, verdicts on a parked
  GET, the commit of an initialize): what was copied may be stale when used.

Two more belong to one thread. *Re-entrancy*: a send, a close or an event calls
back into the object that made it (subscription registry, connection events,
breaker, the gate of a connection). *Races between what a thread is handed*: a
deadline and the answer it waits for, a posted task and the bytes that come in
before it.

| part | state it keeps | operations | what is hard | what makes it correct |
|---|---|---|---|---|
| **Task store** `server/task_store.*` | entries by id: owner, status, open question, keys used, observers, deadline | create, get, update, cancel, sweep; on a handle: setStatusMessage, finish, askForInput, onCancelled | any thread; callbacks after the unlock, re-entrant; expiry | final tasks never change; an answer reaches its asker, once; observers hear of a cancellation once; the share is respected; every change is told |
| **Streamable HTTP sessions** `transport/streamable_session_manager.*`, `filter/streamable_http_filter.cc` | directory of sessions; per session its streams, queue of unsolicited messages, ids spoken for | open, resume, detach, finish, end, retire, expire, delete; route a message | a session and its connections on different threads; a client that leaves and comes back in the middle of anything | no event lost, doubled or reordered; bounds on streams and buffers; nobody waits for ever |
| **Request exchange, registry, retention, gate** `transport/request_exchange.*`, `transport/exchange_registry.*`, `http/http_response_writer.*`, the gate of `filter/http_codec_filter.cc` | per request a mode (open, one answer, a stream, complete) and its cancellation token; the exchanges kept after their connection; the requests held back | respondJson, respondUnary, beginStream, writeEvent, complete; onConnectionGone | completing an answer reopens the gate, which dispatches the next request before the end is written; loss of a connection with requests in every mode; one timer for all that is kept | answered once and readably; what a lost connection leaves is kept or told; what is kept is released |
| **Subscription registry** `server/listen_registry.*` | the subscription held under each (caller, id), its stream and filter | open, publish, sendRequest, close, closeAll, forgetDead | every send can re-enter: cancel, close or replace any entry | a change reaches everyone still held; a request goes out once; nobody dead is held |
| **Server sessions of the older transports** `filter/server_connection_mode.*`, `filter/sse_session_registry.*`, the server half of `filter/http_sse_filter_chain_factory.cc`, `SessionManager` and `ResourceManager`, the dispatch of `server/mcp_server.cc` | what each connection is for; stream id to connection; sessions by id, by connection and by stream; subscribers of each resource | a stream, a POST's headers, its body, a close, the expiry timer, an update | a POST comes in two pieces on a connection of its own, and the stream it names may close between them; three maps of sessions, and every accepted HTTP connection takes a session of its own out of `max_sessions` | the maps agree; an answer reaches the client it answers; an update goes to those who were told it would |
| **Questions a server asks** `McpServer::sendRequest`, `ClientRequestCorrelator` | a promise per question, a waiter, a timer | ask (from either thread), answer, deadline, session's end, server's end | deadline, answer, the asker's own wait and the end of the session race for one promise | sent to the client that was asked; settled once, and always |
| **MCP server: handlers** `server/mcp_server.cc`, `server/list_paging.*` | handler tables, cursors | tools, prompts, resources, completions | data rather than control | each a function of its request |
| **Protocol state machine** `protocol/mcp_protocol_state_machine.*` | state, attempts, state timer, last error | handleEvent, the timeout | callbacks made inside a transition; timers of states already left | a timer only for the state it was armed for; no waiting state is final |
| **Client lifecycle** `client/mcp_client.cc`, `mcp_connection_manager.cc` | connected, initialized, connect()'s promise, a connection, the machine above | connect, reconnect, initialize, disconnect; connection events; errors | nested callbacks; a worker thread inside initialize; losses reported twice | flag, connection and machine agree; an ended conversation stays ended; connect() is answered, once, truly |
| **Transport probing** `client/transport_probe.*`, `http/http_async_client.cc` | which question is out, its deadline, the requests under it | probe, answer, deadline, fall to the next rung | a deadline does not end its request; requests and connections of other origin while the search is on | each rung climbed once, one transport started, an end in bounded time |
| **Client requests** `client/mcp_client.*` | the tracked requests under their ids; clocks, queues, own connections, the handshake under way | call, answer, timeout, cancel, retry, carry over to a new id, poll a task, re-initialize | one call goes through many ids; refusals, losses and late answers in the middle of each | each promise kept once; nothing sent after its end; nobody stranded |
| **Legacy SSE client** `filter/client_sse_state_machine.*`, the client half of `filter/http_sse_filter_chain_factory.cc`, the POST connection of `mcp_connection_manager.cc` | negotiation state and its timer, a queue of messages, the POST under way | write, headers, event, timeout, flush | messages written while the flush is posted; the timer is disarmed before the endpoint is known | a message is in one place, handed over once, and what waits has a way out |
| **Connections** `network/connection_impl.cc`, `transport/` plain socket | state, buffers, what is listened for, close timers | connect, write, read, close of each type, half close | edge-triggered events; a close inside a callback; both ends full | no wake-up lost; a close ends, is told once, and loses nothing flushed |
| **Dispatcher and workers** `event/libevent_dispatcher.cc`, `event/worker.cc` | post queue, wake-up pipe, timers, deferred deletes, flags | post, run, exit, timers, deferredDelete, start, stop | a push and its byte are two steps; break and flag are both forgotten by some phase; destructors that defer more | each closure runs once, in order; nothing is destroyed under its own callback; a stop is heeded |
| **Circuit breaker** `filter/circuit_breaker_filter.h` | circuit state, window of outcomes, tests made, requests awaited | admission, response, protocol error | late and missing answers; the next handler is called under the mutex | few tests get through; it never sticks; a closed circuit is healthy |
| **Streamable HTTP client session** `transport/streamable_http_client_session.*` | session id, revision, last event id | record, resume | - | a resume names the right event |
| **Connection manager: choice and listening** `mcp_connection_manager.cc` | the transport chosen, listeners | createFilterChainFactory, listen | - | - |
| **Rate limit, backpressure, metrics, validation** `filter/*` | buckets, windows, watermarks | on each message | the clock at window edges | no more than the limit |
| **Tables**: connection state machine, filter chain, TLS, transport socket, HTTP and SSE codecs | a state, timers, listeners | one handler per event | listeners that raise events | only legal transitions |
| **Listeners, pools, sockets, TLS and stdio sockets, parsers** `network/*`, `transport/*`, `http/*` | handles, accept queues, parser positions | input and output | - | - |
| **C API** `c_api/*` | handles with reference counts, guards, transactions | create, release, commit, roll back | release from several owners | freed once; all or nothing |
| **Config, logging, JSON, protocol helpers** | documents, levels, values | load, merge, validate, convert | data rather than control | pure functions |

How they interact. A server connection's filter chain decodes a request and
opens an *exchange* for it. For a GET or an answer by stream, the exchange is
registered with the *session*, which numbers its events and keeps them for a
client that comes back. `subscriptions/listen` holds its stream in the
*subscription registry*; `tasks/*` go to the *task store*, whose changes are
told to the registry's `publish`. On the older transports the connection's mode
and the *stream registry* say which *session* a message belongs to, and the
server's *questions* travel down the same streams. On the other side the *client*
searches for a transport with *probes*, tells its *protocol state machine* of
each *connection* event, and hands *requests* to a tracker whose clocks, retries
and handshakes outlive any one connection. Under all of them a *connection* moves
bytes from one *dispatcher* to another.

## 2. The plan

Modules come in the order of what would hurt most if it were wrong: first the
server's state that several threads and returning clients share, then the
client's life and its requests, then the older transports, then what all of them
stand on, then the state machines whose control is a table.

| step | module | composes | state |
|---|---|---|---|
| 1 | `TaskStore`, `TaskStoreProofs` | - | done |
| 2 | `StreamableSessions`, `DispatcherProofs` | session manager, exchanges, filter | done |
| 3 | `ListenRegistry`, `ListenRegistryProofs` | registry and the streams under it | done |
| 4 | `McpProtocolStateMachine`, `ClientLifecycle`, `ClientLifecycleProofs` | machine, client, connection, transport probes | done |
| 5 | `CircuitBreaker`, `ClientFilterProofs` | breaker and the handler after it | done |
| 6 | `RequestExchange`, `RequestLifetime`, `RequestExchangeProofs` | exchange, registry, retained store, writer, gate; the second is what the first implements | done |
| 7 | `ClientRequests`, `ClientFilterProofs` | tracker, clocks, cancellation, retry, tasks, handshakes | done |
| 8 | `LegacySseClient`, `ClientFilterProofs` | negotiation, queue, POST connection | done |
| 9 | `ServerSessions`, `ServerQuestions`, `ServerSessionsProofs` | connection modes, registry, session maps, subscribers; the second EXTENDS the first | done |
| 10 | `ConnectionPair`, `ConnectionPairProofs` | two connections, their sockets and loops | done |
| 11 | `Dispatcher`, `DispatcherProofs` | loop, posting threads, owner | done |
| 12 | `FlowControl` | rate limiting, backpressure | planned |
| 13 | one module per table: transport socket, TLS, HTTP and SSE codecs | timers | planned |
| 14 | `Handles` | C API handles, guards, transactions | planned |

Abstract specifications: *the life of a request* is `RequestLifetime`, which
`RequestExchange` implements. Still worth stating are *a reliable stream* (what
was sent is received, in order, once), for `StreamableSessions`, whose property
`ReadAsWritten` says it by parts, and *a task* (a status that moves forward only),
for `TaskStore`.

Theorems worth proving, beyond those of section 6: `ReadAsWritten` of
`StreamableSessions`, part by part. Where a callback walks a sequence of any length
(a queue flushed, the requests a lost connection fails, what was held for a
handshake), the walk is a function of a number, so that a lemma can say what every
stage of it preserves; section 6 says how.

## 3. What the parts rely on

* *The dispatcher* runs one callback at a time to its end on its own thread;
  a posted closure runs once, later, in order; a due timer runs; what is handed
  to `deferredDelete` is destroyed later. `Dispatcher` models how it keeps this,
  and where it does not: nothing runs once the loop has ended, and a worker that
  was shut down and started again runs no timers. The other modules take a
  callback as one atomic action and a post as an entry in a queue.
* *A connection* delivers in order until it is lost, and the loss may be noticed
  late. `ConnectionPair` models two ends over one kernel buffer in each
  direction; the others take a connection as up, lost, or between the two.
* *A mutex* makes what is done under it atomic. What is done after the unlock is
  separate steps.
* *Random ids* (task ids, stream ids, session ids) are never drawn twice.
* *Time* is whether a deadline has passed, or is counted in ticks where one
  deadline is compared with another. A steady clock only lets it pass.

## 4. The modules and the code they model

`PROJECT.json` maps every definition to its lines. Definitions with a suffix,
such as `create_OverShare`, are wrong variants of the definition before the
underscore; nothing uses them. They show that a property can fail.

**`TaskStore`** (`server/task_store.cc`). `entry`, `held` and `due` are
`entries_` and the deadlines; `owed` holds, per thread, the calls it still has to
make after its unlock, in order; `inside` marks a thread that is inside such a
call. `create`, `update`, `cancel`, `sweep`, `onCancelled`, `setStatusMessage`,
`finish` and `askForInput` are the first halves, `tell`, `CallOnAnswered` and
`CallObserver` the second halves. A thread inside a callback may start any
operation: its calls go in front of those it owed. `heard`, `informed` and
`answered` are history.

**`StreamableSessions`** (`transport/streamable_session_manager.cc`,
`filter/streamable_http_filter.cc`, `transport/request_exchange.cc`). One session
owned by one dispatcher. `ctx`, `streams`, `pending` and `stream_ids` are the
manager's; `ex` is the exchange behind each stream (mode, buffer, follower,
detached); `conn` and `wire` its connection and the bytes under way; `queue` the
closures posted to each dispatcher. The server's state is one record that the
code's functions (`writeEvent`, `deliver`, `judge`, `openStream`,
`finishStream`, `detachConnection`, `retainEvent`, ...) map to the next, because a
callback is a chain of such calls: `Become` installs the result. A loop over a
sequence (`flushPending`, `replayMissed`, `closeDue`, `removeOwned`) is a function of
how far it got. `RunNext` runs
the oldest posted closure. A connection is lost in two steps, as in the code:
`ConnectionGone` is the exchange's `onConnectionGone`, `FilterDestroyed` the later
destruction of its filter, which detaches the connection from the session. The
client reads, leaves without saying so, comes
back with the id of the last event it read, or reads to the end.

**`RequestExchange`** (`transport/request_exchange.cc`,
`transport/exchange_registry.cc`, the writer and the codec's gate). The same
exchanges seen from one connection and without sessions: what matters is which
call is inside which. `stack` has a frame for every call that hands control on,
`dispatch` to a handler and `finish` of a stream, which reopens the gate *before*
the end of the stream is written; `WriteTail` is what is left of that call. `held`
are the requests the gate keeps, `wire` what the client reads, `kept` and
`expiring` the store of exchanges that outlive a connection, with one `timer` for
all. **`RequestLifetime`** is the promise: a request is open, streams, is
answered or cancelled, or kept until it is finished and released, and each of
these only from the right one before. `LifeOf` maps an exchange to it and
`ImplementsLifetime` is its specification with that mapping, its fairness
included.

**`ListenRegistry`** (`server/listen_registry.cc`). `stack` is the stack of calls
under way: each send is a call out of the registry during which anything may be
called or cancelled, and only the innermost frame moves. A frame carries the
recipients it settled on; `Visit` picks the next and asks `isCurrent` again,
`Write` and `Refuse` are the two ends of a send, `SendReturns` goes on from it.
`observers` are the callbacks on each stream's cancellation token.

**`McpProtocolStateMachine`** is operators only: `Table` is the transition table,
`HandleEvent` one event under the machine's mutex with what it does to the
attempts, the timer and the error. **`ClientLifecycle`** is one action per
callback on the client's dispatcher (connect, connected, lost, error, timeout,
a request that finds no connection, initialize in four parts around its worker
thread, re-initialization, disconnect from either side). Closing a connection
reports its end before close() returns, so each handler is an operator from
the client's state to the next, and they nest as the calls do. `ladder` is the
search for a transport: which probes have a request out (`asked`) and which have
still to report (`reporting`); `ProbeAnswered` ends a request, heard or not,
`ProbeTimeout` is its deadline, `ModernSettled` and `ClassicSettled` are what the
client does with an outcome. The last rung is not asked but attempted: while
`probing` is set a connection that comes up proves nothing, one that is lost is
the attempt failing, and `handleMessageEndpoint` or `LegacyTimeout` ends it.
`told` is connect()'s promise.

**`ClientRequests`** (`client/mcp_client.cc` and `.h`). The client's fields and its
tracker are one record, `client`, and its functions operators on it. A call is
known by its *origin*, the id it was first given; `carryOver` gives it another,
and promise, clock, own connection and continuation cross over with it. The
client's own work (a handshake, a poll of a task, a page of a listing) is requests
too, under ids that are used again. `queue` holds what other threads posted, `held`
what waits for a handshake, `retries` and `polling` what waits for a timer, `own`
the connections opened for one request. A `world` fixes the era, whether calls
are made off the dispatcher, and whether connections hold.

**`LegacySseClient`** (`filter/client_sse_state_machine.cc`, the client half of
`filter/http_sse_filter_chain_factory.cc`, `mcp_connection_manager.cc`). `filter`
is the negotiation's machine with its timer and the queue of what waits for the
endpoint; `posted` the dispatcher's tasks in order (a message written from outside
is a task, and so is the flush); `net` the stream and the one POST connection,
which each next POST replaces. `fate` follows each message.

**`ServerSessions`** (the files named at its head). `conn` has each connection's
mode and where its POST stands (headers read, body to come); `streams` and
`registry` the event streams; `server` the three maps of sessions and the
subscribers of each resource; `wants` is history: what the client on a stream was
told it is subscribed to; `told` who heard the last update; `astray` answers that
went where nobody reads. `onNewConnection` gives every accepted HTTP connection a
session of its own before anything is read from it: it counts against
`MaxSessions`, may set off the sweep, and where no room can be made the connection
is closed. A pipe gets its session with its first message. **`ServerQuestions`**
adds, for each question, the promise the correlator keeps (`inner`) and the future
its caller waits on (`future`), the waiter, the deadline, the closures posted from
other threads, and the server's own end. `onResponse` takes a response from
anybody, in the body of any POST or on a pipe, since the code finds the waiter by
the id alone; `Answerer` records whose it was.

**`ConnectionPair`** (`network/connection_impl.cc`, the plain transport socket, the
file events of `event/libevent_dispatcher.cc`). Two ends, each with its state, its
queue of output, what it listens for (`enabled`), what has become ready since
(`woken`) and its close timers; between them a kernel buffer of `Room` in each
direction. `RunFileEvent` is the whole callback: the write half, the read half, the
filters' reaction (take, reply, reply and close, disable reading), and the timers
it sets. The connect timer of the connection state machine belongs to it.

**`Dispatcher`** (`event/libevent_dispatcher.cc`, `event/worker.cc`). `loop` says
where `run()` is and which callback it is in, and while one lasts it may do
anything the class offers; `posts` has the queue, the byte in the pipe, and the
threads between their push and their write (`owes`); `deferred` the list, what
has been swapped out of it to be destroyed (`doomed`) and what the callback under
way handed over (`fresh`). `stopper` stops and joins. A `world` is who owns it: a
worker once or started again, a client, a server with its two calls of `run()`.

**`CircuitBreaker`** (`filter/circuit_breaker_filter.h`, and the enhanced chain's
`onProtocolError`). `outcomes` is the window, from which any number of the
oldest may be gone at the next look; `dispatching` is the call of the next
handler, made under the mutex for responses and errors. `tested` and `reused` are
history, `peer` says whether answers are still allowed to fail.

The MC modules only define settings, symmetry and model values; configurations
give the constants their values and replace no definition. A module whose
behaviour differs by setting takes a set of settings as a constant (`Worlds`,
`Settings`, `Workloads`), so that one run covers them all.

## 5. The runs

Bounds are constants: each names what it cuts (`MaxUpdates`, `MaxOwed`,
`MaxCalls`, `MaxDepth`, `MaxDials`, `MaxOutcomes`, `MaxConsecutive`, `MaxRequests`,
`MaxEvents`, `MaxIds`, `MaxMessages`, `MaxStreams`, `MaxInputs`, `MaxBytes`), and a
step that would pass it is not taken.

| run | configuration | states | what it asks |
|---|---|---|---|
| `task_store` | `MCTaskStore.cfg` | 517,577 | is every task sound, every answer its asker's, everyone told, in every interleaving of two threads' operations and callbacks? |
| `sessions` | `MCSessions.cfg` | 1,927,785 | does a client that is cut off and comes back read what was written, on one thread or two? |
| `request_exchange` | `MCRequestExchange.cfg` | 96,608 | is each request answered once and readably, and does it live the life it was promised? |
| `listen_registry` | `MCListenRegistry.cfg` | 2,604,107 | do sends that cancel, close and replace in the middle of a delivery leave the registry sound? |
| `client_lifecycle` | `MCClientLifecycle.cfg` | 59,354 | do machine, connection, client and search agree in any order of callbacks, and does every wait end? |
| `client_requests` | `MCClientRequests.cfg` | 285,522 | does every call end, once, whatever refuses, loses or outruns it? |
| `legacy_sse_client` | `MCLegacySseClient.cfg` | 20,410 | where is each message while the endpoint is unknown, and does it leave? |
| `server` | `MCServer.cfg` | 1,459,609 | do the tables agree, do answers, updates and questions go where they should, is every question settled, once? |
| `connection_pair` | `MCConnectionPair.cfg` | 342,938 | is a wake-up ever lost, and does every close end? |
| `dispatcher` | `MCDispatcher.cfg` | 291,598 | does what is posted run, what is handed over go when it may, and a stop stop? |
| `circuit_breaker` | `MCCircuitBreaker.cfg` | 29,276 | can the circuit stick, and does it recover? |
| `circuit_reentry` | `MCCircuitReentry.cfg` | (violated) | does a protocol error get past the breaker? |

What each checks, and why the bounds are enough.

* `task_store` (`TasksSound`, `AnswersFindTheirQuestion`, `WithinShare`,
  `FinalIsFinal`, `EveryoneIsTold`): two tasks of one caller whose share is one (so
  that a second `create` is refused until the first ended or expired), two keys (so
  that an answer can be partial and a second question can follow), one observer
  (placed before, during or after the cancellation), two threads and one call still
  owed when another operation starts (so that halves interleave and callbacks
  re-enter), two changes per task before setStatusMessage is cut. The properties
  relate one task's question to the calls two threads owe; a third thread adds no
  new pair.
* `sessions` (`StreamsSound`, `ReadAsWritten`, `NothingWaitsBehindALiveStream`,
  `ParkedIsAnswered`): six settings. In four the session is on one dispatcher and
  connections may be on the other, so that the copy of a buffer, the verdict, the
  replay and the forwarding all cross. *AnsweredAcross*: an answer of three events
  and two returns. After the first event the client has a cursor; the second can
  overtake the replay, be written twice, or fall between the copy and the
  observer; and the third can do so again once the stream that resumed it is lost.
  *NotedAcross*: two unsolicited messages and two returns, so that two messages
  wait, are routed or are forwarded in either order. *EndAcross* and *NoteAcross*:
  the end of an answer, and one unsolicited message, with sweeps, expiry and
  DELETE at any point, so that the session can be gone when a parked GET is
  judged. Two settings are of one dispatcher. *Resuming*: an answer of three events,
  a buffer as long, three returns with at most two open streams, so that a stream
  is lost, resumed, the resumed one lost too, and the bound met. *Sweeping*: two
  unsolicited messages and a queue of one, so that one waits and one is dropped,
  and buffers of two, so that the oldest is dropped. A client has one GET at a time,
  so GETs are named in the order they arrive (`InOrder` of the MC module). What
  holds in one setting only says so in its definition: `AnswerReachesLoneReader` of
  a session alone, `GetStreamsBounded` of one whose connections are all on its own
  dispatcher. With two dispatchers the bound is not true of the code (section 7),
  though three streams are too few to pass it here.
* `request_exchange` (`ExchangesSound`, `WireReadable`, `ImplementsLifetime`): two
  requests (one whose answer streams and one behind the gate), six kinds (a client
  that reads streams, in either era, one that does not, one that must stream, one
  of HTTP/1.0, a notification), one event and one observer each, one place behind
  the gate so that a further request overruns it, a retention of two ticks so that
  two deadlines differ. Worlds: pipelining or not, handlers that answer at once or
  later, the gate or the single-use connection.
* `listen_registry` (`SentAsAsked`, `SubscriptionsSound`, `PublishReachesAll`):
  two ids and streams of one caller, four calls nested at most two deep: open two,
  publish, and inside the publish replace one of them. Streams are
  interchangeable, and so are ids, and both are used symmetrically;
  `PublishReachesAll` is a property of single steps that quantifies over them
  alike, so the symmetry is sound for it. There is more than one caller only in
  that a key is a pair; calls never relate two callers.
* `client_lifecycle` (`MachineAgrees`, `OneLossOneAttempt`, `OverIsOver`,
  `WaitsEnd`): two attempts to reconnect, and three connections beside the one the
  search or connect() makes: both attempts used, one dialled while the search is
  on, one after. All ways up the ladder, each with every outcome.
* `client_requests` (`NothingIsStranded`, `EndIsFinal`, `CallsEnd`): two calls
  where they share a session (a handshake, one held behind it) and one elsewhere;
  five ids, so that a call, what it is carried over to, a poll and a handshake are
  there at once; a timeout of one tick and at most two, so that progress can extend
  a clock once; one redial, one round of questions, one resume. Worlds: the newest
  revision and the sessions of earlier ones, each with connections that hold and
  with ones that do not, and stdio with calls from other threads.
* `legacy_sse_client` (`QueueSound`, `QueueEmpties`): four messages: one queued
  before the stream is up, one before the endpoint, one written while the flush is
  posted and one after; two announcements, so that the second finds a queue behind
  the first's flush.
* `server` (`TablesAgree`, `NothingAstray`, `UpdatesReachSubscribers`,
  `QuestionsSound`, `SettledOnce`, `EveryQuestionSettles`): where nobody is asked,
  three HTTP connections (two streams and a POST, or a stream and two POSTs) and
  four things arriving, or two and a pipe and three; two streams, one resource. At
  most three sessions: two accepted connections and the first stream are three
  already, so the next message or connection meets the limit, sets off the sweep
  where one has gone quiet, and is refused or closed where none has. Where there
  are questions, two HTTP connections or a pipe, with two or three things
  arriving: one question from either thread, two from the dispatcher, or one from
  each. HTTP connections are alike until they are accepted, and are named in that
  order (`InOrder` of the MC module).
* `connection_pair` (`PairSound`, `NoWakeUpLost`, `ClosingIsDeaf`, `ClosingEnds`):
  two bytes each way and room for one, so that a write is cut in two and waits; an
  impatient server, a client that may half close, every reaction of a filter and
  every type of close, with the delayed-close timer set.
* `dispatcher` (`PostsSound`, `DeletedAfterUse`, `LoopKeepsItsWord`): two closures
  (so that one finds the queue empty and one does not), one thread that posts
  beside the callbacks, one that stops, one timer, two objects (one handed over in
  the other's destructor), and the five worlds.
* `circuit_breaker` (`CountsBounded`, `NotStuck`, `RecoversWhenHealthy`): no closed
  circuit is at its failure threshold and no half-open one at its success
  threshold, over any number of openings. How many tests a half-open circuit lets
  through is no part of it (section 7). Two failures open, two successes close,
  three requests are the least that are judged, three ids: more than the tests let
  through. The counters that grow (`consecutive`, the window) are cut at one past
  the threshold.

Deadlock is checked in `circuit_breaker`, which never stops. The other systems
come to rest: their ids, calls, inputs or dials run out, and
`CHECK_DEADLOCK FALSE` says so.

Fairness, and what justifies it.

* `TaskStore`: `WF(Deliver(th))`. The thread that unlocked goes on in the same
  function to make its calls; nothing waits there.
* `StreamableSessions`: every dispatcher's loop drains its post queue, written as
  *infinitely often empty or infinitely often taken from*; `WF(Read)`, a connected
  client reads what arrives. No fairness on what
  a client or a server application chooses to do.
* `RequestExchange`: the call on top of the stack goes on (`Dispatch`,
  `EndDispatch`, `WriteTail`), and the loop runs its timer and its deferred deletes
  (`releaseExpired`, `DeferredDelete`, `Tick`). No handler owes an answer.
* `ClientLifecycle`: the loop runs its timers: the machine's, the probes', the
  window of the oldest transport. A timer is enabled while it runs, so weak
  fairness is written out as *infinitely often stopped or infinitely often fired*.
  No answer has to arrive, no connection to come up.
* `ClientRequests`: posted closures and timers run (`Posted`, `TimerFires`,
  `RetryFires`, `CallGoesOn`), and time passes (strongly, for a tick waits until
  what was due has run). The server owes no answer and the network no connection.
* `LegacySseClient`: tasks, the timer, headers and events that arrived, and a POST
  connection that is up or refused in the end. The announcement is not owed.
* `ServerQuestions`: tasks and timers run, a caller that stopped waiting goes on
  (`TimeIsUp`, `HandedOver`). No client owes an answer.
* `ConnectionPair`: each end's posted closures, its timers, and its file event
  whenever it is woken; a connect comes to something. Each is enabled exactly while
  something is posted, armed, woken or dialled, so weak fairness is written out as
  *infinitely often nothing to do or infinitely often done*. The application owes
  nothing.
* `Dispatcher`: the thread goes on (a callback's return and an object's destruction
  are among its turns), a thread that pushed writes its byte, whoever stops posts
  and joins, one after the other. Strong fairness for the pipe, the drain
  timer and the loop's return: libevent polls between any two turns and so comes
  to whatever stays ready, however much else is.
* `CircuitBreaker`: time passes (`WF(TimeoutExpires)`), handlers return
  (`WF(DispatchReturns)`), clients go on sending, and each request a peer
  received is answered at last. The last two are strong because sending and
  answering are possible only between two dispatches; they are assumptions about
  the environment, which the property needs and its text names ("once the peer is
  healthy"). Nothing asks the peer to become healthy.

The liveness properties of this kind, that nobody waits for ever, say that again and
again there is a moment at which nobody waits (`[]<>` of a state in which every
question, call, close or wait is over), which is stronger than that each one ends.

Mutants. For each property of a passing run, `PROJECT.json` names a variant of a
definition, wrong in the way a slip in that code would be (a share counted before
sweeping, an id released on finishing, a timer not disarmed, a byte not written, a
late answer heard), that makes TLC find the property violated in the same
configuration.

## 6. What is proved, and how

`tlapm` checks every step; nothing is assumed but the named assumptions on the
constants. The bounds appear in the theorems as constants without a value, so
the theorems hold for every bound.

**`TaskStoreProofs`**: `TypeCorrect`, `InputCorrect`, together `StoreCorrect`
(`TasksSound`), `FinalCorrect` (`FinalIsFinal`), `ShareCorrect` (`WithinShare`) and
`AnswersCorrect` (`AnswersFindTheirQuestion`), under `ConfigAssumption` (a finite
set of ids, natural bounds). `InputConsistent` is not inductive alone: an
operation on an entry must know that it is of its type, and the calls owed must
stay calls, so the invariant is `TypeOK` with `InputConsistent`. One lemma per
entry operator (`Answered`, `Cancelled`, `Finished`, `Asked`, `touch`, `Watched`)
says that it keeps an entry's type and one that it keeps `InputOK`; then there is
one step per action. `FinalCorrect` needs the invariant: `update` does not look at
the status, and what keeps an answer from changing a final task is that nothing is
outstanding in one (`FinalHasNothingOutstanding`). `ShareCorrect` needs the type
invariant alone: only `create()` gives a task an owner, and it adds one to a set it
has just found below the share. `AnswersCorrect` adds `AnsweredKeys` (what was
answered was asked, and is outstanding no longer; a task not created yet asked
nothing), that each answer owed is of keys asked for and not answered
(`EachAnswer`) and that no two share one (`NoTwo`); for the steps that owe no new
answer, `Shifted` says where each one that is left stood before.

**`ListenRegistryProofs`**: `TypeCorrect`, `NewcomersLeftAlone`, `OneRequest`,
`NoneUnreachable`, `NoneDropped`, and from them `SendsCorrect` (`SentAsAsked`) and
`SubscriptionsCorrect` (`SubscriptionsSound`); and `PublishCorrect`
(`PublishReachesAll`); under `ListenAssumption` (there is a stream, bounds are
natural). The invariant adds to `TypeOK`: `FramesOK`, what each
frame on the stack has still to visit was opened before its call began, and no two
frames are one call; `Watched`, a held subscription's stream has it among its
observers and is not gone; `OutOK`, a message was written by a call already made,
to an older subscription, and a request on its way belongs to a frame that will
send no other; `RequestSentOnce`; and `HeldOrClosing`, a watched subscription on a
live stream is held, or a closing call on the stack is about to answer it. Without
`Watched` a cancellation could miss a held subscription, without `FramesOK` a frame
deep in the stack could name one opened after its call began. `PushLemma` and its
siblings state what pushing, popping and changing the top do to the stack, once
for all actions. `PublishCorrect` adds `Served`, of every frame. `PublishOK`: each
subscription a publish was for, and that is held, has been told, has refused, is
being told or is still to be. `NotYet`: one whose open is still to be acknowledged
is not held, and no publish under way counts on it. Without the second, one that a
publish passed over because it was not held could come to be held before the
publish ends, and the step that ends it would break the property.

**`ClientLifecycleProofs`**: `TypeCorrect`, `TimersCorrect`, `AgreementCorrect`,
`AwaitedCorrect`, together `MachineCorrect` (`MachineAgrees`), and `EndCorrect`
(`OverIsOver`), under `ReconnectAssumption` and `DialAssumption`. `Sound` says of a
client's state that it is of its type, that the machine's timer is its state's and
that the window of the oldest transport is open while it proves itself; `Agree`
that flag, connection and machine agree; `Later` relates two states by what may
never be undone, and `Owes` by what may become of connect()'s promise; both are
transitive. Each handler has a lemma saying which of them it keeps, so that the
proof composes as the calls nest: inside a callback `Agree` may fail (that is what
coordination is for) and is re-established at its end. `Search` is the ladder's
invariant: one question at a time, no start before the last of them has reported,
and after it nobody waits for a connection that is not there. Until `connect()`
the client is new (`Fresh`). `OutcomeKind` then says of any outcome of any probe that
the search is over or the second question is asked, and that a start leaves
nobody waiting for nothing even if somebody was before it.

`AttemptsCorrect` (`OneLossOneAttempt`) cannot be read off one handler: inside one
callback the machine may be told of the same loss twice and of an error besides.
`Spent` counts the attempts made and one more for a conversation that is live. No
event but NETWORK_CONNECTED adds to it (`EventPays`): the one that starts an
attempt ends a live conversation, and it is sent only when there is no open
connection. `Pays` says both and is transitive, so one lemma per handler gives it
for any nesting; and what is spent cannot rise by an attempt unless a conversation
was live, which by `Agree` had a connection.

**`ClientFilterProofs`** has the theorems of the client's side of a connection: of
the two filters it may go through, and of the requests sent over it, each by
itself. Of `CircuitBreaker`: `TypeCorrect`, `ClosedCorrect`, `CountsCorrect`
(`CountsBounded`: no closed circuit at its failure threshold, no half-open one at
its success threshold), `TestsCorrect` (`TestsBounded`: at most one test more than
`half_open_max_requests`, which is how far the code goes beyond its own limit) and
`NeverStuck` (`NotStuck`), under `CircuitAssumption` and `FlagAssumption`. The
strengthening is `TestsAccountedFor`: while half open, the requests let through
are one more than the count of tests, successes are below the threshold, and tests
are covered by successes, answers still to come and reused ids. From it and
`SuccessThreshold <= HalfOpenMax + 1` a circuit whose tests are spent still waits
for an answer. That assumption is the factory's own warning ("circuit may never
close"), and is needed: without it the circuit sticks.

Of `LegacySseClient`, whose specification is `LegacySpec`: `LegacyQueueCorrect`
(`QueueSound`), under `LegacyBounds`. The invariant adds to the property what the
machine has got to (`Negotiated`: nothing was read before the stream was asked for,
and no endpoint before it started, so that the state EndpointReceived is never
reached), that a message has one task to write it, and that what was handed over
neither waits nor will be written (`Apart`); without the last, a second flush could
post a message again. A flush hands over a queue of any length. That is where a walk
has to be reasoned about: `StepByStep` says that a function computed step by step
exists if every step leads from good to good, `StaysGood` that it is then always
among the good; both follow from the least number of a set, which is all of
induction the provers can use. What is good after the first n messages is
`HandedOverTo`: those have been sent, at most one of all is under way, and the
others are what they were, or displaced.

Of `ClientRequests`, whose specification is `RequestsSpec`: `RequestsNothingStranded`
(`NothingIsStranded`) and `RequestsEndIsFinal` (`EndIsFinal`), under
`RequestsAssumption`: a call at least and as many ids, a timeout of a tick at least
and no longer than the maximum, a redial at least, and otherwise any limits. The
invariant is `RequestsSound`, and `Sound(S, 0)` is what it says of a client S, in
parts:

* `Called`: ids, origins and kinds of work agree, and only modern calls are tasks;
* `Promised`: a promise is kept open by exactly one request that goes on. Without it
  a clock could find a request that is not the caller's, and a second answer be given;
* `Tied`: what goes on is tracked, or its caller is about to track it and nothing yet
  knows of it (`Unnamed`);
* `Timed`: an origin's age and what its clock still has to run are together within
  the maximum, and on the dispatcher every call that is no task has a clock or one
  asked for. This is what makes `WithinMaximum` inductive, under any id;
* `Owned`, `Shaken` and `ShakingGoesOn`: own connections serve requests that go on or
  are to be closed; what is held is held once, for the one handshake there is;
* `Carried`: while connections hold, what is carried on with has been told of its
  end, and a task is asked about or will be;
* `OneWay`: while connections hold, a modern call is on the wire, posted to be sent,
  waiting for a listing or a task, and only one of these. Without it an answer could
  come for a call the client is about to send again under another id.

One callback may end a request, tell whoever carried on after it, end another for
that, and send a third: between these the invariant does not hold. So the parts take
a second argument, the request that is being ended, and `Nearly(S, x)` is all of them
but `ShakingGoesOn`, with what is owed on account of x excused. Each function of the
code then has a lemma from `Nearly` to `Nearly` (`EndedCalm`, `SendIs`, `ToldCalm`,
`AskedSound`, `CarryOverSound`, `CompleteIs`, `AbandonedIs`), and `Through` says when
x is done with. Steps are described by what they may change: `Leads` (nothing begins,
what is over stays over), `Calm` (some requests end, are sent or posted), `Alike` and
`Moved` (no request changes, only how it is asked or what waits for it); one lemma
each (`CalmSound`, `AlikeCalm`, `MovedSound`) gives the invariant, and `Follows`, what
`EndIsFinal` asks of a step, is gathered on the way. Three walks are of any length or
number: `FailedByCloseIs`, `ResumeHeldIs` (`ResumedOne` is one of its steps) and, one
request at a time, the queue of posted callbacks (`PoppedSound`).

**`RequestExchangeProofs`**: `ExchangesAlwaysSound` (`ExchangesSound`),
`WireAlwaysReadable` (`WireReadable`) and `ImplementsSteps`, under
`ExchangeAssumption` (a request at least, a retention of a tick at least,
natural bounds). Of the two parts of the invariant, `Sound` says who holds an
exchange: `Owned`, an answer the connection is to carry is in its registry, one
that was kept is in the store, and the handler's are begun; `Waiting`, what the
parser holds back is nobody's yet, each once; `Calls`, which calls can be inside
which, three deep at most. `Orderly` is for the worlds where one answer must end
before the next begins: by `OneAtATime` only the request begun last is being
answered, and by `WireFollows` the wire stands where that one's mode says
(nothing of it yet, inside its stream, or past its end). `AnswersInOrder` alone
is not inductive: nothing in it says who may write next. `ImplementsSteps` is
the safety half of the refinement: the initial lives map to the initial lives of
`RequestLifetime`, and every step to one of its steps or to a stutter; only the
loss of a connection and the sweep of the store move more than one life at once.
The other half, that what is kept is released in the end, is
`ImplementsLifetime`, which TLC checks.

**`ServerSessionsProofs`**: `TablesCorrect` (`TablesAgree`),
`NothingAstrayCorrect` (`NothingAstray`), `UpdatesCorrect`
(`UpdatesReachSubscribers`), `QuestionsCorrect` (`QuestionsSound`) and
`SettledCorrect` (`SettledOnce`), of `QSpec`, so with the questions of
`ServerQuestions` going on between the messages, under `SessionsAssumption`. First
the session manager by itself: `MgrOK` says that it is of its type, that each
session is found under its own key, that the subscribers are those of the sessions
and that there are no more than `MaxSessions`; one lemma for each of its
operations says that it keeps `MgrOK`, and what becomes of the subscriptions held
under a key (`Held`, `HeldBy`): taking sessions out leaves the others' alone
(`Trimmed`), finding or creating one changes none (`Found`), activity changes none
(`Idle`), a handler changes those of its session (`Reheld`). The invariant,
`SessionsInv`, then ties the manager to the connections. `ConnsOK`: the callback a
filter proxies for is the one its client is posting to, so nothing of an earlier
request on the connection is left. `StreamsOK`: a connection carries one stream in
its life, and the registry has it as long as the connection is open; without it an
answer could find its stream missing while its client is there. `ManagerOK`: an
HTTP connection's session ends with it, and only a stream that was opened has one;
without it a new stream could find a session waiting. So a connection about to be
accepted has no session (`UnusedUnknown`), and the one it is given there, or is
refused, disturbs nobody else's (`BeginsKeeps`, `Accepted`), though room may be
made for it by a sweep. `WantsOK`: what a client on a stream was told is exactly
what its session holds, and what a pipe's session holds its client was told (not
the reverse: a pipe's session may expire). `UpdateHeard` follows from it at the
step that sends the update. For the questions, `QuestionsInv` says of each where
it is in its life (`Lived`: it has somebody waiting exactly while it is pending,
and its timer until its erasure has run), that it is posted once (`PartsOK`), that
who is sent it is who was asked (`Placed`), and that one still to be sent is for
the client its session had when it was asked (`Remembered`). The last rests on two
numbers that are never used again, the session's and the stream's: an id that
could come back would let a question go to the wrong client. Who answers is not
said: a response may be anybody's (section 7). Each way of settling one (an
answer, the deadline, the end of its session, of the server) then has a lemma
saying that it settles the one it means and leaves the others (`Untouched`).

**`ConnectionPairProofs`**: `PairAlwaysSound` (`PairSound`), `WakeUpsAreKept`
(`NoWakeUpLost`) and `ClosingStaysDeaf` (`ClosingIsDeaf`), under `PairAssumption`. A
callback is many operations one inside another, so the invariant is a predicate on
one end's view of the pair, and `Leads` relates two views by what any operation
makes of one: it neither invents nor loses a byte (`Balanced`), does not go back
from closing or closed (`Same`), and leaves a closing end deaf (`Deaf`). `Sound` has
what the operations need of one end: `Asked` (a close that was asked for takes no
more output, so that once flushed it stays flushed until its posted end), `Told` (the
callbacks hear of the close last), `Over` (what was released holds nothing), `Early`
and `Trying` (before there is a connection nothing is listened for but that).
`Listens` is `NoWakeUpLost` of a view. It fails inside a callback, which owes what
it was called for and has not done yet; `ListensBut` says which of reading and
writing that is, and each operation pays one or leaves it owed. There is one lemma
per operation for `Leads` and one for `Listens`; a step of an end is then a chain of
them, and the other end hears only what the pipe between them tells it (`Moves`,
`Counted`).

**`DispatcherProofs`**: `PostsCorrect` (`PostsSound`) and `DeletionCorrect`
(`DeletedAfterUse`), under `DispatcherAssumption`. For the first the invariant is
`TypeOK` with `CallsLeft` (the calls of `run()` still to come), `Announced` (a queue
that is not empty while the loop may sleep has a byte, or a thread that owes one;
the pipe drained but the queue not yet swapped is the case it turns on),
`InItsPlace` (which callback can be under way where) and `InOrder`. The history of
what was posted is what has run, then the batch, then the queue; `LinedUp` says
once what pushing, swapping and running do to three sequences that lie end to
end. For the second it is `InItsPlace`, `Spared` (what the callback under way handed
over is not among what is being destroyed, unless it is the destruction itself)
and the property.

The module has the sessions' theorems too, of `SessionSpec`: `SessionInvariant`,
`SessionStreamsSound` (`StreamsSound`) and `SessionNothingWaits`
(`NothingWaitsBehindALiveStream`), under `SessionAssumption` (the owner is a
dispatcher, the answer is no GET, something may wait). They hold for any
dispatchers, streams and settings, with closures, streams and waiting messages of
any number. Two facts carry the argument. What an exchange does to its own bytes
(`BooksAlike`) leaves the session's books alone and posts nothing but bytes; so only
what the manager does has to be looked at. And the books, `Books`, are about streams
still being opened as much as about those that are held: `OpenedOnce`, of a stream
one step of opening is under way at most; `Reserved`, a stream that was let in keeps
its id from the verdict to its opening, on whichever dispatcher it waits; `Placed`, a
stream is held once, and not while it is still being opened. `HeldIdsReserved` is not
inductive without them: a stream's closure, forwarded to its own dispatcher and back,
would come to open a stream whose id went to another. `Alone` is what
`GetStreamsBounded` rests on: on one dispatcher a GET is judged and opened in one
callback, so the count it was judged by is still right. `NoneWaits` is the other
property. Who is about to open a stream needs `Named`: its id is its own, there is
`Room` for it, and nobody else will open it (`Coming`), which a closure that was
taken off its queue has left behind (`Taken`). What closes streams only `Lessens`.
The four loops of the manager are followed as the client's is, with `StepByStep` and
`StaysGood`: `Flushed`, `Replayed`, `AllRemoved` and `DueClosed` say what each leaves.

Only model-checked:

* liveness and refinement, which need fairness: `EveryoneIsTold`,
  `ParkedIsAnswered`, `WaitsEnd`, `CallsEnd`, `QueueEmpties`,
  `EveryQuestionSettles`, `ClosingEnds`, `LoopKeepsItsWord`, `RecoversWhenHealthy`,
  `ImplementsLifetime` (whose safety half is proved, `ImplementsSteps`); and anything
  with ENABLED;
* `ReadAsWritten` of `StreamableSessions`: what the client has read must be told from
  what was retained, what is on the wire and what is still posted, event by event,
  and how far a buffer reaches depends on the settings.

Out of the prover's reach altogether: induction over data, so what a recursive
definition computes for every input, and RECURSIVE operators. No module uses one.

## 7. What the checks found in the code

One finding has a run that ends in a counterexample; `PROJECT.json` quotes the line
of the repository that the behaviour contradicts.

* **The first protocol error hangs the enhanced chain** (`circuit_reentry`,
  `ErrorsReachMcp`). The breaker calls the next handler under its mutex;
  `EnhancedProtocolFilter` begins by calling the breaker back.

The rest were met while modelling. The models reach them, and the properties are
stated so as not to claim otherwise; each is a hazard in `PROJECT.json` or is
quoted here with the line it disagrees with. Four are written down as definitions
that the code does not keep to and that no run claims; TLC shows a counterexample
to each when it is the only INVARIANT of a configuration:

| definition | configuration | length | what happens |
|---|---|---|---|
| `TestsWithinMax` | `MCCircuitBreaker.cfg` | 11 states | two failures and the timeout; three requests are let through where two may be |
| `StreamSessionsEndWithIt` | `MCServer.cfg` | 7 states | a stream opens, headers are posted to its callback, it closes, the body is dispatched |
| `ThatClientAnswers` | `MCServer.cfg`, with the one workload `Work(4, {onLoop}, {h1, h2, h3})` | 12 states | two streams; one client is asked, a response is posted to the other's callback |
| `AnswerReachesReturningClient` | `MCSessions.cfg`, with the one setting `Small({d1}, {g1, g2}, 3, 1, 8, FALSE)` | 14 states | a return, a message read on the new stream, a second return |

*Server.*

* A cancelled task can be announced as working: `setStatusMessage` takes its
  snapshot under the lock and tells it after the unlock (`server/task_store.cc:289`,
  against `docs/tasks.md:41`).
* A client that reconnects twice can lose the end of its answer: if the stream that
  resumed it also carried an unsolicited message, its cursor names that one and the
  second resume follows nothing (`filter/streamable_http_filter.cc:1465`, against
  `:1381` "a client that comes back is owed whatever it missed").
  `AnswerReachesReturningClient` is that sentence.
* Ids of streams that were never registered stay reserved (`:1409`), and with
  connections on two dispatchers a stale count admits a GET too many (`:1367`).
* A request pipelined behind a stream whose handler answers later is answered
  inside the first one's body (`transport/request_exchange.cc:524`, against
  `filter/http_sse_filter_chain_factory.cc:495` "Nothing else can be writing
  here").
* A POST whose stream closes between its headers and its body leaves a session
  keyed by the dead stream, which nothing removes
  (`filter/http_sse_filter_chain_factory.cc:887`, `server/mcp_server.cc:2298`, against
  `mcp_server.h:1273` "their lifetime is bounded by the SSE stream closing").
  `StreamSessionsEndWithIt` is that sentence.
* A response settles the question of its id whichever client posts it
  (`server/mcp_server.cc:2346` and `:2900`, against `mcp_server.h:1624` "resolve the
  returned future when that client sends the matching JSON-RPC response").
  `ThatClientAnswers` is that sentence. Two sessions asked a question under one id
  share a waiter (`server/mcp_server.cc:1631`).
* A failed `performListen()` exits the dispatcher between the server's two calls of
  `run()`, and the second forgets it (`server/mcp_server.cc:1112`, against
  `event_loop.h:529`).

*Client.*

* Automatic reconnection undoes itself: the loss is reported twice, and the second
  report ends the attempt the first began (`client/mcp_client.cc:4515`, against
  `mcp_protocol_state_machine.h:126`). `max_reconnect_attempts = 0` is documented
  as unlimited (`:132`) and means none.
* `disconnect()` from another thread only asks the machine to shut down: CLOSED
  with an open connection (`client/mcp_client.cc:363`). Neither kind of disconnect
  stops a search for a transport, and connect()'s ten seconds
  (`client/mcp_client.cc:344`) are fewer than the search may take: it can connect
  after its caller was told that it did not.
* A request made during the search dials for itself. Its connection answers
  connect(); the start the search ends in destroys it, which answers connect() with
  a failure though a connection follows (`client/mcp_client.cc:3029`), and on the
  last rung ends the attempt. A start refused on that rung leaves the window open.
* A lost connection fails only those pending requests that have timed out already,
  and work the client carries on by itself can end without anyone being told
  (`client/mcp_client.cc:1829`, against `:991`). An initialize answered with 404 is
  held for the handshake it belongs to, and re-initialization never ends.
* A call made off the dispatcher can be left without a clock
  (`client/mcp_client.cc:1376`, against `mcp_client.h:144`); `cancelRequest()` can
  return false for a call that is being carried over (`:2149`).
* A second `connect()` after a failed one assigns to a thread that is still
  joinable (`client/mcp_client.cc:239`). The stdio branch of the manager's
  `connect()` marks itself connected before it raises the Connected event
  (`mcp_connection_manager.cc:340`).
* Of two messages flushed at once the first POST is destroyed by the second
  (`mcp_connection_manager.cc:1531`, against
  `filter/http_sse_filter_chain_factory.cc:1643`); a server that opens the stream
  and never announces an endpoint is not timed out
  (`filter/client_sse_state_machine.cc:556`).
* The client's own small circuit breaker counts only successes while half open,
  and admits any number of requests there.

*Underneath.*

* Two ends that have filled both directions wait for each other
  (`network/connection_impl.cc:675`, against `:1659`).
* A close that waits for a flush is undone when the connect completes after it
  (`:987`, against `connection.h:291`).
* The state machine's connect timer names a connection Closed and closes nothing
  (`network/connection_impl.cc:91`, `network/connection_state_machine.cc:763`).
* An `exit()` that comes before the loop is entered is lost
  (`event/libevent_dispatcher.cc:360`); a worker that is started again after a
  shutdown runs no timers.
* The breaker lets through one test more than `half_open_max_requests`: the request
  that finds the timeout over is not counted (`filter/circuit_breaker_filter.h:351`,
  against `:69` "Max requests in half-open state"). `TestsWithinMax` is that line,
  `TestsBounded` what is proved.
* The breaker never expires `pending_requests_`, does not look at `track_timeouts`,
  and two requests with one id share an entry (`filter/circuit_breaker_filter.h:324`).
* The protocol machine's two mutexes are taken in one order in `handleEvent` and in
  the other where the last error is set; one thread owns the machine in `src/`, so
  nothing contends.

## 8. Hazards that no property covers

Three, each with a note in `PROJECT.json`: the order in which a task's changes are
heard (`server/task_store.cc:289`), the posted disconnect
(`client/mcp_client.cc:363`), and the POST displaced by the next
(`mcp_connection_manager.cc:1531`). In each the model reaches the bad outcome, so a
property would only say that it does. Others are covered in part: their notes say
what the property leaves out.

## 9. What is not modelled, and why

* *In the modelled components.* Contents of messages, headers, content
  negotiation, minting of session ids and principals; the refusals made before a
  session is looked at; how a probe's answer is judged; statistics and health
  figures; callbacks that throw. `reset()` of the protocol machine has no caller.
  Rows of the connection and filter-chain state machines that only tests drive.
* *Components planned*: rate limiting and backpressure, the tables of step 13, the
  C API. The HTTP client session keeps three values and belongs with the resuming
  side of `ClientRequests`.
* *Components with little control of their own*: the connection manager's choice of
  transport and listening, filter registries and assembly, listeners and pools.
* *Components without control of their own*: handlers of the server's methods, JSON
  conversion, protocol helpers, logging, configuration documents, buffers and byte
  streams, parsers around third-party libraries, wrappers of system calls. They are
  pure functions or input and output; where a component uses one, the model has its
  result.
* *Outside the core*: language bindings, SDKs in other languages, samples, tests
  and build files.
