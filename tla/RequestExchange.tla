---------------------------- MODULE RequestExchange ----------------------------
(***************************************************************************)
(* One answer per request: transport::RequestExchange, the registry of a   *)
(* connection, the store of exchanges that outlive one, the writer and the *)
(* gate that holds requests back while an answer streams.                  *)
(*                                                                         *)
(* All of it runs on one dispatcher thread, so what matters is which call  *)
(* is inside which.  stack has a frame for every call that hands control   *)
(* on: dispatching a request to its handler, and finishing a stream, which *)
(* tells the gate before the end of the stream is written.  A handler acts *)
(* inside its own dispatch, or later from a callback of its own.           *)
(*                                                                         *)
(* A connection that is lost is followed by another; exchanges of the lost *)
(* one may still be producing.  Replay of retained events to a client that *)
(* returns is in StreamableSessions.  Time is counted in ticks.            *)
(***************************************************************************)
EXTENDS Naturals, Sequences, FiniteSets

CONSTANTS
  MaxRequests,  \* requests are numbered 1..MaxRequests in the order they are sent
  Kinds,        \* kinds of request the clients send
  Worlds,       \* how clients, handlers and the configuration behave
  MaxEvents,    \* bound: notifications on one answer
  MaxObservers, \* bound: cancellation observers of one request
  MaxHeld,      \* gated_input_limit_, counted in requests
  Retention     \* retention_, in ticks

Requests == 1..MaxRequests

\* What of a request decides how it is answered.
Kind == [carries     : {"request", "notification"},
         accepts_sse : BOOLEAN,
         modern      : BOOLEAN,     \* ProtocolEra::Modern
         required    : BOOLEAN,     \* StreamingMode::Required
         http_1_1    : BOOLEAN]

\* pipelining: clients send a request before the last one is answered.
\* async: handlers may answer after their dispatch has returned.
\* gate: StreamGatePolicy::DecoderGate; SingleUseClose if not.
World == [pipelining : BOOLEAN, async : BOOLEAN, gate : BOOLEAN]

ASSUME ExchangeAssumption ==
  /\ MaxRequests \in Nat \ {0} /\ MaxHeld \in Nat /\ Retention \in Nat \ {0}
  /\ MaxEvents \in Nat /\ MaxObservers \in Nat
  /\ Kinds \subseteq Kind
  /\ Worlds \subseteq World

VARIABLES
  world,     \* chosen once
  kind,      \* the requests the clients have sent
  exchange,  \* per request: its RequestExchange
  registry,  \* exchanges_ of the connection
  app,       \* requests a handler was given the answer of
  stack,     \* calls under way, the innermost last
  conn,      \* the connection: up, closing, gated, and the first request on it
  held,      \* gated_input_ and what the parser has not come to
  wire,      \* what the connection carried to the client
  kept,      \* exchanges_ of the RetainedExchangeStore
  expiring,  \* expiring_: ticks left per exchange
  timer,     \* ticks until expiry_timer_ fires
  deferred   \* exchanges handed to deferredDelete

vars == <<world, kind, exchange, registry, app, stack, conn, held, wire,
          kept, expiring, timer, deferred>>
store == <<kept, expiring, timer, deferred>>

-----------------------------------------------------------------------------
Off == Retention + 1

Exchange ==
  [mode      : {"none", "Open", "Stream", "Complete"},
   retain    : BOOLEAN,                        \* retain_on_disconnect_
   sink      : {"connection", "kept", "gone"},
   cancelled : BOOLEAN,
   watching  : Nat,                            \* observers not yet told
   told      : Nat,
   events    : Nat]                            \* next_sequence_

Unborn == [mode |-> "none", retain |-> FALSE, sink |-> "connection",
           cancelled |-> FALSE, watching |-> 0, told |-> 0, events |-> 0]

Item == [what : {"head", "event", "tail", "unary", "bare"}, of : Requests]
Of(what, r) == [what |-> what, of |-> r]

Init ==
  /\ world \in Worlds
  /\ kind = <<>>
  /\ exchange = [r \in Requests |-> Unborn]
  /\ registry = {} /\ app = {} /\ stack = <<>>
  /\ conn = [up |-> TRUE, closing |-> FALSE, gated |-> FALSE, first |-> 1]
  /\ held = <<>> /\ wire = <<>>
  /\ kept = {} /\ expiring = [r \in {} |-> 0] /\ timer = Off /\ deferred = {}

Idle == stack = <<>>
Frame(call, r) == [call |-> call, of |-> r]
Top == stack[Len(stack)]
Pop == SubSeq(stack, 1, Len(stack) - 1)

\* An answer has ended, as a client reads it.
Ended(r) == \E i \in 1..Len(wire) : wire[i].of = r /\ wire[i].what \in {"tail", "unary", "bare"}

hasActiveStream == \E r \in registry : exchange[r].mode = "Stream"

\* What a write puts on the wire: a sink whose connection is gone takes none.
Written(r, items) == IF exchange[r].sink = "connection" THEN wire \o items ELSE wire

\* ExchangeRegistry::reapCompleted, after the exchanges became ex.
Reaped(ex, exchanges) == {r \in exchanges : ex[r].mode # "Complete"}

\* ResponseStreamImpl::open and beginStream: an HTTP/1.0 client gets a whole
\* answer that says no, and the exchange is over.
Begun(e, k) == [e EXCEPT !.retain = ~k.modern,
                         !.mode = IF k.http_1_1 THEN "Stream" ELSE "Complete"]
Prelude(r) == IF kind[r].http_1_1 THEN <<Of("head", r)>> ELSE <<Of("unary", r)>>

\* onSseStreamStarted, told by a stream that has a connection to observe it.
Gated(r, opens) ==
  conn.gated \/ (opens /\ world.gate /\ kind[r].http_1_1 /\ exchange[r].sink = "connection")
-----------------------------------------------------------------------------
\* Bytes of the next request arrive.  Held back past the limit they cost the
\* client its connection.
Receive ==
  /\ Idle /\ conn.up /\ Len(kind) < MaxRequests
  /\ world.pipelining \/ \A r \in conn.first..Len(kind) : Ended(r)
  /\ \E k \in Kinds : kind' = Append(kind, k)
  /\ LET overflows == conn.gated /\ Len(held) >= MaxHeld
     IN /\ held' = IF overflows THEN held ELSE Append(held, Len(kind) + 1)
        /\ conn' = [conn EXCEPT !.closing = @ \/ overflows]
  /\ UNCHANGED <<world, exchange, registry, app, stack, wire, store>>

\* Variant: the requests behind one are not left for the loop to come to.
Resumed_Inside == ~Idle => Top.call = "finish"

\* Control is where the parser goes on: at the top of the loop, or inside
\* the finishing of a stream that did not begin in the dispatch around it.
Resumed == Idle \/ (Len(stack) = 1 /\ Top.call = "finish")

\* What the transport answers by itself: a notification with 202, a method
\* that must stream to a client that cannot read a stream with 406.
AnsweredByTransport(k) == k.carries = "notification" \/ (k.required /\ ~k.accepts_sse)

\* The stream of a method that needs one opens before its handler runs.
OpensEarly(k) == k.carries = "request" /\ k.required /\ k.accepts_sse /\ ~k.modern

\* beginRequest, finishRequest and dispatchBody up to the handler.
Dispatch ==
  /\ Resumed /\ conn.up /\ ~conn.gated /\ held # <<>>
  /\ LET r == Head(held)
         k == kind[r]
         e == [Unborn EXCEPT !.mode = "Open"]
         to_handler == ~AnsweredByTransport(k) /\ (OpensEarly(k) => k.http_1_1)
         now == CASE AnsweredByTransport(k) -> [e EXCEPT !.mode = "Complete"]
                  [] OpensEarly(k)          -> Begun(e, k)
                  [] OTHER                  -> e
     IN /\ exchange' = [exchange EXCEPT ![r] = now]
        /\ wire' = wire \o (CASE AnsweredByTransport(k) -> <<Of("unary", r)>>
                              [] OpensEarly(k)          -> Prelude(r)
                              [] OTHER                  -> <<>>)
        /\ conn' = [conn EXCEPT !.gated = Gated(r, OpensEarly(k))]
        /\ registry' = Reaped(exchange', registry \cup {r})
        /\ app' = IF to_handler THEN app \cup {r} ELSE app
        /\ stack' = IF to_handler THEN Append(stack, Frame("dispatch", r)) ELSE stack
  /\ held' = Tail(held)
  /\ UNCHANGED <<world, kind, store>>

\* The handler returns.  Where handlers are synchronous it has answered.
EndDispatch ==
  /\ ~Idle /\ Top.call = "dispatch"
  /\ world.async \/ exchange[Top.of].mode = "Complete"
  /\ stack' = Pop
  /\ registry' = Reaped(exchange, registry)
  /\ UNCHANGED <<world, kind, exchange, app, conn, held, wire, store>>

-----------------------------------------------------------------------------
\* A handler acts on an answer it was given.
MayAct(r) == r \in app /\ (~Idle => Top = Frame("dispatch", r))

Answered(r) == exchange[r].mode = "Complete"

\* sendNotification and sendRequest: the first of them opens the stream.  A
\* client that cannot read one is not told.
Notify(r) ==
  /\ MayAct(r) /\ kind[r].accepts_sse /\ ~Answered(r)
  /\ exchange[r].events < MaxEvents
  /\ LET opens == exchange[r].mode = "Open"
         e == IF opens THEN Begun(exchange[r], kind[r]) ELSE exchange[r]
         event == IF e.mode = "Stream" THEN 1 ELSE 0
     IN /\ exchange' = [exchange EXCEPT ![r] = [e EXCEPT !.events = @ + event]]
        /\ wire' = Written(r, (IF opens THEN Prelude(r) ELSE <<>>)
                              \o [i \in 1..event |-> Of("event", r)])
        /\ conn' = [conn EXCEPT !.gated = Gated(r, opens)]
  /\ UNCHANGED <<world, kind, registry, app, stack, held, store>>

\* respondJson: a bare body that onWrite frames, unless a stream is active on
\* the connection, whose bytes are taken to be framed already.
RespondJson(r) ==
  /\ MayAct(r) /\ exchange[r].mode = "Open"
  /\ exchange' = [exchange EXCEPT ![r].mode = "Complete"]
  /\ wire' = Written(r, <<Of(IF hasActiveStream THEN "bare" ELSE "unary", r)>>)
  /\ UNCHANGED <<world, kind, registry, app, stack, conn, held, store>>

\* RetainedExchangeStore::armExpiryTimer.
Soonest(due) ==
  IF DOMAIN due = {} THEN Off
  ELSE CHOOSE wait \in {due[r] : r \in DOMAIN due} : \A r \in DOMAIN due : wait <= due[r]

\* scheduleRelease, called by the completion observer.
scheduleRelease(r) ==
  /\ expiring' = [s \in DOMAIN expiring \cup {r} |->
                    IF s = r THEN Retention ELSE expiring[s]]
  /\ timer' = Soonest(expiring')
  /\ UNCHANGED <<kept, deferred>>

\* The event of the answer, then complete() up to what finish() calls.  The
\* observer opens the gate, and closes the connection where a stream has one
\* to itself; what was held back is dispatched before finish() returns.
SendLast(r) ==
  /\ MayAct(r) /\ exchange[r].mode = "Stream" /\ exchange[r].sink = "connection"
  /\ exchange' = [exchange EXCEPT ![r].events = @ + 1]
  /\ wire' = Append(wire, Of("event", r))
  /\ conn' = [conn EXCEPT !.gated = FALSE, !.closing = @ \/ ~world.gate]
  /\ stack' = Append(stack, Frame("finish", r))
  /\ UNCHANGED <<world, kind, registry, app, held, store>>

\* finish() returned: the end of the stream is written, and complete() ends.
WriteTail ==
  /\ ~Idle /\ Top.call = "finish"
  /\ Len(stack) > 1 \/ held = <<>> \/ conn.gated
  /\ wire' = Append(wire, Of("tail", Top.of))
  /\ exchange' = [exchange EXCEPT ![Top.of].mode = "Complete"]
  /\ stack' = Pop
  /\ UNCHANGED <<world, kind, registry, app, conn, held, store>>

\* The same for a stream that has lost its connection: nothing observes it
\* any more, and the store hears when it is complete.
CompleteAlone(r) ==
  /\ MayAct(r) /\ exchange[r].mode = "Stream" /\ exchange[r].sink # "connection"
  /\ exchange' = [exchange EXCEPT ![r].events = @ + 1, ![r].mode = "Complete"]
  /\ IF r \in kept THEN scheduleRelease(r) ELSE UNCHANGED store
  /\ UNCHANGED <<world, kind, registry, app, stack, conn, held, wire>>

\* Variant: the list of observers is not emptied, or they are not called.
Cancelled_Silently(e) == [e EXCEPT !.cancelled = TRUE]

\* ResponseStream::onCancelled and CancellationToken::addObserver.
OnCancelled(r) ==
  /\ MayAct(r) /\ exchange[r].watching + exchange[r].told < MaxObservers
  /\ exchange' = IF exchange[r].cancelled
                 THEN [exchange EXCEPT ![r].told = @ + 1]
                 ELSE [exchange EXCEPT ![r].watching = @ + 1]
  /\ UNCHANGED <<world, kind, registry, app, stack, conn, held, wire, store>>
-----------------------------------------------------------------------------
\* CancellationToken::cancel.
Cancelled(e) == [e EXCEPT !.cancelled = TRUE, !.told = @ + e.watching, !.watching = 0]

\* Variant: the exchange survives in any era it has a stream in.
CarriesOn_Any(e) == e.mode = "Stream"

\* onConnectionGone of one exchange: whether it carries on.
CarriesOn(e) == e.mode # "Complete" /\ e.retain

\* The connection closes, by either end: ExchangeRegistry::onConnectionGone,
\* and the store retains what carries on.
Lose ==
  /\ Idle /\ conn.up
  /\ LET survivors == {r \in registry : CarriesOn(exchange[r])}
     IN /\ exchange' = [r \in Requests |->
                          IF r \in survivors THEN [exchange[r] EXCEPT !.sink = "kept"]
                          ELSE IF r \in registry
                          THEN Cancelled([exchange[r] EXCEPT !.sink = "gone"])
                          ELSE exchange[r]]
        /\ kept' = kept \cup survivors
  /\ registry' = {}
  /\ conn' = [conn EXCEPT !.up = FALSE, !.gated = FALSE]
  /\ held' = <<>>
  /\ UNCHANGED <<world, kind, app, stack, wire, expiring, timer, deferred>>

\* A client connects anew.
Connect ==
  /\ Idle /\ ~conn.up /\ Len(kind) < MaxRequests
  /\ conn' = [up |-> TRUE, closing |-> FALSE, gated |-> FALSE, first |-> Len(kind) + 1]
  /\ wire' = <<>>
  /\ UNCHANGED <<world, kind, exchange, registry, app, stack, held, store>>

\* Variant: the timer is not armed again while others wait.
releaseExpired_Once ==
  /\ Idle /\ timer = 0
  /\ LET expired == {r \in DOMAIN expiring : expiring[r] = 0}
     IN /\ expiring' = [r \in DOMAIN expiring \ expired |-> expiring[r]]
        /\ kept' = kept \ expired
        /\ deferred' = deferred \cup expired
        /\ timer' = Off
  /\ UNCHANGED <<world, kind, exchange, registry, app, stack, conn, held, wire>>

\* RetainedExchangeStore::releaseExpired, called by the timer.
releaseExpired ==
  /\ Idle /\ timer = 0
  /\ LET expired == {r \in DOMAIN expiring : expiring[r] = 0}
     IN /\ expiring' = [r \in DOMAIN expiring \ expired |-> expiring[r]]
        /\ kept' = kept \ expired
        /\ deferred' = deferred \cup expired
        /\ timer' = Soonest(expiring')
  /\ UNCHANGED <<world, kind, exchange, registry, app, stack, conn, held, wire>>

\* The dispatcher's next turn destroys what it was handed.
DeferredDelete ==
  /\ Idle /\ deferred # {}
  /\ deferred' = {}
  /\ UNCHANGED <<world, kind, exchange, registry, app, stack, conn, held, wire,
                 kept, expiring, timer>>

Tick ==
  /\ Idle /\ timer \in 1..Retention
  /\ timer' = timer - 1
  /\ expiring' = [r \in DOMAIN expiring |-> IF expiring[r] = 0 THEN 0 ELSE expiring[r] - 1]
  /\ UNCHANGED <<world, kind, exchange, registry, app, stack, conn, held, wire, kept, deferred>>

Next ==
  \/ Receive \/ Dispatch \/ EndDispatch
  \/ \E r \in Requests : Notify(r) \/ RespondJson(r) \/ SendLast(r) \/ CompleteAlone(r)
                         \/ OnCancelled(r)
  \/ WriteTail
  \/ Lose \/ Connect
  \/ releaseExpired \/ DeferredDelete \/ Tick

\* The dispatcher makes the calls it owes, and the clock goes on.
Fairness ==
  /\ WF_vars(Dispatch) /\ WF_vars(EndDispatch) /\ WF_vars(WriteTail)
  /\ WF_vars(releaseExpired) /\ WF_vars(DeferredDelete) /\ WF_vars(Tick)

Spec == Init /\ [][Next]_vars /\ Fairness
-----------------------------------------------------------------------------
TypeOK ==
  /\ world \in Worlds
  /\ kind \in Seq(Kinds) /\ Len(kind) <= MaxRequests
  /\ exchange \in [Requests -> Exchange]
  /\ registry \subseteq Requests /\ app \subseteq Requests
  /\ stack \in Seq([call : {"dispatch", "finish"}, of : Requests])
  /\ conn \in [up : BOOLEAN, closing : BOOLEAN, gated : BOOLEAN, first : 1..MaxRequests]
  /\ held \in Seq(Requests) /\ wire \in Seq(Item)
  /\ kept \subseteq Requests /\ DOMAIN expiring \subseteq kept
  /\ \A r \in DOMAIN expiring : expiring[r] \in 0..Retention
  /\ timer \in 0..Off /\ deferred \subseteq Requests

\* What HTTP/1.1 gives a client to read by: answers come in the order of the
\* requests, none begins inside another, each is one head, its events and one
\* end, or one whole answer, and every one of them is framed.  The gate exists
\* for this (http_sse_filter_chain_factory.h, setStreamConfig: a client has no
\* way to read answers that are out of order).
AnswersInOrder ==
  \A i \in 1..Len(wire) :
    /\ wire[i].what # "bare"
    /\ wire[i].what \in {"head", "unary"} =>
         (IF i = 1 THEN wire[i].of = conn.first
          ELSE wire[i].of = wire[i - 1].of + 1 /\ wire[i - 1].what \in {"tail", "unary"})
    /\ wire[i].what \in {"event", "tail"} =>
         i > 1 /\ wire[i - 1].of = wire[i].of /\ wire[i - 1].what \in {"head", "event"}

\* It holds of a client that waits for each answer before it sends the next
\* request, and of any client where no handler answers after its dispatch.
WireReadable == (world.pipelining /\ world.async) \/ AnswersInOrder

\* No connection takes a request with it unnoticed: a request whose connection
\* is gone is kept by the store until it is complete, or all who watch for its
\* cancellation have been told.  Only a client of the classic era is kept for.
LossIsHandled ==
  \A r \in 1..Len(kind) :
    /\ exchange[r].mode \in {"Open", "Stream"} /\ exchange[r].sink = "connection" =>
         conn.up /\ r \in registry
    /\ exchange[r].mode = "Stream" /\ exchange[r].sink = "kept" =>
         r \in kept /\ ~exchange[r].cancelled /\ ~kind[r].modern
    /\ exchange[r].sink = "gone" => exchange[r].cancelled
    /\ exchange[r].cancelled => exchange[r].watching = 0

\* Whatever the store holds and no longer waits for has a deadline, and one
\* timer wakes it for the soonest of them (armExpiryTimer: "not a fresh full
\* window").
TimerMeetsDeadline ==
  /\ \A r \in kept : exchange[r].mode = "Complete" <=> r \in DOMAIN expiring
  /\ \A r \in DOMAIN expiring : timer <= expiring[r]

\* The life of a request, as RequestLifetime tells it.
LifeOf(r) ==
  LET e == exchange[r]
  IN IF e.mode = "none" THEN "unasked"
     ELSE IF e.sink = "kept"
     THEN (IF e.mode = "Stream" THEN "kept"
           ELSE IF r \in DOMAIN expiring THEN "finished" ELSE "released")
     ELSE IF e.mode = "Complete" THEN "answered"
     ELSE IF e.cancelled THEN "cancelled"
     ELSE IF e.mode = "Stream" THEN "streaming" ELSE "open"

Lives == [r \in Requests |-> LifeOf(r)]

Lifetime == INSTANCE RequestLifetime WITH life <- Lives

\* Every exchange lives the life RequestLifetime allows, and what is finished
\* is let go of in the end.
ImplementsLifetime == Lifetime!Spec

\* No exchange is forgotten: one that is not complete has a connection, a place
\* in the store, or watchers that were told, and one that is kept for nobody
\* has a deadline its store will wake for.
ExchangesSound == TypeOK /\ TimerMeetsDeadline /\ LossIsHandled
================================================================================
