--------------------------- MODULE ClientLifecycle ---------------------------
(***************************************************************************)
(* The life of a client's conversation: its protocol state machine, the    *)
(* connection under it, and the client between the two, which tells the    *)
(* machine of the connection and does what a change of state asks.         *)
(*                                                                         *)
(* Everything here runs on the client's dispatcher, one callback after     *)
(* another, and each callback is one action.  Inside a callback the calls  *)
(* nest (closing a connection reports its end before close() returns), so  *)
(* every handler is an operator from the client's state to the next.       *)
(*                                                                         *)
(* Before there is a conversation the client finds out what the server     *)
(* speaks, unless it was told: it asks for the newest revision, then for   *)
(* the one before it, and then tries the oldest transport, each within a   *)
(* window.  connect() waits for what that, or a connection, comes to.      *)
(*                                                                         *)
(* Abstractions.  The transport runs over HTTP; stdio is left out.  A      *)
(* connect(), possible once per client because it starts the dispatcher,   *)
(* is its posted part; that its caller stops waiting after ten seconds     *)
(* changes nothing here.  One initialize is outstanding at a time.         *)
(***************************************************************************)
EXTENDS McpProtocolStateMachine

CONSTANTS MaxDials   \* bound: connections attempted beside connect()'s own

ASSUME DialAssumption == MaxDials \in Nat

VARIABLES
  client,   \* the fields below
  init,     \* the user's initialize: see Initializing
  reinit,   \* reinitializing_: an initialize of the client's own is out
  ladder,   \* the search for a transport, below
  dials     \* connections attempted beside connect()'s own

vars == <<client, init, reinit, ladder, dials>>

\* A connection is being made or open; connected_ and initialized_ are what
\* the client believes; failures is what its circuit breaker was told.
\* told is what connect() waits for.  probing says that the oldest transport
\* has still to prove itself, and window that the timer of that runs.
Client == [machine : Machine, conn : {"none", "connecting", "open"},
           connected : BOOLEAN, initialized : BOOLEAN, failures : 0..1,
           told : {"none", "pending", "connected", "failed"},
           probing : BOOLEAN, window : BOOLEAN]

\* A probe is one HTTP request and a deadline.  asked are the probes whose
\* request is out; reporting those that have not told their outcome, whose
\* deadline runs.  A named transport has its "revision" asked for at most.
\* starts is history: transports the search has ended in.
Probes == {"revision", "modern", "classic"}
Ladder == [begun : BOOLEAN, asked : SUBSET Probes, reporting : SUBSET Probes, starts : 0..1]

\* "waiting" to be sent, for a connection; "sent"; "answered", with the
\* answer on its way from the worker thread back to the dispatcher.
Initializing == {"none", "waiting", "sent", "answered"}

Init ==
  /\ client = [machine |-> NewMachine, conn |-> "none", connected |-> FALSE,
               initialized |-> FALSE, failures |-> 0,
               told |-> "none", probing |-> FALSE, window |-> FALSE]
  /\ init = "none"
  /\ reinit = FALSE
  /\ ladder = [begun |-> FALSE, asked |-> {}, reporting |-> {}, starts |-> 0]
  /\ dials = 0

Started == ladder.begun

-----------------------------------------------------------------------------
(* Handlers, from the client's state to the next. *)

\* An event for the machine, and handleProtocolStateChange() when it moves.
Fire(c, e) ==
  LET m == HandleEvent(c.machine, e)
      entered(s) == m.state = s /\ c.machine.state # s
  IN [c EXCEPT !.machine = m,
               !.initialized = c.initialized /\ ~entered("DISCONNECTED"),
               !.failures = IF entered("ERROR") /\ m.error THEN c.failures + 1 ELSE c.failures]

coordinateProtocolState(c) ==
  IF ~c.connected /\ c.machine.state # "DISCONNECTED" THEN Fire(c, "NETWORK_DISCONNECTED") ELSE c

\* connect()'s promise is kept once; there may be none to keep any more.
settleConnect(c, how) == IF c.told = "pending" THEN [c EXCEPT !.told = how] ELSE c

\* handleConnectionEvent(), of a connection that is up, which proves nothing
\* of the oldest transport.
Opened(c) ==
  LET up == [c EXCEPT !.conn = "open", !.connected = TRUE] IN
  coordinateProtocolState(
    Fire(IF c.probing THEN up ELSE settleConnect(up, "connected"), "NETWORK_CONNECTED"))

\* handleConnectionEvent(), of one that is gone, whoever closed it.
Gone(c) ==
  coordinateProtocolState(
    Fire(settleConnect([c EXCEPT !.conn = "none", !.connected = FALSE], "failed"),
         "NETWORK_DISCONNECTED"))

\* The machine's own handleError().
ProtocolError(c) == Fire([c EXCEPT !.machine = Kept(c.machine)], "PROTOCOL_ERROR")

\* failDetection(): connect() is answered before anything is torn down.
failDetection(c) ==
  LET d == settleConnect([c EXCEPT !.probing = FALSE, !.window = FALSE], "failed") IN
  ProtocolError(IF d.conn = "none" THEN d ELSE Gone(d))

\* The same while the oldest transport proves itself: the attempt has failed.
Closed(c) ==
  IF c.probing
  THEN coordinateProtocolState(failDetection([c EXCEPT !.conn = "none", !.connected = FALSE]))
  ELSE Gone(c)

\* The connection manager's close() reports the end of what it closes.
CloseConnection(c) == IF c.conn = "none" THEN c ELSE Closed(c)

\* disconnect() on the dispatcher.
DisconnectHere(c) ==
  [CloseConnection(Fire(c, "SHUTDOWN_REQUESTED")) EXCEPT !.connected = FALSE, !.initialized = FALSE]

\* The client's handleError().
HandleError(c, internal) ==
  IF internal THEN DisconnectHere(ProtocolError(c)) ELSE ProtocolError(c)

\* handleStateTimeout(): the event first, its error afterwards.
TimedOut(c) == HandleError(Fire([c EXCEPT !.machine.timer = NoTimer], "TIMEOUT"), FALSE)

\* reconnectInternal(): whatever there was is closed, an attempt included.
\* The machine hears of the close and not of the attempt.
Reconnected(c, ok) ==
  [CloseConnection(c) EXCEPT !.connected = FALSE, !.initialized = FALSE,
                             !.conn = IF ok THEN "connecting" ELSE "none"]

\* startTransport(): a new manager takes the place of the one there was, which
\* closes what it had, and connects.
startTransport(c, ok) ==
  LET d == CloseConnection(c) IN
  IF ok THEN [d EXCEPT !.conn = "connecting"]
  ELSE ProtocolError(settleConnect(d, "failed"))

\* runLegacyRung(): not asked about but attempted.
runLegacyRung(c, ok) == startTransport([c EXCEPT !.probing = TRUE, !.window = TRUE], ok)

-----------------------------------------------------------------------------
(* Callbacks of the dispatcher. *)

\* A lost connection takes the initialize sent on it along: its answer cannot
\* come any more.
AfterStep == IF client'.conn # "open" /\ init = "sent" THEN "none" ELSE init

\* connect(), as posted.  The transport is named, or its revision is asked
\* for first, or the server is asked what it speaks.
Connect ==
  /\ ~Started
  /\ LET c == Fire([client EXCEPT !.told = "pending"], "CONNECT_REQUESTED") IN
       \/ /\ \E ok \in BOOLEAN : client' = startTransport(c, ok)
          /\ ladder' = [ladder EXCEPT !.begun = TRUE, !.starts = 1]
       \/ /\ client' = c
          /\ \E p \in {"revision", "modern"} :
               ladder' = [ladder EXCEPT !.begun = TRUE, !.asked = {p}, !.reporting = {p}]
  /\ UNCHANGED <<init, reinit, dials>>

-----------------------------------------------------------------------------
(* The search for a transport. *)

\* What asking for the newest revision comes to; a probe that failed, or had
\* no answer, found a server that is not "modern".
Verdicts == {"in common", "older in common", "none in common", "not modern"}

\* l is the ladder without the outcome just told.
Starts(l) ==
  /\ \E ok \in BOOLEAN : client' = startTransport(client, ok)
  /\ ladder' = [l EXCEPT !.starts = @ + 1]

Fails(l) == client' = failDetection(client) /\ ladder' = l

ModernSettled(l, verdict) ==
  \/ verdict = "in common" /\ Starts(l)
  \/ /\ verdict \in {"older in common", "not modern"}
     /\ ladder' = [l EXCEPT !.asked = @ \cup {"classic"}, !.reporting = @ \cup {"classic"}]
     /\ UNCHANGED client
  \/ verdict = "none in common" /\ Fails(l)

\* What an introduction in the way of the revisions before it comes to.
Answers == {"introduced", "refused as modern", "something else"}

ClassicSettled(l, answer) ==
  \/ answer = "introduced" /\ Starts(l)
  \/ answer = "refused as modern" /\ Fails(l)
  \/ /\ answer = "something else"
     /\ \E ok \in BOOLEAN : client' = runLegacyRung(client, ok)
     /\ ladder' = [l EXCEPT !.starts = @ + 1]

Outcome(l, p) ==
  \/ p = "revision" /\ Starts(l)
  \/ p = "modern" /\ \E v \in Verdicts : ModernSettled(l, v)
  \/ p = "classic" /\ \E a \in Answers : ClassicSettled(l, a)

NoAnswer(l, p) ==
  \/ p = "revision" /\ Starts(l)
  \/ p = "modern" /\ ModernSettled(l, "not modern")
  \/ p = "classic" /\ ClassicSettled(l, "something else")

\* Variant: the outcome is told whether or not one was told before.
Unheard_Again(p) == TRUE

Unheard(p) == p \in ladder.reporting

\* A request ends: with an answer, in its headers where the answer is a stream,
\* or by failing, at once if it cannot be sent.  After the deadline nobody is
\* told.
ProbeAnswered(p) ==
  /\ p \in ladder.asked
  /\ LET l == [ladder EXCEPT !.asked = @ \ {p}, !.reporting = @ \ {p}] IN
       \/ Unheard(p) /\ Outcome(l, p)
       \/ ~Unheard(p) /\ ladder' = l /\ UNCHANGED client
  /\ init' = AfterStep
  /\ UNCHANGED <<reinit, dials>>

\* Its deadline passes first: the request is left to itself.
ProbeTimeout(p) ==
  /\ p \in ladder.reporting
  /\ NoAnswer([ladder EXCEPT !.reporting = @ \ {p}], p)
  /\ init' = AfterStep
  /\ UNCHANGED <<reinit, dials>>

\* The server has said where to post, which only the oldest transport does.
handleMessageEndpoint ==
  /\ client.conn = "open" /\ client.probing
  /\ client' = settleConnect([client EXCEPT !.probing = FALSE, !.window = FALSE], "connected")
  /\ UNCHANGED <<init, reinit, ladder, dials>>

\* It has not, and the window for that closes.
LegacyTimeout ==
  /\ client.window
  /\ client' = IF client.probing THEN failDetection(client) ELSE [client EXCEPT !.window = FALSE]
  /\ init' = AfterStep
  /\ UNCHANGED <<reinit, ladder, dials>>

-----------------------------------------------------------------------------
(* The conversation. *)

NetworkConnected ==
  /\ client.conn = "connecting"
  /\ client' = Opened(client)
  /\ UNCHANGED <<init, reinit, ladder, dials>>

NetworkLost ==
  /\ client.conn # "none"
  /\ client' = Closed(client)
  /\ init' = AfterStep
  /\ UNCHANGED <<reinit, ladder, dials>>

\* onError(): a message that cannot be read, or worse.
NetworkError(internal) ==
  /\ client.conn = "open"
  /\ client' = HandleError(client, internal)
  /\ init' = AfterStep
  /\ UNCHANGED <<reinit, ladder, dials>>

StateTimeout ==
  /\ client.machine.timer # NoTimer
  /\ client' = TimedOut(client)
  /\ init' = AfterStep
  /\ UNCHANGED <<reinit, ladder, dials>>

\* A request finds the connection closed, not yet open, or idle too long.
Request ==
  /\ Started /\ dials < MaxDials
  /\ \E ok \in BOOLEAN : client' = Reconnected(client, ok)
  /\ init' = AfterStep
  /\ dials' = dials + 1
  /\ UNCHANGED <<reinit, ladder>>

\* initializeProtocol(), on the dispatcher: sent at once over a connection
\* that is up, and otherwise (down, or idle too long) waiting for a new one.
InitializeProtocol ==
  /\ Started
  /\ init = "none"
  /\ LET c == Fire(client, "INITIALIZE_REQUESTED") IN
       \/ /\ c.connected
          /\ client' = c
          /\ init' = "sent"
          /\ UNCHANGED dials
       \/ /\ dials < MaxDials
          /\ dials' = dials + 1
          /\ \E ok \in BOOLEAN : /\ client' = Reconnected(c, ok)
                                 /\ init' = IF ok THEN "waiting" ELSE "none"
  /\ UNCHANGED <<reinit, ladder>>

\* Its next try, once the connection is there.
InitializeSent ==
  /\ init = "waiting"
  /\ client.connected
  /\ init' = "sent"
  /\ UNCHANGED <<client, reinit, ladder, dials>>

InitializeAnswered ==
  /\ init = "sent"
  /\ init' = "answered"
  /\ UNCHANGED <<client, reinit, ladder, dials>>

\* Refused, out of time or out of tries.
InitializeFailed ==
  /\ init # "none"
  /\ init' = "none"
  /\ UNCHANGED <<client, reinit, ladder, dials>>

\* What the worker thread read comes back to the dispatcher.
InitializeCommitted ==
  /\ init = "answered"
  /\ client' = Fire([client EXCEPT !.initialized = TRUE], "INITIALIZED")
  /\ init' = "none"
  /\ UNCHANGED <<reinit, ladder, dials>>

\* startReinitialize(): the server has forgotten the session.  The machine is
\* told neither of this nor of the new session.
SessionGone ==
  /\ client.conn = "open"
  /\ ~reinit
  /\ client' = [client EXCEPT !.initialized = FALSE]
  /\ reinit' = TRUE
  /\ UNCHANGED <<init, ladder, dials>>

Reinitialized ==
  /\ reinit
  /\ \/ client.conn = "open" /\ client' = [client EXCEPT !.initialized = TRUE]
     \/ UNCHANGED client
  /\ reinit' = FALSE
  /\ UNCHANGED <<init, ladder, dials>>

\* disconnect(): called on the dispatcher, and posted to it by anyone else.
Disconnect ==
  /\ Started
  /\ client' = DisconnectHere(client)
  /\ init' = AfterStep
  /\ UNCHANGED <<reinit, ladder, dials>>

DisconnectPosted ==
  /\ Started
  /\ client' = Fire(client, "SHUTDOWN_REQUESTED")
  /\ UNCHANGED <<init, reinit, ladder, dials>>

Next ==
  \/ Connect
  \/ \E p \in Probes : ProbeAnswered(p)
  \/ \E p \in Probes : ProbeTimeout(p)
  \/ handleMessageEndpoint
  \/ LegacyTimeout
  \/ NetworkConnected
  \/ NetworkLost
  \/ \E internal \in BOOLEAN : NetworkError(internal)
  \/ StateTimeout
  \/ Request
  \/ InitializeProtocol
  \/ InitializeSent
  \/ InitializeAnswered
  \/ InitializeFailed
  \/ InitializeCommitted
  \/ SessionGone
  \/ Reinitialized
  \/ Disconnect
  \/ DisconnectPosted

Spec == Init /\ [][Next]_vars

\* The dispatcher's loop runs the timers that are due: weak fairness, written
\* out, for a timer is enabled while it runs.
FairSpec ==
  /\ Spec
  /\ []<>(client.machine.timer = NoTimer) \/ []<><<StateTimeout>>_vars
  /\ []<>(ladder.reporting = {}) \/ []<><<\E p \in Probes : ProbeTimeout(p)>>_vars
  /\ []<>(~client.window) \/ []<><<LegacyTimeout>>_vars

-----------------------------------------------------------------------------
(* Properties *)

TypeOK ==
  /\ client \in Client
  /\ init \in Initializing
  /\ reinit \in BOOLEAN
  /\ ladder \in Ladder
  /\ dials \in 0..MaxDials

state == client.machine.state

\* A timer runs for the state the machine is in and for no other: none of a
\* state long left can end the one entered since, and no passing state is
\* without one.  (onExitState() and onEnterState())
TimedWhileWaiting == client.machine.timer = IF state \in Timed THEN state ELSE NoTimer

\* The client's flag, the connection and the machine agree whenever the
\* dispatcher is between two callbacks: nobody waits on a conversation, or
\* believes it ready, over a connection that is gone.
\* ("Network disconnected but protocol thinks it's connected")
NetworkAgrees ==
  /\ client.connected <=> client.conn = "open"
  /\ ~client.connected => state \notin {"CONNECTED", "INITIALIZING", "READY"}

\* A client in ERROR can say why, however it came there; a timeout enters
\* ERROR before its error is known, but not longer than its own callback.
ErrorHasAReason == state = "ERROR" => client.machine.error

\* One lost connection costs one attempt, though the machine is told of it
\* twice: once by the event, and again when the client coordinates the two.
OneLossOneAttempt ==
  [][client'.machine.attempts > client.machine.attempts =>
       /\ client'.machine.attempts = client.machine.attempts + 1
       /\ client.connected /\ client'.conn # "open"]_vars

\* A conversation that was shut down stays so, whatever is dialled or
\* answered afterwards, and one that failed can only be shut down.
\* ("Final state - connection closed")
NothingRevives ==
  /\ state \in {"DRAINING", "CLOSED"} => state' \in {"DRAINING", "CLOSED"}
  /\ state = "ERROR" => state' \in {"ERROR", "CLOSED"}

\* Once the search is over it stays so, and each of its questions is asked
\* once: an answer that comes after its deadline, or a second outcome of any
\* kind, asks nothing again and starts nothing again.  ("whichever of the
\* answer and the deadline lost the race finds nothing left to report to")
SearchEndsOnce ==
  /\ Started /\ ladder.reporting = {} => ladder'.reporting = {} /\ ladder'.starts = ladder.starts
  /\ "modern" \in ladder'.reporting => "classic" \notin ladder.reporting

\* connect() is answered once, and is told of success only by a connection
\* that is up and has nothing left to prove.  ("the connect comes up and the
\* answer is withheld")
ToldTruly ==
  client'.told # client.told =>
    /\ client.told = IF Started THEN "pending" ELSE "none"
    /\ client'.told = "connected" => client'.connected /\ ~client'.probing

\* What is over is over: conversations, probes, and connect().
OverIsOver == [][NothingRevives /\ SearchEndsOnce /\ ToldTruly]_vars

\* One who waits for connect() waits for a probe that has a deadline, or for
\* a connection; and the oldest transport proves itself within its window.
SomethingIsAwaited ==
  /\ client.told = "pending" => ladder.reporting # {} \/ client.conn # "none"
  /\ client.probing <=> client.window

\* What the client, its connection and the machine each believe agrees between
\* any two callbacks, in any nesting of handlers: the attempts counted, the
\* timer that runs, whether there is a connection at all, and whether connect()
\* has something to wait for.
MachineAgrees == TypeOK /\ TimedWhileWaiting /\ NetworkAgrees /\ SomethingIsAwaited

\* Connecting, initializing and draining all come to an end, and when the end
\* is ERROR the client can say why; and so does the search for a transport, of
\* a server that never says a word.
WaitsEnd ==
  /\ []ErrorHasAReason
  /\ []<>(ladder.reporting = {} /\ ~client.probing)
  /\ \A s \in Timed : []<>(state # s)
==============================================================================
