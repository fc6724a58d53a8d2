--------------------------- MODULE ConnectionPair ----------------------------
(***************************************************************************)
(* Two ends of one TCP connection, each a ConnectionImpl with the plain    *)
(* transport socket, each on its own event loop:                           *)
(*   src/src/network/connection_impl.cc    connect, write, close, the file *)
(*                                         event and what it does          *)
(*   src/src/network/connection_state_machine.cc   its connect timer       *)
(*   src/src/network/transport_socket.cc   RawBufferTransportSocket        *)
(*   src/src/event/libevent_dispatcher.cc  the file event, edge triggered  *)
(* A callback of the loop, or a call of the application in one, is a step. *)
(* Bytes are counted, not looked at.  What the kernel has room for between *)
(* the ends is Room; an event is heard once, when it is new or when what   *)
(* is listened for is set anew.                                            *)
(***************************************************************************)
EXTENDS Naturals, Sequences, FiniteSets

CONSTANTS
    client, server,     \* the two ends
    Room,               \* bytes the kernel holds in each direction
    MaxBytes,           \* bound: bytes each end is given to send
    Deadline,           \* whether delayed_close_timeout_ is more than zero
    Impatient,          \* the ends with an idle read timeout
    HalfClosers,        \* the ends that may shut their sending side and read on
    Reactions,          \* what the read filters may do with what is read
    CloseTypes          \* the ways the application closes

Ends == {client, server}
Peer(e) == IF e = client THEN server ELSE client

ASSUME PairAssumption ==
    /\ client # server
    /\ Room \in Nat \ {0} /\ MaxBytes \in Nat
    /\ Deadline \in BOOLEAN /\ Impatient \cup HalfClosers \subseteq Ends
    /\ Reactions \subseteq {"take", "reply", "replyClose", "replyDelay", "disable"}
    /\ CloseTypes \subseteq {"NoFlush", "FlushWrite", "FlushWriteAndDelay"}

VARIABLES
    conn,   \* each end's ConnectionImpl, with its file event and its timers
    pipe    \* bytes each end has written and the other has not read

vars == <<conn, pipe>>

CloseEvents == {"LocalClose", "RemoteClose"}

Fresh(connected) ==
    [state |-> "Open", connecting |-> ~connected,
     tcp |-> IF connected THEN "ok" ELSE "none",
     connectTimer |-> FALSE, unreleased |-> FALSE,
     half |-> FALSE, delayed |-> "None", timer |-> FALSE,
     disabled |-> FALSE, queued |-> 0,
     enabled |-> IF connected THEN {"Read"} ELSE {},
     woken |-> FALSE, active |-> {},
     fin |-> FALSE, writeReady |-> FALSE, written |-> FALSE, failed |-> FALSE,
     deferred |-> FALSE, posted |-> <<>>,
     events |-> <<>>, accepted |-> 0, got |-> 0,
     lost |-> 0, why |-> "nothing"]

(* No more comes from an end that has closed, or shut its sending side.    *)
(* One may be Closed in name alone, its socket open (ConnectTimeout).      *)
Released(c) == c.state = "Closed" /\ ~c.unreleased
Ended(c) == Released(c) \/ c.fin

(* What one end works on: itself and the socket.                           *)
View(e) ==
    [c |-> conn[e], out |-> pipe[e], in |-> pipe[Peer(e)],
     gone |-> Released(conn[Peer(e)]), eof |-> Ended(conn[Peer(e)])]

Ready(x) ==
    IF x.c.tcp = "ok"
    THEN (IF x.in > 0 \/ x.eof THEN {"Read"} ELSE {})
            \cup (IF x.out < Room \/ x.gone THEN {"Write"} ELSE {})
    ELSE IF x.c.tcp = "failed" THEN {"Read", "Write"} ELSE {}

(* Setting what to listen for makes what is ready already be heard.        *)
enableFileEvents(x, mask) ==
    [x EXCEPT !.c.enabled = mask, !.c.woken = Ready(x) \cap mask # {}]

waitingForPeerClose(x) ==
    x.c.state = "Closing" /\ x.c.delayed = "CloseAfterFlushAndWait" /\ x.c.queued = 0

-----------------------------------------------------------------------------
(* Closing.                                                                *)

TornDown(x, type, cause) ==
    [x EXCEPT !.c = [x.c EXCEPT
        !.state = "Closed", !.enabled = {}, !.woken = FALSE, !.active = {},
        !.delayed = "None", !.timer = FALSE, !.connectTimer = FALSE,
        !.queued = 0, !.lost = @ + x.c.queued,
        !.why = IF x.c.queued > 0 THEN cause ELSE @, !.events = Append(@, type)]]

(* The end of it: nothing more is heard, what was queued is dropped, and   *)
(* the callbacks are told, once.                                           *)
closeSocket(x, type, cause) ==
    IF x.c.state = "Closed" THEN x ELSE TornDown(x, type, cause)

(* From inside the reading or the writing, the end is a posted task.       *)
closeThroughFilterManager(x, type, cause) ==
    IF x.c.state = "Closed" \/ x.c.deferred THEN x
    ELSE LET y == enableFileEvents(x, {})
         IN [y EXCEPT !.c.deferred = TRUE,
                      !.c.posted = Append(@, [type |-> type, cause |-> cause])]

transitionDelayedCloseState_Untimed(x, to) ==   \* variant: to wait is timed, to flush not
    [x EXCEPT !.c.delayed = to,
              !.c.timer = @ \/ (Deadline /\ to = "CloseAfterFlushAndWait")]

transitionDelayedCloseState(x, to) ==
    [x EXCEPT !.c.delayed = to, !.c.timer = @ \/ Deadline]

(* Whether a flush that was asked for is over, and what follows then.      *)
FlushPending(x) == x.c.state = "Closing" /\ x.c.delayed # "None"

finishFlushIfDrained(x) ==
    IF waitingForPeerClose(x) THEN enableFileEvents(x, {"Read"})
    ELSE closeThroughFilterManager(x, "LocalClose", "drained")

(* As much as the kernel takes; what is left waits for room.  That a peer  *)
(* has gone may be noticed now or later; a failed connect is, by writing.  *)
Breaks(x) == IF x.gone THEN BOOLEAN ELSE {FALSE}

Taken(x) == IF x.gone THEN x.c.queued
            ELSE IF x.c.tcp # "ok" THEN 0
            ELSE IF x.c.queued <= Room - x.out THEN x.c.queued ELSE Room - x.out

Drained_Deaf(x) ==      \* variant: what to listen for is left as it was
    IF FlushPending(x) THEN finishFlushIfDrained(x) ELSE x

Drained(x) ==
    IF FlushPending(x) THEN finishFlushIfDrained(x) ELSE enableFileEvents(x, {"Read"})

doWrite(x, broken) ==
    LET n == Taken(x)
        y == [x EXCEPT !.c.queued = @ - n, !.out = IF x.gone THEN @ ELSE @ + n]
    IN IF x.c.state = "Closed" THEN x
       ELSE IF x.c.queued > 0 /\ (x.c.tcp = "failed" \/ (x.gone /\ broken))
            THEN closeSocket(x, "LocalClose", "broken")
       ELSE IF y.c.queued > 0 THEN enableFileEvents(y, {"Write"})
       ELSE Drained(y)

close(x, type, broken) ==
    LET closing(to) == transitionDelayedCloseState(
            [x EXCEPT !.c.state = "Closing", !.c.half = TRUE], to)
    IN CASE x.c.state = "Closed" -> x
         [] x.c.state # "Closed" /\ type = "NoFlush" ->
              closeSocket(x, "LocalClose", "asked")
         [] x.c.state # "Closed" /\ type = "FlushWrite" ->
              IF x.c.queued = 0
              THEN closeSocket(closing("CloseAfterFlush"), "LocalClose", "drained")
              ELSE doWrite(closing("CloseAfterFlush"), broken)
         [] x.c.state # "Closed" /\ type = "FlushWriteAndDelay" ->
              doWrite(closing(IF Deadline THEN "CloseAfterFlushAndWait"
                              ELSE "CloseAfterFlush"), broken)

-----------------------------------------------------------------------------
(* Writing and reading.                                                    *)

(* Nothing is taken once a close was asked for.                            *)
write(x, n, broken) ==
    IF x.c.state # "Open" \/ x.c.half THEN x
    ELSE LET y == [enableFileEvents(x, {"Write"}) EXCEPT
                      !.c.queued = @ + n, !.c.accepted = @ + n]
         IN IF y.c.writeReady THEN doWrite(y, broken) ELSE y

readDisable(x) ==
    IF x.c.state # "Open" THEN [x EXCEPT !.c.disabled = TRUE]
    ELSE enableFileEvents([x EXCEPT !.c.disabled = TRUE], {"Write"})

readEnable(x) ==
    LET y == [x EXCEPT !.c.disabled = FALSE]
    IN IF x.c.state # "Open" THEN y
       ELSE [enableFileEvents(y, {"Read"} \cup
                                 (IF y.c.queued > 0 THEN {"Write"} ELSE {}))
               EXCEPT !.c.active = @ \cup {"Read"}]

(* The read filters are given n bytes, and may answer, close or hold off.  *)
processReadBuffer(x, n, how, broken) ==
    LET y == [x EXCEPT !.c.got = @ + n]
    IN CASE how = "take" -> y
         [] how = "reply" -> write(y, 1, broken)
         [] how = "replyClose" -> close(write(y, 1, broken), "FlushWrite", broken)
         [] how = "replyDelay" -> close(write(y, 1, broken), "FlushWriteAndDelay", broken)
         [] how = "disable" -> readDisable(y)

Reading(x) == (x.c.state = "Open" /\ ~x.c.disabled) \/ waitingForPeerClose(x)

(* The end of the stream.  The cause says whether it cut a flush short.    *)
EndOfStream(x) ==
    closeThroughFilterManager(x, "RemoteClose",
        IF x.c.state = "Closing" /\ x.c.queued > 0 THEN "cut" ELSE "peer")

(* One round of the reading loop over what is there, its last round, and   *)
(* the end of the stream if it has come.                                   *)
ReadAll(x, how, broken) ==
    LET y == [x EXCEPT !.in = 0, !.c.active = @ \cup {"Read"}]
    IN IF waitingForPeerClose(x) THEN y ELSE processReadBuffer(y, x.in, how, broken)

doRead_Delivers(x, how, broken) ==      \* variant: what comes late is delivered
    IF ~Reading(x) THEN x
    ELSE LET y == IF x.in > 0
                  THEN processReadBuffer([x EXCEPT !.in = 0], x.in, how, broken) ELSE x
         IN IF x.eof /\ Reading(y) THEN EndOfStream(y) ELSE y

doRead(x, how, broken) ==
    IF ~Reading(x) THEN x
    ELSE LET y == IF x.in > 0 THEN ReadAll(x, how, broken) ELSE x
         IN IF x.eof /\ Reading(y) THEN EndOfStream(y) ELSE y

-----------------------------------------------------------------------------
(* The file event.                                                         *)

Interest(x) ==
    (IF x.c.state = "Open" \/ waitingForPeerClose(x) THEN {"Read"} ELSE {})
        \cup (IF x.c.queued > 0 THEN {"Write"} ELSE {})

(* The connect that was under way has come to something.                   *)
ConnectFailed(x) ==
    [x EXCEPT !.c.connecting = FALSE, !.c.failed = TRUE, !.c.writeReady = TRUE,
              !.c.posted = Append(@, [type |-> "RemoteClose", cause |-> "refused"])]

ConnectSucceeded(x, broken) ==
    LET y == doWrite([x EXCEPT !.c.connecting = FALSE, !.c.writeReady = TRUE,
                               !.c.state = "Open", !.c.connectTimer = FALSE,
                               !.c.events = Append(@, "Connected")], broken)
    IN IF y.c.state = "Closed" THEN y
       ELSE enableFileEvents(y, {"Read"} \cup
                                 (IF y.c.queued > 0 THEN {"Write"} ELSE {}))

Flush(x, broken) ==
    LET y == [doWrite(x, broken) EXCEPT !.c.written = TRUE]
    IN IF y.c.state = "Closed" \/ y.c.deferred THEN y
       ELSE enableFileEvents(y, Interest(y))

onWriteReady(x, broken) ==
    IF x.c.connecting
    THEN IF x.c.tcp = "failed" THEN ConnectFailed(x) ELSE ConnectSucceeded(x, broken)
    ELSE LET y == [x EXCEPT !.c.writeReady = TRUE]
         IN IF y.c.queued = 0 /\ ~y.c.half /\ y.c.written THEN y ELSE Flush(y, broken)

onFileEvent(x, what, how, broken) ==
    IF x.c.state = "Closed" THEN x
    ELSE IF x.c.failed THEN closeSocket(x, "RemoteClose", "refused")
    ELSE LET y == IF "Write" \in what THEN onWriteReady(x, broken) ELSE x
         IN IF "Read" \in what /\ (y.c.state = "Open" \/ waitingForPeerClose(y))
            THEN doRead(y, how, broken) ELSE y

-----------------------------------------------------------------------------
(* Steps.  The other end hears of what changed, if it listens for it.      *)

Hears(e, x) ==
    LET p == Peer(e)
        ends == Released(x.c) /\ ~Released(conn[p])
    IN \/ "Read" \in conn[e].enabled
          /\ (ends \/ (Ended(x.c) /\ ~Ended(conn[p])) \/ x.out > pipe[p])
       \/ "Write" \in conn[e].enabled /\ (ends \/ x.in < pipe[e])

Becomes(e, x) ==
    LET p == Peer(e) IN
    /\ conn' = [conn EXCEPT ![e] = x.c, ![p].woken = @ \/ Hears(p, x)]
    /\ pipe' = [pipe EXCEPT ![e] = x.out, ![p] = x.in]

Alive(e) == conn[e].state \in {"Open", "Closing"}

Woken(e) == Alive(e) /\ (conn[e].woken \/ conn[e].active # {})

FileEvent(e) ==
    /\ Woken(e)
    /\ LET x == View(e)
           what == (IF x.c.woken THEN Ready(x) \cap x.c.enabled ELSE {}) \cup x.c.active
           y == [x EXCEPT !.c.woken = FALSE, !.c.active = {}]
       IN \E how \in Reactions, broken \in Breaks(x) :
             /\ how \in {"reply", "replyClose", "replyDelay"} =>
                  x.c.accepted < MaxBytes /\ ~x.c.fin
             /\ \E z \in {onFileEvent(y, what, how, broken)} : Becomes(e, z)

RunPosted(e) ==
    /\ conn[e].posted # <<>>
    /\ LET t == Head(conn[e].posted)
           x == [View(e) EXCEPT !.c.posted = Tail(@)]
       IN \E z \in {closeSocket(x, t.type, t.cause)} : Becomes(e, z)

onDelayedCloseTimeout(e) ==
    /\ conn[e].timer
    /\ Becomes(e, closeSocket([View(e) EXCEPT !.c.timer = FALSE], "LocalClose", "deadline"))

onIdleReadTimeout(e) ==
    /\ e \in Impatient /\ Alive(e) /\ conn[e].tcp = "ok"
    /\ Becomes(e, closeSocket(View(e), "LocalClose", "idle"))

(* connect(): under way, done at once, or refused at once.                 *)
doConnect(e) ==
    /\ conn[e].tcp = "none" /\ conn[e].state = "Open" /\ conn[e].connecting
    /\ LET c == conn[e] IN
       \/ /\ conn' = [conn EXCEPT ![e] = [c EXCEPT !.tcp = "pending", !.enabled = {"Write"},
                                                  !.connectTimer = TRUE]]
       \/ /\ conn' = [conn EXCEPT
                ![e] = [c EXCEPT !.tcp = "ok", !.connecting = FALSE, !.writeReady = TRUE,
                                 !.enabled = {"Read"}, !.events = Append(@, "Connected")],
                ![Peer(e)] = Fresh(TRUE)]
       \/ /\ conn' = [conn EXCEPT ![e] = [c EXCEPT !.tcp = "failed", !.connecting = FALSE,
                                 !.failed = TRUE, !.active = {"Write"},
                                 !.connectTimer = TRUE]]
    /\ UNCHANGED pipe

(* The machine's connect timer: its listener names the connection Closed,  *)
(* and that is all.  The callbacks are not told, the socket stays open, and *)
(* every close that follows finds nothing to do, until the end is destroyed. *)
ConnectTimeout(e) ==
    /\ conn[e].connectTimer
    /\ conn' = [conn EXCEPT ![e].connectTimer = FALSE, ![e].state = "Closed",
                            ![e].unreleased = TRUE]
    /\ UNCHANGED pipe

Destroy(e) ==
    /\ conn[e].unreleased
    /\ Becomes(e, [View(e) EXCEPT !.c.unreleased = FALSE, !.c.enabled = {}, !.c.woken = FALSE,
                      !.c.active = {}, !.c.timer = FALSE, !.c.posted = <<>>,
                      !.c.queued = 0, !.c.lost = @ + conn[e].queued])

Resolving(e) == conn[e].tcp = "pending" /\ (Alive(e) \/ conn[e].unreleased)

ConnectResolves(e) ==
    /\ Resolving(e)
    /\ LET heard(c) == "Write" \in c.enabled IN
       \/ conn' = [conn EXCEPT ![e].tcp = "ok", ![e].woken = heard(conn[e]),
                               ![Peer(e)] = Fresh(TRUE)]
       \/ conn' = [conn EXCEPT ![e].tcp = "failed", ![e].woken = heard(conn[e])]
    /\ UNCHANGED pipe

(* The application, on the end's own loop.                                 *)
Write(e, n) ==
    /\ Alive(e) /\ conn[e].tcp # "none" /\ ~conn[e].fin
    /\ conn[e].accepted + n <= MaxBytes
    /\ \E broken \in Breaks(View(e)) :
          \E z \in {write(View(e), n, broken)} : z # View(e) /\ Becomes(e, z)

Close(e, type) ==
    /\ Alive(e) /\ conn[e].tcp # "none"
    /\ \E broken \in Breaks(View(e)) : \E z \in {close(View(e), type, broken)} : Becomes(e, z)

(* Not a thing ConnectionImpl does: a peer of another make may.            *)
ShutSending(e) ==
    /\ e \in HalfClosers /\ Alive(e) /\ conn[e].tcp = "ok" /\ ~conn[e].fin
    /\ conn[e].queued = 0
    /\ Becomes(e, [View(e) EXCEPT !.c.fin = TRUE])

Resume(e) ==
    /\ Alive(e) /\ conn[e].disabled
    /\ Becomes(e, readEnable(View(e)))

-----------------------------------------------------------------------------
Init ==
    /\ conn = [e \in Ends |-> IF e = client THEN Fresh(FALSE)
                              ELSE [Fresh(TRUE) EXCEPT !.state = "Unborn"]]
    /\ pipe = [e \in Ends |-> 0]

Next ==
    \E e \in Ends :
        \/ FileEvent(e) \/ RunPosted(e)
        \/ onDelayedCloseTimeout(e) \/ onIdleReadTimeout(e)
        \/ doConnect(e) \/ ConnectResolves(e) \/ ConnectTimeout(e) \/ Destroy(e)
        \/ \E n \in 1..MaxBytes : Write(e, n)
        \/ \E type \in CloseTypes : Close(e, type)
        \/ ShutSending(e) \/ Resume(e)

(* Each loop runs: what is posted to it, its close timer, and its events;  *)
(* the kernel makes up its mind on a connect.  The application owes        *)
(* nothing.  This is weak fairness written out: what is posted can run,    *)
(* what is armed can fire, what was woken can look, what was dialled can   *)
(* come up or fail.                                                        *)
Fairness ==
    \A e \in Ends :
        /\ []<>(conn[e].posted = <<>>) \/ []<><<RunPosted(e)>>_vars
        /\ []<>(~conn[e].timer) \/ []<><<onDelayedCloseTimeout(e)>>_vars
        /\ []<>(~Resolving(e)) \/ []<><<ConnectResolves(e)>>_vars
        /\ []<>(~Woken(e)) \/ []<><<FileEvent(e)>>_vars

Spec == Init /\ [][Next]_vars /\ Fairness

-----------------------------------------------------------------------------
(* Properties.                                                             *)

(* Type correctness; and a byte taken from the application is queued, with *)
(* the kernel, read by the other end, or dropped by a close.               *)
PairTypeOK ==
    /\ \A e \in Ends :
          /\ conn[e].state \in {"Unborn", "Open", "Closing", "Closed"}
          /\ conn[e].enabled \cup conn[e].active \subseteq {"Read", "Write"}
          /\ pipe[e] \in 0..Room
          /\ conn[e].accepted <= MaxBytes
          /\ conn[e].unreleased => conn[e].state = "Closed" /\ ~conn[e].connectTimer
          /\ Released(conn[e]) =>
                conn[e].queued = 0 /\ conn[e].enabled = {} /\ ~conn[e].timer
    /\ \A e \in Ends :
          conn[Peer(e)].state = "Open" =>
              conn[Peer(e)].got + pipe[e] + conn[e].queued + conn[e].lost
                = conn[e].accepted

(* The callbacks are told of the end once, and of nothing after it: the    *)
(* posted close, the close timer, the idle timer, a failed write and the   *)
(* application race for it.                                                *)
ClosedOnce ==
    \A e \in Ends :
        \A i \in 1..Len(conn[e].events) :
            conn[e].events[i] \in CloseEvents => i = Len(conn[e].events)

(* "Refusing to run here made close(FlushWrite) drop whatever was still    *)
(* queued - the last response a peer was owed" (doWrite): what is queued   *)
(* when a flush is asked for is not dropped because it was done too soon,  *)
(* nor because the end of the peer's stream was read meanwhile.            *)
FlushNotCut == \A e \in Ends : conn[e].why \notin {"drained", "cut"}

(* Once an end has asked to close, no output is taken any more, and no     *)
(* input is handed to its filters (doRead discards it): but for a close    *)
(* asked for while connecting, which the connection's coming up undoes.    *)
ClosingIsDeaf ==
    [][\A e \in Ends :
          /\ conn[e].half \/ conn[e].state = "Closed" => conn'[e].accepted = conn[e].accepted
          /\ conn[e].state \in {"Closing", "Closed"} /\ ~conn[e].connecting =>
                conn'[e].got = conn[e].got]_vars

(* No wake-up is lost to the switching of what is listened for: input that *)
(* may be read will be, unless output waits for room (edge triggering,     *)
(* enableFileEvents, "always poke a read event after re-enabling").        *)
InputIsHeard ==
    \A e \in Ends :
        (/\ conn[e].state = "Open" /\ conn[e].tcp = "ok" /\ ~conn[e].connecting
         /\ ~conn[e].disabled /\ ~conn[e].deferred /\ ~conn[e].failed
         /\ conn[e].queued = 0 /\ "Read" \in Ready(View(e)))
        => \/ "Read" \in conn[e].active
           \/ conn[e].woken /\ "Read" \in conn[e].enabled

(* Nor is the room output waits for.                                       *)
OutputIsHeard ==
    \A e \in Ends :
        (/\ Alive(e) /\ conn[e].tcp = "ok" /\ ~conn[e].deferred /\ ~conn[e].failed
         /\ conn[e].queued > 0 /\ "Write" \in Ready(View(e)))
        => conn[e].woken /\ "Write" \in conn[e].enabled

(* A close that was asked for ends, whether or not the peer reads, closes  *)
(* or answers: "expiry closes even with pending data" (connection.h:290).  *)
ClosingEnds == []<>\A e \in Ends : conn[e].half => conn[e].state = "Closed"

(* No byte is in two places and no state is left half changed; and the     *)
(* callbacks hear of one end, whatever races for it, after what was to be  *)
(* flushed.                                                                *)
PairSound == PairTypeOK /\ ClosedOnce /\ FlushNotCut

(* No wake-up is lost to the switching of what is listened for, in either  *)
(* direction.                                                              *)
NoWakeUpLost == InputIsHeard /\ OutputIsHeard
=============================================================================
