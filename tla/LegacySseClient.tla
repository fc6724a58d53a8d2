--------------------------- MODULE LegacySseClient ---------------------------
(***************************************************************************)
(* The client's end of the older HTTP+SSE transport                        *)
(* (src/src/filter/client_sse_state_machine.cc and the client half of      *)
(* src/src/filter/http_sse_filter_chain_factory.cc, with the POST          *)
(* connection of src/src/mcp_connection_manager.cc).  The client asks for  *)
(* a stream with a GET, the server announces on it where messages are to   *)
(* be posted, and what the application wrote before that waits.            *)
(*                                                                         *)
(* Everything here runs on the dispatcher's thread.  What interleaves is   *)
(* what that thread is handed: posted tasks in their order, the stream's   *)
(* bytes, the negotiation timer, and the connection each POST goes out on. *)
(* A message is a number, given in the order the application writes them.  *)
(* The transport's own errors and closing are not reported to the state    *)
(* machine by anything in the chain (no StreamError, no Close), so those   *)
(* rows of its table are left out, as are the rows of Streamable HTTP.     *)
(***************************************************************************)
EXTENDS Naturals, Sequences, FiniteSets, SequencesExt

CONSTANTS
    MaxMessages,        \* bound: what the application writes
    MaxAnnouncements    \* bound: "endpoint" events of the server

ASSUME LegacyBounds == MaxMessages \in Nat /\ MaxAnnouncements \in Nat

VARIABLES
    filter,     \* the protocol filter of the stream's connection
    posted,     \* tasks the dispatcher has yet to run, in order
    net,        \* the stream's connection, its server, and the POST under way
    fate,       \* what has become of each message
    heard,      \* what the application has been told
    handed      \* history: messages given to a POST connection, in order

legacyVars == <<filter, posted, net, fate, heard, handed>>

Messages == 1..MaxMessages
NoMessage == 0

(* Tasks: "nudge" is the empty write that asks for the GET, "flush" sends  *)
(* what waited for the endpoint, a message is a write of it.               *)
Nudge == [task |-> "nudge", msg |-> NoMessage]
FlushTask == [task |-> "flush", msg |-> NoMessage]
WriteTask(m) == [task |-> "write", msg |-> m]

States == {"Idle", "WaitingForGetSent", "WaitingForEndpoint",
           "EndpointReceived", "Active", "Error"}
Fates == {"unwritten", "written", "queued", "handed", "arrived", "failed",
          "displaced", "discarded", "plain", "gone"}

-----------------------------------------------------------------------------
(* The negotiation's state machine.                                        *)

(* From a state, on an event, to a state; anything else is ignored.        *)
valid_transitions ==
    {<<"Idle", "ConnectionReady", "WaitingForGetSent">>,
     <<"WaitingForGetSent", "GetSent", "WaitingForEndpoint">>,
     <<"WaitingForEndpoint", "EndpointReceived", "EndpointReceived">>,
     <<"WaitingForEndpoint", "StreamStarted", "Active">>,
     <<"WaitingForEndpoint", "NegotiationTimeout", "Error">>,
     <<"EndpointReceived", "StreamStarted", "Active">>}

(* The timer runs while the endpoint is awaited: armed on entry, disabled  *)
(* on exit, whatever the state was left for.                               *)
enterState(f, to) == [f EXCEPT !.sm = to, !.timer = (to = "WaitingForEndpoint")]

handleEvent_Strict(f, e) ==     \* variant: the endpoint is always waited for
    LET To == {t[3] : t \in {v \in valid_transitions :
                        /\ v[1] = f.sm /\ v[2] = e
                        /\ ~(f.sm = "WaitingForEndpoint" /\ e = "StreamStarted")}}
    IN IF To = {} THEN f ELSE enterState(f, CHOOSE to \in To : TRUE)

handleEvent(f, e) ==
    LET To == {t[3] : t \in {v \in valid_transitions : v[1] = f.sm /\ v[2] = e}}
    IN IF To = {} THEN f ELSE enterState(f, CHOOSE to \in To : TRUE)

isNegotiating(f) ==
    f.sm \in {"WaitingForGetSent", "WaitingForEndpoint", "EndpointReceived"}

canSendPost(f) == f.sm = "Active"

-----------------------------------------------------------------------------
(* The POST connection.  There is one: making the next one destroys the    *)
(* last, and a message leaves only once its connection is made.            *)

(* One message handed over, with the outcome `how` of trying: refused      *)
(* before any connection was made, connecting, or connected at once.       *)
sendHttpPost(s, m, how) ==
    CASE how = "refused" -> [s EXCEPT !.fate[m] = "failed"]
      [] how = "connecting" ->
            [post |-> m,
             fate |-> [k \in Messages |->
                          CASE k = m -> "handed"
                            [] k # m /\ k = s.post -> "displaced"
                            [] OTHER -> s.fate[k]]]
      [] how = "connected" ->
            [post |-> NoMessage,
             fate |-> [k \in Messages |->
                          CASE k = m -> "arrived"
                            [] k # m /\ k = s.post -> "displaced"
                            [] OTHER -> s.fate[k]]]

Outcomes == [Messages -> {"refused", "connecting", "connected"}]

(* A sequence of messages, one after the other.                            *)
AfterPosts(ms, how) ==
    LET s[n \in 0..Len(ms)] ==
            IF n = 0 THEN [post |-> net.post, fate |-> fate]
                     ELSE sendHttpPost(s[n - 1], ms[n], how[ms[n]])
    IN s[Len(ms)]

HandOver(ms, f, how) ==
    /\ filter' = f
    /\ \E s \in {AfterPosts(ms, how)} :
          net' = [net EXCEPT !.post = s.post] /\ fate' = s.fate
    /\ handed' = handed \o ms
    /\ UNCHANGED heard

(* The POST's connection is made, and the request written on it: or it is  *)
(* not, and nobody is told.                                                *)
PostConnected ==
    /\ net.post # NoMessage
    /\ fate' = [fate EXCEPT ![net.post] = "arrived"]
    /\ net' = [net EXCEPT !.post = NoMessage]
    /\ UNCHANGED <<filter, posted, heard, handed>>

PostFailed ==
    /\ net.post # NoMessage
    /\ fate' = [fate EXCEPT ![net.post] = "failed"]
    /\ net' = [net EXCEPT !.post = NoMessage]
    /\ UNCHANGED <<filter, posted, heard, handed>>

-----------------------------------------------------------------------------
(* Tasks of the dispatcher.                                                *)

(* A message that is being held for the endpoint; an empty write is not.   *)
Queued(f, m) == IF m = NoMessage THEN f ELSE [f EXCEPT !.queue = Append(@, m)]
Became(m, what) == IF m = NoMessage THEN fate ELSE [fate EXCEPT ![m] = what]

(* The first write of all asks for the stream: what it carries waits.      *)
WriteGet(m) ==
    /\ filter.sm \in {"Idle", "WaitingForGetSent"}
    /\ filter' = handleEvent(handleEvent(Queued(filter, m), "ConnectionReady"),
                             "GetSent")
    /\ net' = [net EXCEPT !.server = "asked"]
    /\ fate' = Became(m, "queued")
    /\ UNCHANGED <<heard, handed>>

WriteQueued(m) ==
    /\ isNegotiating(filter) /\ filter.sm # "WaitingForGetSent"
    /\ filter' = Queued(filter, m)
    /\ fate' = Became(m, "queued")
    /\ UNCHANGED <<net, heard, handed>>

WritePost(m) ==
    /\ canSendPost(filter) /\ filter.endpoint /\ m # NoMessage
    /\ \E how \in Outcomes : HandOver(<<m>>, filter, how)

(* Neither negotiating nor told where to post: the message goes down the   *)
(* plain HTTP path, as a request on the stream's own connection.           *)
WritePlain(m) ==
    /\ \/ filter.sm = "Error"
       \/ canSendPost(filter) /\ (~filter.endpoint \/ m = NoMessage)
    /\ fate' = Became(m, "plain")
    /\ UNCHANGED <<filter, net, heard, handed>>

onWrite(m) ==
    IF net.stream = "open"
    THEN WriteGet(m) \/ WriteQueued(m) \/ WritePost(m) \/ WritePlain(m)
    ELSE /\ fate' = Became(m, "gone")
         /\ UNCHANGED <<filter, net, heard, handed>>

(* What waited is posted, each message in its turn, and waits no more.     *)
processPendingMessages ==
    \E how \in Outcomes :
        HandOver(filter.queue, [filter EXCEPT !.queue = <<>>], how)

RunTask ==
    /\ posted # <<>>
    /\ posted' = Tail(posted)
    /\ IF Head(posted).task = "flush"
       THEN processPendingMessages
       ELSE onWrite(Head(posted).msg)

-----------------------------------------------------------------------------
(* The application, the stream and the timer.                              *)

(* Only while connected does the application's call get as far as a task;  *)
(* otherwise it is told so at once.                                        *)
Send(m) ==
    /\ net.stream = "open"
    /\ fate[m] = "unwritten"
    /\ \A k \in 1..(m - 1) : fate[k] # "unwritten"
    /\ fate' = [fate EXCEPT ![m] = "written"]
    /\ posted' = Append(posted, WriteTask(m))
    /\ UNCHANGED <<filter, net, heard, handed>>

(* The connection is made: the manager posts the empty write that asks for *)
(* the GET, then the filters hear of the new connection.                   *)
Connected ==
    /\ net.stream = "connecting"
    /\ net' = [net EXCEPT !.stream = "open"]
    /\ posted' = Append(posted, Nudge)
    /\ filter' = handleEvent(filter, "ConnectionReady")
    /\ UNCHANGED <<fate, heard, handed>>

(* The response's headers: an event stream, or anything else.              *)
onHeaders ==
    /\ net.stream = "open"
    /\ net.wire # <<>> /\ Head(net.wire) # "endpoint"
    /\ net' = [net EXCEPT !.wire = Tail(@)]
    /\ filter' = IF Head(net.wire) = "stream"
                 THEN handleEvent([filter EXCEPT !.reading = TRUE], "StreamStarted")
                 ELSE filter
    /\ UNCHANGED <<posted, fate, heard, handed>>

(* The "endpoint" event: where to post is known, and what waited for it    *)
(* is sent from a later task.                                              *)
onEvent ==
    /\ net.stream = "open"
    /\ net.wire # <<>> /\ Head(net.wire) = "endpoint"
    /\ filter.reading
    /\ net' = [net EXCEPT !.wire = Tail(@)]
    /\ filter' = handleEvent([filter EXCEPT !.endpoint = TRUE], "EndpointReceived")
    /\ posted' = Append(posted, FlushTask)
    /\ UNCHANGED <<fate, heard, handed>>

onNegotiationTimeout_Quiet ==   \* variant: what waited is left where it is
    /\ net.stream = "open"
    /\ filter.timer /\ filter.sm = "WaitingForEndpoint"
    /\ filter' = handleEvent(filter, "NegotiationTimeout")
    /\ heard' = heard \cup {"error"}
    /\ UNCHANGED <<posted, net, fate, handed>>

(* The wait has been long enough.  The machine fails, the application is   *)
(* told, and the messages that waited are discarded.                       *)
onNegotiationTimeout ==
    /\ net.stream = "open"
    /\ filter.timer /\ filter.sm = "WaitingForEndpoint"
    /\ filter' = [handleEvent(filter, "NegotiationTimeout") EXCEPT !.queue = <<>>]
    /\ fate' = [m \in Messages |-> IF m \in ToSet(filter.queue)
                                   THEN "discarded" ELSE fate[m]]
    /\ heard' = heard \cup {"error"}
    /\ UNCHANGED <<posted, net, handed>>

(* The stream's connection is gone, and its filter with what it held.  The *)
(* POST under way has a connection of its own; the application's own close *)
(* takes that one too.                                                     *)
Ended(byUs) ==
    /\ net.stream = "open"
    /\ net' = [net EXCEPT !.stream = "closed", !.wire = <<>>,
                          !.post = IF byUs THEN NoMessage ELSE @]
    /\ filter' = [filter EXCEPT !.queue = <<>>, !.timer = FALSE]
    /\ fate' = [m \in Messages |->
                   IF m \in ToSet(filter.queue) \/ (byUs /\ m = net.post)
                   THEN "gone" ELSE fate[m]]
    /\ heard' = heard \cup {"closed"}
    /\ UNCHANGED <<posted, handed>>

close == Ended(TRUE)
RemoteClose == Ended(FALSE)

(* The server (external): takes the GET or refuses it, and announces where *)
(* messages go; or does neither, ever.                                     *)
ServerAnswers ==
    /\ net.stream = "open" /\ net.server = "asked"
    /\ \E a \in {"stream", "refusal"} :
          net' = [net EXCEPT !.server = a, !.wire = Append(@, a)]
    /\ UNCHANGED <<filter, posted, fate, heard, handed>>

ServerAnnounces ==
    /\ net.stream = "open" /\ net.server = "stream"
    /\ net.announced < MaxAnnouncements
    /\ net' = [net EXCEPT !.announced = @ + 1, !.wire = Append(@, "endpoint")]
    /\ UNCHANGED <<filter, posted, fate, heard, handed>>

-----------------------------------------------------------------------------
LegacyInit ==
    /\ filter = [sm |-> "Idle", timer |-> FALSE, reading |-> FALSE,
                 endpoint |-> FALSE, queue |-> <<>>]
    /\ posted = <<>>
    /\ net = [stream |-> "connecting", server |-> "idle", wire |-> <<>>,
              announced |-> 0, post |-> NoMessage]
    /\ fate = [m \in Messages |-> "unwritten"]
    /\ heard = {}
    /\ handed = <<>>

LegacyNext ==
    \/ RunTask
    \/ \E m \in Messages : Send(m)
    \/ Connected
    \/ onHeaders
    \/ onEvent
    \/ onNegotiationTimeout
    \/ close
    \/ RemoteClose
    \/ PostConnected
    \/ PostFailed
    \/ ServerAnswers
    \/ ServerAnnounces

(* The dispatcher runs what it is handed and its timers, a connection      *)
(* being made is made or fails.  Nothing is asked of the server or of the  *)
(* application.                                                            *)
LegacyFairness ==
    /\ WF_legacyVars(RunTask)
    /\ WF_legacyVars(onNegotiationTimeout)
    /\ WF_legacyVars(onHeaders) /\ WF_legacyVars(onEvent)
    /\ WF_legacyVars(PostConnected \/ PostFailed)

LegacySpec == LegacyInit /\ [][LegacyNext]_legacyVars /\ LegacyFairness

-----------------------------------------------------------------------------
(* Properties.                                                             *)

(* Type correctness; and the negotiation timer runs exactly while the      *)
(* endpoint is awaited on a live stream (onStateEnter, onStateExit).       *)
LegacyTypeOK ==
    /\ filter.sm \in States
    /\ {filter.reading, filter.endpoint} \subseteq BOOLEAN
    /\ filter.queue \in Seq(Messages)
    /\ net.post \in Messages \cup {NoMessage}
    /\ fate \in [Messages -> Fates]
    /\ heard \subseteq {"error", "closed"}
    /\ filter.timer <=> net.stream = "open" /\ filter.sm = "WaitingForEndpoint"

(* No message is handed to a POST twice: not when the server announces a   *)
(* second endpoint, nor when one is written while what waited is about to  *)
(* be sent (onEvent posts the flush, onWrite does not wait for it).        *)
HandedOnce == \A i, j \in DOMAIN handed : handed[i] = handed[j] => i = j

(* What waits has a way out: the timer will give it up, a flush is on its  *)
(* way, or the stream is up and the endpoint still unannounced.  In        *)
(* particular nothing waits once the endpoint was announced and flushed,   *)
(* nor after the negotiation failed.                                       *)
QueueHasAWayOut ==
    filter.queue # <<>> =>
        \/ filter.timer
        \/ FlushTask \in ToSet(posted)
        \/ filter.sm = "Active" /\ ~filter.endpoint

(* A message is accounted for in exactly one place: the task that will     *)
(* write it, the queue, or the POST under way; none is in two, none that   *)
(* was accepted and not yet settled is in none.                            *)
InOnePlace ==
    \A m \in Messages :
        /\ (fate[m] = "written") <=> (WriteTask(m) \in ToSet(posted))
        /\ (fate[m] = "queued") <=> (m \in ToSet(filter.queue))
        /\ (fate[m] = "handed") <=> (m = net.post)

(* Once the endpoint is announced, everything that waited for it leaves    *)
(* the queue (processPendingMessages runs, and nothing is queued behind    *)
(* its back).                                                              *)
AnnouncedMeansSent ==
    (filter.endpoint /\ filter.queue # <<>>) ~> (filter.queue = <<>>)

(* A server that never answers the GET is given up: no message waits for   *)
(* its headers for ever.                                                   *)
UnansweredIsGivenUp ==
    (filter.sm = "WaitingForEndpoint" /\ filter.queue # <<>>)
        ~> (filter.queue = <<>> \/ filter.sm = "Active")

(* The queue and its timer are sound in every state the handlers, their     *)
(* posted tasks and the network's callbacks can leave: each message in one  *)
(* place and handed over once, and a way out for those that wait.           *)
QueueSound == LegacyTypeOK /\ InOnePlace /\ HandedOnce /\ QueueHasAWayOut

(* What waits for the endpoint does not wait for ever: it is sent once the  *)
(* endpoint is announced, and given up if the server never answers.         *)
QueueEmpties == AnnouncedMeansSent /\ UnansweredIsGivenUp
=============================================================================
