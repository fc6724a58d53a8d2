--------------------------- MODULE ServerSessions ----------------------------
(***************************************************************************)
(* How the server knows whose message it has and where its answers go on   *)
(* the older transports: HTTP+SSE, where a client holds one stream open    *)
(* and posts each message on a connection of its own, plain HTTP and       *)
(* stdio, where the connection is the client.                              *)
(*   src/src/filter/server_connection_mode.cc    what a connection is for  *)
(*   src/src/filter/sse_session_registry.cc      stream id -> connection   *)
(*   src/src/filter/http_sse_filter_chain_factory.cc (server half)         *)
(*   src/include/mcp/server/mcp_server.h         SessionManager,           *)
(*                                               ResourceManager           *)
(*   src/src/server/mcp_server.cc                dispatch and its routes   *)
(* All of it runs on one dispatcher; what interleaves is what arrives on   *)
(* the connections, in pieces (a POST's headers, then its body), their     *)
(* closing, the expiry timer and the updates the application posts.        *)
(* Sessions keyed on a Streamable HTTP id are the subject of               *)
(* StreamableSessions and do not appear here.                              *)
(***************************************************************************)
EXTENDS Naturals, FiniteSets, Functions, Sequences

CONSTANTS
    HttpConns, Pipes,   \* connections: HTTP, and stdio
    NoConn,             \* nowhere
    Uris, NoUri,        \* resources
    MaxSessions,        \* max_sessions of the configuration
    MaxStreams,         \* bound: event streams asked for
    MaxInputs           \* bound: things that arrive from outside

Conns == HttpConns \cup Pipes

ASSUME SessionsAssumption ==
    /\ HttpConns \cap Pipes = {} /\ NoConn \notin Conns /\ NoUri \notin Uris
    /\ MaxSessions \in Nat \ {0} /\ MaxStreams \in Nat /\ MaxInputs \in Nat

VARIABLES
    conn,       \* each connection: whether it is up, and its filter's mode
    request,    \* what its client is in the middle of sending
    registry,   \* SseSessionRegistry: stream id -> connection
    streams,    \* every stream ever asked for, in order: its connection,
                \* or nowhere for one that was refused
    server,     \* SessionManager and ResourceManager
    wants,      \* what each client was last told of its subscriptions
    told,       \* the update just sent, and where it went
    astray,     \* history: what reached a place it was not meant for, or none
    inputs

vars == <<conn, request, registry, streams, server, wants, told, astray, inputs>>

StreamIds == 1..MaxStreams
NoStream == 0
Modes == {"Undetermined", "PlainHttp", "SseStream", "CallbackProxy"}
Methods == {"subscribe", "unsubscribe", "other", "notification"}

Quiet == [uri |-> NoUri, to |-> {}]
Open(c) == conn[c].state = "open"

(* A map with one entry more, or another.                                  *)
Having(f, key, value) ==
    [k \in DOMAIN f \cup {key} |-> IF k = key THEN value ELSE f[k]]

(* A message arrives, if the bound allows one more.                        *)
Input == inputs < MaxInputs /\ inputs' = inputs + 1

-----------------------------------------------------------------------------
(* SessionManager and ResourceManager: sessions_ with the two maps that    *)
(* find one by stream or by connection, and who is subscribed to what.     *)

NewSession(c, n) == [conn |-> c, stream |-> n, expired |-> FALSE, subs |-> {}]

releaseSession_Keeps(s, gone) == s      \* variant: subscriptions outlive it

releaseSession(s, gone) ==
    [s EXCEPT !.subscribers = [u \in Uris |-> @[u] \ gone]]

(* Take sessions out of all three maps, and their subscriptions with them. *)
Removed(s, gone) ==
    releaseSession(
        [s EXCEPT
            !.sessions = Restrict(@, DOMAIN @ \ gone),
            !.byStream = Restrict(@, {n \in DOMAIN @ : @[n] \notin gone}),
            !.byConn = Restrict(@, {c \in DOMAIN @ : @[c] \notin gone})],
        gone)

(* For each stream that closed, the session keyed on it, if there is one.  *)
removeSessionByTransportId(s, closed) ==
    Removed(s, {s.byStream[n] : n \in closed \cap DOMAIN s.byStream})

removeSessionByConnection(s, c) ==
    IF c \in DOMAIN s.byConn THEN Removed(s, {s.byConn[c]}) ELSE s

cleanupExpiredSessions_All(s) ==    \* variant: an idle stream's go as well
    Removed(s, {i \in DOMAIN s.sessions : s.sessions[i].expired})

(* Those keyed on a stream end with it, never for being quiet.             *)
cleanupExpiredSessions(s) ==
    Removed(s, {i \in DOMAIN s.sessions :
                    s.sessions[i].stream = NoStream /\ s.sessions[i].expired})

Full(s) == Cardinality(DOMAIN s.sessions) >= MaxSessions

(* A session for a key nobody has: room is made first, where it can be.    *)
Created(s, c, n) ==
    LET swept == IF Full(s) THEN cleanupExpiredSessions(s) ELSE s
        i == s.created + 1
    IN IF Full(swept) THEN [mgr |-> swept, id |-> 0]
       ELSE [mgr |-> [swept EXCEPT
                         !.created = i,
                         !.sessions = Having(@, i, NewSession(c, n)),
                         !.byStream = IF n = NoStream THEN @ ELSE Having(@, n, i),
                         !.byConn = IF c = NoConn THEN @ ELSE Having(@, c, i)],
             id |-> i]

updateActivity(s, i) == [s EXCEPT !.sessions[i].expired = FALSE]

-----------------------------------------------------------------------------
(* The connection's mode.  Only these events are raised by the chain.      *)

handleEvent(mode, event) ==
    IF mode = "Undetermined"
    THEN CASE event = "PlainHttpDetected" -> "PlainHttp"
           [] event = "SseGetDetected" -> "SseStream"
           [] event = "CallbackPostDetected" -> "CallbackProxy"
    ELSE mode

(* A keep-alive connection is for something else at the next request; the  *)
(* id of the callback goes with the mode it belonged to.                   *)
resetForNextRequest(f) ==
    IF f.mode = "SseStream" THEN f
    ELSE [f EXCEPT !.mode = "Undetermined", !.callback = NoStream]

isCallbackProxy(c) == conn[c].mode = "CallbackProxy" /\ conn[c].callback # NoStream

(* Down a stream, unless it is gone or is the connection being written.    *)
RegistrySend(n, writing) ==
    IF n \in DOMAIN registry /\ registry[n] # writing /\ Open(registry[n])
    THEN registry[n] ELSE NoConn

(* Where bytes written to a connection go.                                 *)
onWrite_Plain(c, guarded) == c      \* variant: nothing is rerouted

onWrite(c, guarded) ==
    IF ~guarded /\ isCallbackProxy(c) THEN RegistrySend(conn[c].callback, c) ELSE c

-----------------------------------------------------------------------------
(* Dispatch.                                                               *)

(* The stream a message names is its identity; the connection is, where    *)
(* there is none.                                                          *)
getOrCreateSessionFor(c) ==
    LET n == IF isCallbackProxy(c) THEN conn[c].callback ELSE NoStream
    IN CASE n # NoStream /\ n \in DOMAIN server.byStream ->
              [mgr |-> server, id |-> server.byStream[n]]
         [] n # NoStream /\ n \notin DOMAIN server.byStream ->
              Created(server, NoConn, n)
         [] n = NoStream /\ c \in DOMAIN server.byConn ->
              [mgr |-> server, id |-> server.byConn[c]]
         [] OTHER -> Created(server, c, NoStream)

handleSubscribe(s, i, u) ==
    [s EXCEPT !.subscribers[u] = @ \cup {i}, !.sessions[i].subs = @ \cup {u}]

handleUnsubscribe(s, i, u) ==
    [s EXCEPT !.subscribers[u] = @ \ {i}, !.sessions[i].subs = @ \ {u}]

Handled(s, i, method, u) ==
    CASE method = "subscribe" -> handleSubscribe(s, i, u)
      [] method = "unsubscribe" -> handleUnsubscribe(s, i, u)
      [] OTHER -> s

(* The client a message comes from, by what it said itself: the holder of  *)
(* the stream it named, or of the connection.                              *)
Sender(c) == IF request[c].to = NoStream THEN c ELSE streams[request[c].to]

(* Something for a client that is there should get there, and nowhere      *)
(* else; for one that has gone it goes nowhere.                            *)
Misplaced(c, place) ==
    place # (IF Open(Sender(c)) THEN Sender(c) ELSE NoConn)

(* What a client that can be sent updates knows once it has the answer.    *)
Learnt(c, method, u, done) ==
    LET who == Sender(c) IN
    IF ~done \/ ~Open(who) \/ (c = who /\ c \in HttpConns) THEN wants
    ELSE CASE method = "subscribe" -> [wants EXCEPT ![who] = @ \cup {u}]
           [] method = "unsubscribe" -> [wants EXCEPT ![who] = @ \ {u}]
           [] OTHER -> wants

(* A request: its session, its handler, its answer on the way it came.     *)
dispatchRequest(c, method, u) ==
    LET r == getOrCreateSessionFor(c)
        place == onWrite(c, FALSE)
    IN /\ server' = IF r.id = 0 THEN r.mgr
                    ELSE Handled(updateActivity(r.mgr, r.id), r.id, method, u)
       /\ wants' = Learnt(c, method, u, r.id # 0)
       /\ astray' = IF Misplaced(c, place) THEN astray \cup {"answer"} ELSE astray

(* A notification is not answered, but HTTP is: where the headers were     *)
(* not answered already.                                                   *)
onNotification(c) ==
    LET r == getOrCreateSessionFor(c)
    IN /\ server' = IF r.id = 0 THEN r.mgr ELSE updateActivity(r.mgr, r.id)
       /\ astray' = IF c \in HttpConns /\ conn[c].mode # "CallbackProxy"
                       /\ onWrite(c, FALSE) # c
                    THEN astray \cup {"status"} ELSE astray
       /\ UNCHANGED wants

Dispatch(c, method, u) ==
    IF method = "notification" THEN onNotification(c) ELSE dispatchRequest(c, method, u)

-----------------------------------------------------------------------------
(* What arrives.                                                           *)

(* An accepted HTTP connection has a session of its own before anything is *)
(* read from it, or is closed where no room can be made for one.           *)
onNewConnection(c) ==
    /\ c \in HttpConns /\ conn[c].state = "unused"
    /\ LET r == Created(server, c, NoStream)
       IN /\ server' = r.mgr
          /\ conn' = [conn EXCEPT ![c].state = IF r.id = 0 THEN "closed" ELSE "open"]
    /\ told' = Quiet
    /\ UNCHANGED <<request, registry, streams, wants, astray, inputs>>

(* A pipe gets its session with its first message.                         *)
PipeOpens(c) ==
    /\ c \in Pipes /\ conn[c].state = "unused"
    /\ conn' = [conn EXCEPT ![c].state = "open"]
    /\ told' = Quiet
    /\ UNCHANGED <<request, registry, streams, server, wants, astray, inputs>>

(* GET of the event stream.  Once it is one, nothing more is read from the *)
(* connection: its decoder is held.  A client that cannot take a stream is *)
(* refused and told the connection is over.                                *)
OpenStream(c) ==
    /\ c \in HttpConns /\ Open(c) /\ ~request[c].busy /\ conn[c].mode # "SseStream"
    /\ Len(streams) < MaxStreams
    /\ Input
    /\ conn' = [conn EXCEPT ![c].mode =
                   handleEvent(resetForNextRequest(conn[c]).mode, "SseGetDetected"),
                            ![c].callback = NoStream]
    /\ \E started \in BOOLEAN :
          /\ registry' = IF started THEN Having(registry, Len(streams) + 1, c) ELSE registry
          /\ streams' = Append(streams, IF started THEN c ELSE NoConn)
    /\ told' = Quiet
    /\ UNCHANGED <<request, server, wants, astray>>

(* The headers of a POST: to a callback a client was told of, or to a path *)
(* of the application's.  A callback's is accepted there and then.         *)
PostHeaders(c, n) ==
    /\ c \in HttpConns /\ Open(c) /\ ~request[c].busy /\ conn[c].mode # "SseStream"
    /\ n = NoStream \/ (n \in DOMAIN streams /\ streams[n] # NoConn)
    /\ Input
    /\ request' = [request EXCEPT ![c] = [busy |-> TRUE, to |-> n]]
    /\ LET f == resetForNextRequest(conn[c])
       IN conn' = [conn EXCEPT ![c] =
             IF n # NoStream
             THEN [f EXCEPT !.mode = handleEvent(f.mode, "CallbackPostDetected"),
                            !.callback = n]
             ELSE [f EXCEPT !.mode = handleEvent(f.mode, "PlainHttpDetected")]]
    /\ astray' = IF n # NoStream /\ onWrite(c, TRUE) # c
                 THEN astray \cup {"status"} ELSE astray
    /\ told' = Quiet
    /\ UNCHANGED <<registry, streams, server, wants>>

(* Its body, which is one message; and the request is complete.            *)
RequestComplete(c) ==
    /\ request' = [request EXCEPT ![c] = [busy |-> FALSE, to |-> NoStream]]
    /\ conn' = [conn EXCEPT ![c] = resetForNextRequest(@)]

PostBody(c, method, u) ==
    /\ c \in HttpConns /\ Open(c) /\ request[c].busy
    /\ Dispatch(c, method, u)
    /\ RequestComplete(c)
    /\ told' = Quiet
    /\ UNCHANGED <<registry, streams, inputs>>

PipeMessage(c, method, u) ==
    /\ c \in Pipes /\ Open(c)
    /\ Input
    /\ Dispatch(c, method, u)
    /\ told' = Quiet
    /\ UNCHANGED <<conn, request, registry, streams>>

(* SseSessionRegistry::removeConnection, then the session of each stream   *)
(* it carried, then the connection's own.                                  *)
removeConnection(c) == Restrict(registry, {n \in DOMAIN registry : registry[n] # c})

onConnectionLifecycleEvent(c) ==
    /\ registry' = removeConnection(c)
    /\ server' = removeSessionByConnection(
                    removeSessionByTransportId(server, DOMAIN registry \ DOMAIN registry'), c)

(* A pipe's closing is counted and no more: its session is left to expire. *)
Close(c) ==
    /\ Open(c)
    /\ conn' = [conn EXCEPT ![c] = [state |-> "closed", mode |-> "Undetermined",
                                    callback |-> NoStream]]
    /\ request' = [request EXCEPT ![c] = [busy |-> FALSE, to |-> NoStream]]
    /\ IF c \in HttpConns THEN onConnectionLifecycleEvent(c)
       ELSE UNCHANGED <<registry, server>>
    /\ wants' = [wants EXCEPT ![c] = {}]
    /\ told' = Quiet
    /\ UNCHANGED <<streams, astray, inputs>>

-----------------------------------------------------------------------------
(* What the server does by itself.                                         *)

sendToSession_Any(s) ==     \* variant: whoever can be reached
    IF registry # <<>> THEN registry[CHOOSE n \in DOMAIN registry : TRUE] ELSE NoConn

(* Where a message of the server's own for a session goes: its stream, the *)
(* pipe it is keyed on, or nowhere.                                        *)
sendToSession(s) ==
    CASE s.stream # NoStream -> RegistrySend(s.stream, NoConn)
      [] s.stream = NoStream /\ s.conn \in Pipes /\ Open(s.conn) -> s.conn
      [] OTHER -> NoConn

notifyResourceUpdate(u) ==
    LET subscribed == server.subscribers[u] \cap DOMAIN server.sessions
    IN /\ Input
       /\ told' = [uri |-> u,
                   to |-> {sendToSession(server.sessions[i]) : i \in subscribed}
                             \ {NoConn}]
       /\ server' = [server EXCEPT !.sessions =
                        [i \in DOMAIN @ |-> [server.sessions[i] EXCEPT
                            !.expired = @ /\ i \notin subscribed]]]
       /\ UNCHANGED <<conn, request, registry, streams, wants, astray>>

(* Time passes without a word from a session.                              *)
GoesQuiet(i) ==
    /\ i \in DOMAIN server.sessions /\ ~server.sessions[i].expired
    /\ server' = [server EXCEPT !.sessions[i].expired = TRUE]
    /\ told' = Quiet
    /\ UNCHANGED <<conn, request, registry, streams, wants, astray, inputs>>

CleanupTimer ==
    /\ server' = cleanupExpiredSessions(server)
    /\ told' = Quiet
    /\ UNCHANGED <<conn, request, registry, streams, wants, astray, inputs>>

-----------------------------------------------------------------------------
InitAt(n, allowed) ==
    /\ conn = [c \in Conns |-> [state |-> IF c \in allowed THEN "unused" ELSE "closed",
                                mode |-> "Undetermined", callback |-> NoStream]]
    /\ request = [c \in Conns |-> [busy |-> FALSE, to |-> NoStream]]
    /\ registry = <<>>
    /\ streams = <<>>
    /\ server = [sessions |-> <<>>, byStream |-> <<>>, byConn |-> <<>>,
                 created |-> 0, subscribers |-> [u \in Uris |-> {}]]
    /\ wants = [c \in Conns |-> {}]
    /\ told = Quiet
    /\ astray = {}
    /\ inputs = n

Init == InitAt(0, Conns)

Next ==
    \/ \E c \in Conns : onNewConnection(c) \/ PipeOpens(c) \/ OpenStream(c) \/ Close(c)
    \/ \E c \in Conns, n \in 0..MaxStreams : PostHeaders(c, n)
    \/ \E c \in Conns, method \in Methods, u \in Uris :
          PostBody(c, method, u) \/ PipeMessage(c, method, u)
    \/ \E u \in Uris : notifyResourceUpdate(u)
    \/ \E i \in 1..server.created : GoesQuiet(i)
    \/ CleanupTimer

Spec == Init /\ [][Next]_vars

-----------------------------------------------------------------------------
(* Properties.                                                             *)

(* Type correctness; the id of a callback belongs to that mode alone.      *)
ServerTypeOK ==
    /\ \A c \in Conns :
          /\ conn[c].mode \in Modes /\ conn[c].callback \in 0..MaxStreams
          /\ conn[c].callback # NoStream <=> conn[c].mode = "CallbackProxy"
    /\ DOMAIN registry \subseteq 1..Len(streams)
    /\ DOMAIN server.sessions \subseteq 1..server.created
    /\ wants \in [Conns -> SUBSET Uris]
    /\ astray \subseteq {"answer", "status"}

(* "Kept consistent with sessions_ by every mutation path": every session  *)
(* is found under its own key and under no other, and no key finds a       *)
(* session that is gone.                                                   *)
SessionMapsAgree ==
    LET S == server.sessions IN
    /\ \A n \in DOMAIN server.byStream :
          server.byStream[n] \in DOMAIN S /\ S[server.byStream[n]].stream = n
    /\ \A c \in DOMAIN server.byConn :
          server.byConn[c] \in DOMAIN S /\ S[server.byConn[c]].conn = c
    /\ \A i \in DOMAIN S :
          IF S[i].stream # NoStream
          THEN S[i].conn = NoConn /\ S[i].stream \in DOMAIN server.byStream
          ELSE S[i].conn \in DOMAIN server.byConn
    /\ Cardinality(DOMAIN S) <= MaxSessions

(* Updates are fanned out to live sessions that asked for them: what the   *)
(* ResourceManager holds is what the sessions hold, however they ended     *)
(* (releaseSession on a stream's close, a connection's, or expiry).        *)
SubscribersAgree ==
    \A u \in Uris :
        server.subscribers[u] =
            {i \in DOMAIN server.sessions : u \in server.sessions[i].subs}

(* An HTTP connection's session does not outlive it, and no stream is      *)
(* written to once its connection has closed (onConnectionLifecycleEvent   *)
(* drops both before the connection can be destroyed).                     *)
NothingOfClosedConnections ==
    /\ \A n \in DOMAIN registry : Open(registry[n]) /\ conn[registry[n]].mode = "SseStream"
    /\ \A c \in DOMAIN server.byConn \cap HttpConns : Open(c)

(* Every answer reaches the client whose message it answers, on its stream *)
(* where it posted to one, and nothing but events is written to a stream:  *)
(* whatever the connection carried before, whichever stream closed while   *)
(* the body was on its way.                                                *)
NothingAstray == astray = {}

(* A client told that it is subscribed stays subscribed for as long as its *)
(* stream is open: neither its POST connections' closing nor its silence   *)
(* nor the number of other sessions takes that away.                       *)
ToldIsSubscribed ==
    \A n \in DOMAIN registry, u \in Uris :
        u \in wants[registry[n]] =>
            /\ n \in DOMAIN server.byStream
            /\ server.byStream[n] \in server.subscribers[u]

(* An update reaches every client on a stream that was told it would, and  *)
(* no client that was not (notifyResourceUpdate, sendNotificationToSession).*)
UpdateHeard ==
    told.uri # NoUri =>
        /\ \A c \in told.to : told.uri \in wants[c]
        /\ \A n \in DOMAIN registry : told.uri \in wants[registry[n]] => registry[n] \in told.to

(* The three session maps, the subscribers and the stream registry tell one *)
(* story, however connections, streams and sessions end: no table keeps     *)
(* what another has let go.                                                 *)
TablesAgree ==
    /\ ServerTypeOK
    /\ SessionMapsAgree
    /\ SubscribersAgree
    /\ NothingOfClosedConnections

(* An update goes to the clients that were told they would hear of it, for  *)
(* as long as their streams are open, and to no others.                     *)
UpdatesReachSubscribers == ToldIsSubscribed /\ UpdateHeard

(* Sessions keyed on a stream are spared by the sweep since "their lifetime *)
(* is bounded by the SSE stream closing" (mcp_server.h:1273): none is there *)
(* whose stream is not.  The code does not keep to it: a body dispatched    *)
(* after its stream closed makes one.                                       *)
StreamSessionsEndWithIt == DOMAIN server.byStream \subseteq DOMAIN registry
=============================================================================
