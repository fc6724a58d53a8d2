--------------------------- MODULE ServerQuestions ---------------------------
(***************************************************************************)
(* The questions a server asks its clients (McpServer::sendRequest,        *)
(* sendRequestToSession and ClientRequestCorrelator), on top of the        *)
(* sessions and streams of ServerSessions: asked from the dispatcher's own *)
(* thread or from another, sent down the stream of a session or its pipe,  *)
(* answered by a POST like any other, late or never, while streams close,  *)
(* sessions end and the server is destroyed.                               *)
(*   src/src/server/mcp_server.cc, src/include/mcp/server/mcp_server.h     *)
(* A caller's future is settled once: with the answer, or an error.  Every *)
(* question is given a deadline; one asked without waits for its answer.   *)
(***************************************************************************)
EXTENDS ServerSessions

CONSTANTS
    Calls,          \* questions, each asked once, under an id of its own
    OnDispatcher,   \* those asked on the dispatcher's thread
    Workloads       \* the inputs, questions and connections combined

ASSUME CallsAssumption ==
    /\ OnDispatcher \subseteq Calls
    /\ Workloads \subseteq [inputs : 0..MaxInputs, calls : SUBSET Calls, conns : SUBSET Conns]

VARIABLES
    calls,      \* each question: its session, where it went, what it became
    waiters,    \* ClientRequestCorrelator: id -> question
    deadlines,  \* client_request_deadlines_: id -> question its timer is for
    posted,     \* tasks of the dispatcher
    alive       \* the server has not been destroyed

qvars == <<calls, waiters, deadlines, posted, alive>>
allvars == <<vars, qvars>>

(* What a future holds.  "inner" is the one the dispatcher's half returns, *)
(* "future" the caller's: the same thing for a caller on the dispatcher.   *)
Futures == {"none", "unasked", "pending", "answered", "error", "timeout", "broken"}
Settled == Futures \ {"none", "unasked", "pending"}

BeginTask(q) == [task |-> "begin", call |-> q]
EraseTask(q) == [task |-> "erase", call |-> q]

(* The dispatcher's half is over: on the dispatcher, that is the future.   *)
Settle(C, q, how) ==
    [C EXCEPT ![q].inner = how,
              ![q].future = IF q \in OnDispatcher THEN how ELSE @]

(* A promise nobody holds any more, in a waiter or in a timer, is broken.  *)
Dropped(C, W, D) ==
    LET lost == {q \in Calls : C[q].inner = "pending"
                                 /\ q \notin Range(W) /\ q \notin Range(D)}
    IN [q \in Calls |->
           IF q \in lost THEN Settle(C, q, "broken")[q] ELSE C[q]]

Without(f, id) == Restrict(f, DOMAIN f \ {id})

forget(id) == Without(waiters, id)

-----------------------------------------------------------------------------
(* The dispatcher's half of sendRequest: the waiter is there before the    *)
(* question goes out, and the deadline once it has.                        *)
NotSent_Ignored(q, C) ==        \* variant: nobody looks whether it was sent
    /\ waiters' = Having(waiters, q, q)
    /\ calls' = Dropped([C EXCEPT ![q].inner = "pending"], waiters', deadlines)
    /\ UNCHANGED deadlines

NotSent(q, C) ==
    /\ waiters' = forget(q)
    /\ calls' = Dropped(Settle(C, q, "error"), waiters', deadlines)
    /\ UNCHANGED deadlines

sendRequest(q, C) ==
    LET i == C[q].session
        live == i \in DOMAIN server.sessions
        place == IF live THEN sendToSession(server.sessions[i]) ELSE NoConn
    IN /\ server' = IF live THEN updateActivity(server, i) ELSE server
       /\ CASE ~live ->
                 /\ calls' = Settle(C, q, "error")
                 /\ UNCHANGED <<waiters, deadlines>>
            [] live /\ place = NoConn -> NotSent(q, C)
            [] OTHER ->
                 /\ waiters' = Having(waiters, q, q)
                 /\ deadlines' = Having(deadlines, q, q)
                 /\ calls' = Dropped([C EXCEPT ![q].inner = "pending",
                                               ![q].hands = place],
                                     waiters', deadlines')

(* The client a session is with.                                           *)
ClientOf(i) ==
    IF i \notin DOMAIN server.sessions THEN NoConn
    ELSE IF server.sessions[i].stream = NoStream THEN server.sessions[i].conn
    ELSE streams[server.sessions[i].stream]

(* A question is asked of a session the application has seen.              *)
Ask(q) ==
    /\ alive /\ calls[q].future = "unasked"
    /\ \E i \in 1..server.created :
          LET C == [calls EXCEPT ![q].session = i, ![q].future = "pending",
                                 ![q].asked = ClientOf(i)]
          IN IF q \in OnDispatcher
             THEN sendRequest(q, C) /\ UNCHANGED posted
             ELSE /\ calls' = C
                  /\ posted' = Append(posted, BeginTask(q))
                  /\ UNCHANGED <<server, waiters, deadlines>>
    /\ told' = Quiet
    /\ UNCHANGED <<conn, request, registry, streams, wants, astray, inputs, alive>>

(* A posted question that its caller was told about already is not asked.  *)
Begin(q) ==
    IF calls[q].future = "pending" THEN sendRequest(q, calls)
    ELSE UNCHANGED <<server, calls, waiters, deadlines>>

(* The timer's own erasure, posted so as not to destroy it while it runs.  *)
Erase(q) ==
    /\ deadlines' = Without(deadlines, q)
    /\ calls' = Dropped(calls, waiters, deadlines')
    /\ UNCHANGED <<server, waiters>>

RunTask ==
    /\ alive /\ posted # <<>>
    /\ posted' = Tail(posted)
    /\ LET t == Head(posted)
       IN IF t.task = "begin" THEN Begin(t.call) ELSE Erase(t.call)
    /\ told' = Quiet
    /\ UNCHANGED <<conn, request, registry, streams, wants, astray, inputs, alive>>

-----------------------------------------------------------------------------
(* Answers.                                                                *)

(* An answer goes to whoever waits under its id, and to nobody if nobody   *)
(* does; the deadline is nobody's business any more.                       *)
deliver(q, c) ==
    IF q \notin DOMAIN waiters THEN UNCHANGED <<calls, waiters, deadlines>>
    ELSE LET w == waiters[q]
         IN /\ waiters' = Without(waiters, q)
            /\ deadlines' = Without(deadlines, q)
            /\ calls' = Dropped(Settle([calls EXCEPT ![w].by = c], w, "answered"),
                                waiters', deadlines')

(* Whose answer it is, as far as the server can know: a POST to a path of  *)
(* the application's may be anybody's.                                     *)
Answerer(c) == IF c \in HttpConns /\ request[c].to = NoStream THEN NoConn ELSE Sender(c)

(* A response with the question's id: in the body of any POST, to a        *)
(* callback or to a path, or on a pipe.  Who was asked is not looked at.   *)
onResponse(c, q) ==
    /\ alive /\ Open(c)
    /\ \/ c \in HttpConns /\ request[c].busy /\ RequestComplete(c)
       \/ c \in Pipes /\ UNCHANGED <<conn, request>>
    /\ deliver(q, Answerer(c))
    /\ told' = Quiet
    /\ UNCHANGED <<registry, streams, server, wants, astray, inputs, posted, alive>>

(* The deadline: unless the answer was there first, the caller is told.    *)
TimerFires_Rash(q) ==       \* variant: the waiter is left behind
    /\ alive /\ calls[q].inner = "pending"
    /\ q \in DOMAIN deadlines /\ deadlines[q] = q
    /\ calls' = Settle(calls, q, "timeout")
    /\ posted' = Append(posted, EraseTask(q))
    /\ UNCHANGED <<vars, waiters, deadlines, alive>>

TimerFires(q) ==
    /\ alive /\ q \in DOMAIN deadlines /\ deadlines[q] = q
    /\ ~calls[q].fired
    /\ LET C == [calls EXCEPT ![q].fired = TRUE]
       IN IF q \in DOMAIN waiters
          THEN /\ waiters' = forget(q)
               /\ calls' = Dropped(Settle(C, q, "timeout"), waiters', deadlines)
               /\ posted' = Append(posted, EraseTask(q))
          ELSE calls' = C /\ UNCHANGED <<waiters, posted>>
    /\ UNCHANGED <<vars, deadlines, alive>>

-----------------------------------------------------------------------------
(* A caller on another thread has two threads of its own: one waits for    *)
(* its time to be up, one hands over what the dispatcher's half came to.   *)
TimeIsUp(q) ==
    /\ q \notin OnDispatcher /\ calls[q].future = "pending"
    /\ calls' = [calls EXCEPT ![q].future = "timeout"]
    /\ UNCHANGED <<vars, waiters, deadlines, posted, alive>>

HandedOver(q) ==
    /\ q \notin OnDispatcher /\ calls[q].future = "pending"
    /\ calls[q].inner \in Settled
    /\ calls' = [calls EXCEPT ![q].future =
                    IF calls[q].inner = "broken" THEN "error" ELSE calls[q].inner]
    /\ UNCHANGED <<vars, waiters, deadlines, posted, alive>>

(* The server is destroyed: the promises it held are broken, and a task    *)
(* that will not run tells its caller so as it is dropped.                 *)
Unbegun(q) ==
    IF BeginTask(q) \in Range(posted) /\ calls[q].future = "pending"
    THEN "error" ELSE calls[q].future

Destroy ==
    /\ alive
    /\ alive' = FALSE
    /\ posted' = <<>> /\ waiters' = <<>> /\ deadlines' = <<>>
    /\ calls' = Dropped([q \in Calls |-> [calls[q] EXCEPT !.future = Unbegun(q)]],
                        <<>>, <<>>)
    /\ UNCHANGED vars

-----------------------------------------------------------------------------
QInit ==
    \E w \in Workloads :
        /\ InitAt(MaxInputs - w.inputs, w.conns)
        /\ calls = [q \in Calls |->
              [session |-> 0, asked |-> NoConn, hands |-> NoConn, by |-> NoConn, fired |-> FALSE,
               inner |-> "none",
               future |-> IF q \in w.calls THEN "unasked" ELSE "none"]]
        /\ waiters = <<>> /\ deadlines = <<>> /\ posted = <<>> /\ alive = TRUE

QNext ==
    \/ alive /\ Next /\ UNCHANGED qvars
    \/ RunTask
    \/ \E q \in Calls : Ask(q) \/ TimerFires(q) \/ TimeIsUp(q) \/ HandedOver(q)
    \/ \E q \in Calls, c \in Conns : onResponse(c, q)
    \/ Destroy

(* The dispatcher runs what it is given and its timers while the server    *)
(* lives; threads run.  Clients owe nothing.                               *)
QFairness ==
    /\ WF_allvars(RunTask)
    /\ \A q \in Calls : /\ WF_allvars(TimerFires(q))
                        /\ WF_allvars(TimeIsUp(q))
                        /\ WF_allvars(HandedOver(q))

QSpec == QInit /\ [][QNext]_allvars /\ QFairness

-----------------------------------------------------------------------------
(* Properties.                                                             *)

(* Type correctness; and what waits, was answered or timed out was sent.   *)
QuestionsTypeOK ==
    /\ \A q \in Calls :
          /\ {calls[q].inner, calls[q].future} \subseteq Futures
          /\ calls[q].inner \in {"pending", "answered", "timeout"}
                => calls[q].hands # NoConn
    /\ Range(waiters) \cup Range(deadlines) \subseteq Calls

(* A future is settled once (a promise set twice throws in the dispatcher):*)
(* not by the deadline after the answer, nor by an answer that comes late, *)
(* nor by the server's end.                                                *)
SettledOnce ==
    [][\A q \in Calls :
         /\ calls[q].inner \in Settled => calls'[q].inner = calls[q].inner
         /\ calls[q].future \in Settled => calls'[q].future = calls[q].future]_allvars

(* Every question is settled, whether or not its client answers, its       *)
(* stream lasts or the server does ("sendRequest future was abandoned when *)
(* the server was destroyed", tests/server/test_ask_client.cc:236).        *)
EveryQuestionSettles ==
    []<>\A q \in Calls : calls[q].future # "pending"

(* Nothing of a question is left behind once it is over: no waiter to take  *)
(* somebody's later answer, no timer but the one about to be erased; and    *)
(* what waits, was answered or timed out was sent.                          *)
NothingLeftBehind ==
    /\ QuestionsTypeOK
    /\ \A id \in DOMAIN waiters : calls[waiters[id]].inner = "pending"
    /\ \A id \in DOMAIN deadlines :
          \/ calls[deadlines[id]].inner = "pending"
          \/ EraseTask(deadlines[id]) \in Range(posted)

(* A question goes to the client it was asked of and to no other, and      *)
(* while the server lives no caller is left with a broken promise.         *)
AskedOfThatClient ==
    /\ \A q \in Calls : calls[q].hands \in {NoConn, calls[q].asked}
    /\ alive => \A q \in Calls : calls[q].inner # "broken"

(* Between any two steps the question's parts agree: who waits, under which *)
(* id, with which timer, and who was sent it.                               *)
QuestionsSound == NothingLeftBehind /\ AskedOfThatClient

(* "Send a server-initiated request to a specific session and resolve the   *)
(* returned future when that client sends the matching JSON-RPC response"   *)
(* (mcp_server.h:1624): the answer a caller gets is not another client's.   *)
(* The code does not keep to it: onResponse looks at the id alone.          *)
ThatClientAnswers ==
    \A q \in Calls : calls[q].inner = "answered" => calls[q].by \in {calls[q].asked, NoConn}
=============================================================================
