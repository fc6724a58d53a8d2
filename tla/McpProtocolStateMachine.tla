----------------------- MODULE McpProtocolStateMachine -----------------------
(***************************************************************************)
(* McpProtocolStateMachine: the protocol state of a client, as operators   *)
(* on the machine's fields.  handleEvent() runs under the machine's mutex  *)
(* from the look at the state to the end of the callback, so that one      *)
(* event is one value of HandleEvent; ClientLifecycle says when events     *)
(* come and what the client does when it is called back.                   *)
(*                                                                         *)
(* The timer is the state it was armed for, and an error is there or not.  *)
(***************************************************************************)
EXTENDS Integers

CONSTANTS AutoReconnect, MaxReconnectAttempts

ASSUME ReconnectAssumption == AutoReconnect \in BOOLEAN /\ MaxReconnectAttempts \in Nat

States == {"DISCONNECTED", "CONNECTING", "CONNECTED", "INITIALIZING", "READY",
           "DRAINING", "ERROR", "CLOSED"}

\* The states no one may stay in for ever.
Timed == {"CONNECTING", "INITIALIZING", "DRAINING"}
NoTimer == "none"

Machine == [state : States, attempts : 0..MaxReconnectAttempts,
            timer : Timed \cup {NoTimer}, error : BOOLEAN]

NewMachine == [state |-> "DISCONNECTED", attempts |-> 0, timer |-> NoTimer, error |-> FALSE]

\* What each event leads to in each state; any other event is ignored.
Table ==
  { <<"DISCONNECTED", "CONNECT_REQUESTED", "CONNECTING">>,
    <<"DISCONNECTED", "NETWORK_CONNECTED", "CONNECTED">>,
    <<"CONNECTING", "NETWORK_CONNECTED", "CONNECTED">>,
    <<"CONNECTING", "NETWORK_DISCONNECTED", "DISCONNECTED">>,
    <<"CONNECTING", "TIMEOUT", "DISCONNECTED">>,
    <<"CONNECTING", "PROTOCOL_ERROR", "ERROR">>,
    <<"CONNECTED", "INITIALIZE_REQUESTED", "INITIALIZING">>,
    <<"CONNECTED", "INITIALIZE_SENT", "INITIALIZING">>,
    <<"CONNECTED", "NETWORK_DISCONNECTED", "DISCONNECTED">>,
    <<"CONNECTED", "PROTOCOL_ERROR", "ERROR">>,
    <<"INITIALIZING", "INITIALIZED", "READY">>,
    <<"INITIALIZING", "INITIALIZE_RECEIVED", "READY">>,
    <<"INITIALIZING", "TIMEOUT", "ERROR">>,
    <<"INITIALIZING", "NETWORK_DISCONNECTED", "DISCONNECTED">>,
    <<"INITIALIZING", "PROTOCOL_ERROR", "ERROR">>,
    <<"READY", "SHUTDOWN_REQUESTED", "DRAINING">>,
    <<"READY", "NETWORK_DISCONNECTED", "DISCONNECTED">>,
    <<"READY", "PROTOCOL_ERROR", "ERROR">>,
    <<"DRAINING", "DRAIN_COMPLETE", "CLOSED">>,
    <<"DRAINING", "TIMEOUT", "CLOSED">>,
    <<"DRAINING", "NETWORK_DISCONNECTED", "CLOSED">>,
    <<"ERROR", "SHUTDOWN_REQUESTED", "CLOSED">>,
    <<"CLOSED", "CONNECT_REQUESTED", "CONNECTING">> }

Leads_NoLossInitializing(s, e, t) ==
  <<s, e, t>> \in Table /\ <<s, e>> # <<"INITIALIZING", "NETWORK_DISCONNECTED">>
Leads_Reopens(s, e, t) ==
  <<s, e, t>> \in Table \cup {<<"CLOSED", "NETWORK_CONNECTED", "CONNECTED">>}

Leads(s, e, t) == <<s, e, t>> \in Table

Reconnects_TwicePerLoss(m, e) ==
  /\ AutoReconnect
  /\ m.state \in {"READY", "CONNECTING"}
  /\ e = "NETWORK_DISCONNECTED"
  /\ m.attempts < MaxReconnectAttempts

\* A loss in READY, or an explicit request in ERROR, is another attempt to
\* connect while attempts are left.
Reconnects(m, e) ==
  /\ m.attempts < MaxReconnectAttempts
  /\ \/ AutoReconnect /\ m.state = "READY" /\ e = "NETWORK_DISCONNECTED"
     \/ m.state = "ERROR" /\ e = "RECONNECT_REQUESTED"

Armed_NeverForDraining(s) == IF s \in Timed \ {"DRAINING"} THEN s ELSE NoTimer

Armed(s) == IF s \in Timed THEN s ELSE NoTimer

\* transitionTo(): the timer of the old state is cancelled, its error dropped
\* on leaving ERROR, and the timer of the new state started.
Entered(m, s) ==
  [m EXCEPT !.state = s, !.timer = Armed(s), !.error = m.error /\ m.state # "ERROR"]

HandleEvent(m, e) ==
  IF Reconnects(m, e)
  THEN Entered([m EXCEPT !.attempts = m.attempts + 1], "CONNECTING")
  ELSE IF \E t \in States : Leads(m.state, e, t)
  THEN Entered([m EXCEPT !.attempts = IF m.state = "CLOSED" THEN 0 ELSE m.attempts],
               CHOOSE t \in States : Leads(m.state, e, t))
  ELSE m

\* The first half of handleError(): what went wrong is kept, whatever the state.
Kept(m) == [m EXCEPT !.error = TRUE]
==============================================================================
