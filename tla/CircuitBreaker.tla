--------------------------- MODULE CircuitBreaker ---------------------------
(***************************************************************************)
(* CircuitBreakerFilter: stops the requests of a connection whose          *)
(* responses keep failing, and lets a few through later to see whether the *)
(* peer recovered.                                                         *)
(*                                                                         *)
(* The filter runs on its connection's thread.  It passes every message it *)
(* lets through to the next handler: requests after it released its mutex, *)
(* responses and protocol errors while it holds it.                        *)
(*                                                                         *)
(* Abstractions.  Any time may pass between two calls, so any number of    *)
(* the oldest outcomes may have left the window, and an open circuit may   *)
(* have waited long enough.  A blocked request changes nothing and is left *)
(* out, as are the health figures.                                         *)
(***************************************************************************)
EXTENDS Integers, Sequences, FiniteSets

CONSTANTS
  Ids,                \* request ids
  FailureThreshold, MinRequests, MaxFailurePercent, HalfOpenMax, SuccessThreshold,
  TrackErrors,        \* CircuitBreakerConfig
  NextReportsBack,    \* the next handler tells this filter of protocol errors
  MaxOutcomes,        \* bound: outcomes in the window
  MaxConsecutive      \* bound: failures in a row

\* Thresholds of 0 act like 1.  The factory only warns of a success threshold
\* that the tests cannot reach ("circuit may never close").
ASSUME CircuitAssumption ==
  /\ FailureThreshold \in Nat \ {0}
  /\ SuccessThreshold \in Nat \ {0}
  /\ HalfOpenMax \in Nat /\ MinRequests \in Nat /\ MaxFailurePercent \in Nat
  /\ SuccessThreshold <= HalfOpenMax + 1
  /\ MaxConsecutive \in Nat /\ MaxOutcomes \in Nat

ASSUME FlagAssumption == TrackErrors \in BOOLEAN /\ NextReportsBack \in BOOLEAN

VARIABLES
  state,              \* CLOSED, OPEN or HALF_OPEN
  clock,              \* "over" once timeout passed since the state changed
  outcomes,           \* request_outcomes_: TRUE for a success
  consecutive,        \* consecutive_failures_
  halfOpenRequests, halfOpenSuccesses,
  pending,            \* pending_requests_: the ids it waits for
  dispatching,        \* what the next handler is being called with, or "none"
  peer,               \* "healthy" once every response is a success
  tested,             \* requests let through since the circuit was half open
  reused              \* those of them that took an id still pending

breaker == <<state, clock, outcomes, consecutive, halfOpenRequests, halfOpenSuccesses>>
vars == <<breaker, pending, dispatching, peer, tested, reused>>

Init ==
  /\ state = "CLOSED"
  /\ clock = "running"
  /\ outcomes = <<>>
  /\ consecutive = 0
  /\ halfOpenRequests = 0
  /\ halfOpenSuccesses = 0
  /\ pending = {}
  /\ dispatching = "none"
  /\ peer = "unsteady"
  /\ tested = 0
  /\ reused = 0

-----------------------------------------------------------------------------
(* Admission. *)

transitionState(s) == state' = s /\ clock' = "running"

\* Variant: the tests of the last opening still count.
EnterHalfOpen_KeepsCount ==
  /\ state = "OPEN"
  /\ clock = "over"
  /\ transitionState("HALF_OPEN")
  /\ halfOpenSuccesses' = 0
  /\ tested' = 1
  /\ reused' = 0
  /\ UNCHANGED <<outcomes, consecutive, halfOpenRequests>>

\* The request that finds the timeout over is let through and not counted.
EnterHalfOpen ==
  /\ state = "OPEN"
  /\ clock = "over"
  /\ transitionState("HALF_OPEN")
  /\ halfOpenRequests' = 0
  /\ halfOpenSuccesses' = 0
  /\ tested' = 1
  /\ reused' = 0
  /\ UNCHANGED <<outcomes, consecutive>>

AdmitTest(id) ==
  /\ state = "HALF_OPEN"
  /\ halfOpenRequests < HalfOpenMax
  /\ halfOpenRequests' = halfOpenRequests + 1
  /\ tested' = tested + 1
  /\ reused' = reused + (IF id \in pending THEN 1 ELSE 0)
  /\ UNCHANGED <<state, clock, outcomes, consecutive, halfOpenSuccesses>>

AdmitClosed ==
  /\ state = "CLOSED"
  /\ UNCHANGED <<breaker, tested, reused>>

onRequest(id) ==
  /\ dispatching = "none"
  /\ AdmitClosed \/ EnterHalfOpen \/ AdmitTest(id)
  /\ pending' = pending \cup {id}
  /\ dispatching' = "request"
  /\ UNCHANGED peer

-----------------------------------------------------------------------------
(* Results. *)

\* cleanOldMetrics() and the new outcome.
Recorded(success) ==
  \E old \in 0..Len(outcomes) :
    /\ outcomes' = Append(SubSeq(outcomes, old + 1, Len(outcomes)), success)
    /\ Len(outcomes) - old < MaxOutcomes

\* Variant: the streak of failures outlives a success.
recordSuccess_KeepsStreak ==
  /\ Recorded(TRUE)
  /\ halfOpenSuccesses' = halfOpenSuccesses + (IF state = "HALF_OPEN" THEN 1 ELSE 0)
  /\ IF state = "HALF_OPEN" /\ halfOpenSuccesses + 1 >= SuccessThreshold
     THEN transitionState("CLOSED") ELSE UNCHANGED <<state, clock>>
  /\ UNCHANGED <<consecutive, halfOpenRequests>>

recordSuccess ==
  /\ Recorded(TRUE)
  /\ consecutive' = 0
  /\ halfOpenSuccesses' = halfOpenSuccesses + (IF state = "HALF_OPEN" THEN 1 ELSE 0)
  /\ IF state = "HALF_OPEN" /\ halfOpenSuccesses + 1 >= SuccessThreshold
     THEN transitionState("CLOSED") ELSE UNCHANGED <<state, clock>>
  /\ UNCHANGED halfOpenRequests

Failures(window) == Cardinality({i \in DOMAIN window : ~window[i]})

TooManyFailures ==
  \/ consecutive' >= FailureThreshold
  \/ /\ Len(outcomes') >= MinRequests
     /\ Failures(outcomes') * 100 > MaxFailurePercent * Len(outcomes')

recordFailure ==
  /\ consecutive < MaxConsecutive
  /\ Recorded(FALSE)
  /\ consecutive' = consecutive + 1
  /\ IF \/ state = "CLOSED" /\ TooManyFailures
        \/ state = "HALF_OPEN"
     THEN transitionState("OPEN") ELSE UNCHANGED <<state, clock>>
  /\ UNCHANGED <<halfOpenRequests, halfOpenSuccesses>>

\* Client errors, and all errors if they are not tracked, count as successes.
IsFailure(result) == result = "error" /\ TrackErrors

\* A response to no pending request is only passed on.
onResponse(id, result) ==
  /\ dispatching = "none"
  /\ peer = "healthy" => result = "success"
  /\ IF id \in pending
     THEN IF IsFailure(result) THEN recordFailure ELSE recordSuccess
     ELSE UNCHANGED breaker
  /\ pending' = pending \ {id}
  /\ dispatching' = "response"
  /\ UNCHANGED <<peer, tested, reused>>

onProtocolError ==
  /\ dispatching = "none"
  /\ peer = "unsteady"
  /\ IF TrackErrors THEN recordFailure ELSE UNCHANGED breaker
  /\ dispatching' = "error"
  /\ UNCHANGED <<pending, peer, tested, reused>>

-----------------------------------------------------------------------------
(* The next handler, the clock and the peer. *)

mutexHeld == dispatching \in {"response", "error"}

\* A handler that reports the error to this filter first calls onProtocolError
\* on the same thread, which has to lock the mutex again.
DispatchReturns ==
  /\ dispatching # "none"
  /\ (dispatching = "error" /\ NextReportsBack) => ~mutexHeld
  /\ dispatching' = "none"
  /\ UNCHANGED <<breaker, pending, peer, tested, reused>>

TimeoutExpires ==
  /\ state = "OPEN"
  /\ clock = "running"
  /\ clock' = "over"
  /\ UNCHANGED <<state, outcomes, consecutive, halfOpenRequests, halfOpenSuccesses,
                 pending, dispatching, peer, tested, reused>>

PeerRecovers ==
  /\ peer = "unsteady"
  /\ peer' = "healthy"
  /\ UNCHANGED <<breaker, pending, dispatching, tested, reused>>

Next ==
  \/ \E id \in Ids : onRequest(id)
  \/ \E id \in Ids, result \in {"success", "client", "error"} : onResponse(id, result)
  \/ onProtocolError
  \/ DispatchReturns
  \/ TimeoutExpires
  \/ PeerRecovers

Spec == Init /\ [][Next]_vars

\* Time passes, handlers return, clients go on sending requests and a healthy
\* peer answers each of them.
FairSpec ==
  /\ Spec
  /\ WF_vars(TimeoutExpires)
  /\ WF_vars(DispatchReturns)
  /\ SF_vars(\E id \in Ids \ pending : onRequest(id))
  /\ \A id \in Ids : SF_vars(id \in pending /\ onResponse(id, "success"))

-----------------------------------------------------------------------------
(* Properties *)

TypeOK ==
  /\ state \in {"CLOSED", "OPEN", "HALF_OPEN"}
  /\ clock \in {"running", "over"}
  /\ outcomes \in Seq(BOOLEAN)
  /\ consecutive \in Nat
  /\ halfOpenRequests \in 0..HalfOpenMax
  /\ halfOpenSuccesses \in Nat
  /\ pending \subseteq Ids
  /\ dispatching \in {"none", "request", "response", "error"}
  /\ peer \in {"unsteady", "healthy"}
  /\ tested \in Nat
  /\ reused \in Nat

\* A closed circuit has not seen its limit of failures in a row: a streak that
\* grew while the circuit was open is over by the time it closes again.
ClosedBelowThreshold == state = "CLOSED" => consecutive < FailureThreshold

\* A half-open circuit has not seen the successes that close it: those of an
\* earlier half-open time, and answers that came while it was open, do not count.
HalfOpenBelowThreshold == state = "HALF_OPEN" => halfOpenSuccesses < SuccessThreshold

\* "Max requests in half-open state" (circuit_breaker_filter.h:69): while the
\* circuit is half open it lets through no more than half_open_max_requests.  The
\* code does not keep to it.
TestsWithinMax == state = "HALF_OPEN" => tested <= HalfOpenMax

\* How far it goes: it lets through one more, the request that finds
\* the timeout over, in whatever order requests, results and timeouts come.
TestsBounded == state = "HALF_OPEN" => tested <= HalfOpenMax + 1

\* A half-open circuit can still leave that state: it has tests to let through
\* or answers to come, as long as no test took the id of a pending request.
NotStuck ==
  (state = "HALF_OPEN" /\ reused = 0) => halfOpenRequests < HalfOpenMax \/ pending # {}

\* Once the peer is healthy, the circuit closes, unless a test's id was used twice.
RecoversWhenHealthy == (peer = "healthy") ~> (state = "CLOSED" \/ reused > 0)

\* A protocol error passed to the next handler gets to the MCP layer behind
\* it.  ("Forward to MCP layer")
ErrorsReachMcp == (dispatching = "error") ~> (dispatching = "none")

\* The counts the circuit decides by are those of the state it is in, however
\* late answers and repeated ids find it: no closed circuit is at its failure
\* threshold, no half-open one at its success threshold.
CountsBounded == TypeOK /\ ClosedBelowThreshold /\ HalfOpenBelowThreshold
=============================================================================
